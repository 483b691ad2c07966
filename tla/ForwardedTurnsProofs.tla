------------------------ MODULE ForwardedTurnsProofs ------------------------
(***************************************************************************)
(* A forwarded turn leaves nothing behind at its origin, and is spoken     *)
(* twice only for the reasons given, for any hive, any turns and any       *)
(* number of lease changes, losses and retries.                            *)
(***************************************************************************)
EXTENDS ForwardedTurns, TLAPS

Statuses == {"answered", "refused", "error"}

Frames ==
    [kind : {"turn", "delegate"}, id : Turns]
    \cup [kind : {"turn_result"}, id : Turns, status : Statuses]
    \cup [kind : {"delegate_result"}, id : Turns, stale : BOOLEAN]

TurnTypes ==
    /\ view \in [Nodes -> Nodes \cup {Nobody}]
    /\ net \in [Links -> Seq(Frames)]
    /\ turn \in [Turns -> {"new", "own", "waiting", "fallback", "handed", "over"}]
    /\ waiters \subseteq Turns
    /\ results \in [Turns -> Statuses \cup {None}]
    /\ worker \in [Turns -> [at : Nodes, status : Statuses \cup {"deciding"}] \cup {None}]
    /\ acting \in [Nodes -> [id : Turns, from : Nodes, done : BOOLEAN] \cup {None}]
    /\ pending \in [Links -> [id : Turns, attempt : Nat] \cup {None}]
    /\ retries \in [Links \X Turns -> Nat]
    /\ heard \in [Turns -> Seq(Nodes)]
    /\ sends \in [Turns -> Nat]
    /\ timedOut \subseteq Turns /\ astray \subseteq Turns

-----------------------------------------------------------------------------
(* Who may still speak the reply to a turn.  A frame carries that right if *)
(* it asks for an answer, asks for the reply to be said, or says that      *)
(* somebody else has to do it.                                             *)
Carries(f, t) ==
    /\ f.id = t
    /\ \/ f.kind \in {"turn", "delegate"}
       \/ f.kind = "turn_result" /\ f.status # "answered"
       \/ f.kind = "delegate_result" /\ f.stale

NoneSent(channels, t) ==
    \A l \in Links : \A i \in 1 .. Len(channels[l]) : ~Carries(channels[l][i], t)

OneSent(channels, t) ==
    \A l, k \in Links : \A i \in 1 .. Len(channels[l]), j \in 1 .. Len(channels[k]) :
        Carries(channels[l][i], t) /\ Carries(channels[k][j], t) => l = k /\ i = j

Acts(n, t) == acting[n] # None /\ ~acting[n].done /\ acting[n].id = t

Sleeps(l, t) == retries[<<l, t>>] > 0

(* The right is in one place, which is one of these, and in it once. *)
AtOrigin(t)   == turn[t] \in {"new", "own", "fallback"}
AtWorker(t)   == worker[t] # None /\ worker[t].status # "answered"
AtResult(t)   == results[t] # None /\ results[t] # "answered"
InFlight(t)   == ~NoneSent(net, t)
AtSpeaker(t)  == \E n \in Nodes : Acts(n, t)
AtRetry(t)    == \E l \in Links : Sleeps(l, t)
Spoken(t)     == heard[t] # << >>

OneSpeaker(t) == \A m, n \in Nodes : Acts(m, t) /\ Acts(n, t) => m = n
OneRetry(t) ==
    /\ \A l, k \in Links : Sleeps(l, t) /\ Sleeps(k, t) => l = k
    /\ \A l \in Links : retries[<<l, t>>] <= 1

Once(t) == /\ OneSent(net, t) /\ OneSpeaker(t) /\ OneRetry(t)
           /\ Len(heard[t]) <= 1

OnlyAt(p, t) ==
    /\ Once(t)
    /\ AtOrigin(t)  => p = "origin"
    /\ AtWorker(t)  => p = "worker"
    /\ AtResult(t)  => p = "result"
    /\ InFlight(t)  => p = "net"
    /\ AtSpeaker(t) => p = "speaker"
    /\ AtRetry(t)   => p = "retry"
    /\ Spoken(t)    => p = "spoken"

Places == {"origin", "worker", "result", "net", "speaker", "retry", "spoken"}

Excused == timedOut \cup astray

MouthInv == \A t \in Turns : t \in Excused \/ \E p \in Places : OnlyAt(p, t)

-----------------------------------------------------------------------------
(* Writing one entry of a table keeps its type, also when the table has no *)
(* such entry and nothing is written.                                      *)
LEMMA UpdateTypes ==
    ASSUME NEW S, NEW T, NEW f \in [S -> T], NEW x, NEW v \in T
    PROVE  [f EXCEPT ![x] = v] \in [S -> T]
OBVIOUS

(* A frame put on a connection, or the first one taken off, leaves well-   *)
(* typed connections.                                                      *)
LEMMA NetTypes ==
    ASSUME NEW channels \in [Links -> Seq(Frames)], NEW from, NEW to
    PROVE  /\ \A f \in Frames : Queued(channels, from, to, f) \in [Links -> Seq(Frames)]
           /\ channels[<<from, to>>] # << >> =>
                [channels EXCEPT ![<<from, to>>] = Tail(@)] \in [Links -> Seq(Frames)]
<1> DEFINE l == <<from, to>>
<1> HIDE DEF l
<1>1. ASSUME NEW f \in Frames
      PROVE  [channels EXCEPT ![l] = Append(@, f)] \in [Links -> Seq(Frames)]
  <2>1. CASE l \in Links
    <3>1. Append(channels[l], f) \in Seq(Frames)
      BY <2>1
    <3> QED BY <2>1, <3>1
  <2> QED BY <2>1
<1>2. ASSUME channels[l] # << >>
      PROVE  [channels EXCEPT ![l] = Tail(@)] \in [Links -> Seq(Frames)]
  <2>1. CASE l \in Links
    <3>1. Tail(channels[l]) \in Seq(Frames)
      BY <1>2, <2>1
    <3> QED BY <2>1, <3>1
  <2> QED BY <2>1
<1> QED BY <1>1, <1>2 DEF Queued, l

(* What is read from the frames a handler takes off a connection. *)
LEMMA FrameTypes ==
    ASSUME TurnTypes, NEW m \in Nodes, NEW n \in Nodes, m # n,
           NEW kind, Receives(m, n, kind)
    PROVE  LET f == Head(net[<<m, n>>]) IN
           /\ <<m, n>> \in Links /\ net[<<m, n>>] # << >>
           /\ f \in Frames /\ f.kind = kind /\ f.id \in Turns
           /\ kind = "turn_result" => f.status \in Statuses
           /\ kind = "delegate_result" => f.stale \in BOOLEAN
<1>1. <<m, n>> \in Links /\ net[<<m, n>>] # << >> /\ net[<<m, n>>] \in Seq(Frames)
  BY DEF TurnTypes, Receives, Links
<1>2. Head(net[<<m, n>>]) \in Frames
  BY <1>1
<1>3. Head(net[<<m, n>>]).kind = kind
  BY DEF Receives
<1> QED BY <1>1, <1>2, <1>3 DEF Frames

(* The frames the program builds. *)
LEMMA BuiltFrames ==
    ASSUME NEW t \in Turns
    PROVE  /\ [kind |-> "turn", id |-> t] \in Frames
           /\ [kind |-> "delegate", id |-> t] \in Frames
           /\ \A s \in Statuses : [kind |-> "turn_result", id |-> t, status |-> s] \in Frames
           /\ \A b \in BOOLEAN : DelegateResult(t, b) \in Frames
BY DEF Frames, DelegateResult

(* A best-effort reply puts a frame on a link or none. *)
LEMMA ReplyTypes ==
    ASSUME NEW channels \in [Links -> Seq(Frames)], NEW from, NEW to,
           NEW f \in Frames, ReplyTo(channels, from, to, f)
    PROVE  net' \in [Links -> Seq(Frames)]
<1>1. Queued(channels, from, to, f) \in [Links -> Seq(Frames)]
  BY NetTypes
<1> QED BY <1>1 DEF ReplyTo

(* Saying a reply adds the node that says it. *)
LEMMA SayTypes ==
    ASSUME TurnTypes, NEW n \in Nodes, NEW t \in Turns, Say(n, t)
    PROVE  heard' \in [Turns -> Seq(Nodes)]
<1>1. heard[t] \in Seq(Nodes) /\ Append(heard[t], n) \in Seq(Nodes)
  BY DEF TurnTypes
<1> QED BY <1>1 DEF TurnTypes, Say

(* What the primary's worker does with a turn: the reply goes to the       *)
(* origin, or astray to another device, or is said here, or to nobody.     *)
LEMMA WorkerAnswers ==
    ASSUME NEW t, AnswerForwardedTurn(t)
    PROVE  \/ /\ Finish(t, "answered")
              /\ Delegate(worker[t].at, Origin[t], t) /\ UNCHANGED astray
           \/ /\ Finish(t, "answered") \/ Finish(t, "error")
              /\ \E peer \in Nodes : Delegate(worker[t].at, peer, t)
              /\ astray' = astray \cup {t}
           \/ Finish(t, "answered") /\ Say(worker[t].at, t)
           \/ /\ Finish(t, "answered") /\ ~MayAct(worker[t].at) /\ NoFault
              /\ UNCHANGED <<net, pending, heard, sends, astray>>
           \/ /\ Finish(t, "error") /\ (NoFault \/ Fault)
              /\ UNCHANGED <<net, pending, heard, sends, astray>>
<1>1. CASE RelayProposal(t)
  BY <1>1 DEF RelayProposal, Route
<1>2. CASE DecideTurn(t)
  BY <1>2 DEF DecideTurn, Route
<1> QED BY <1>1, <1>2 DEF AnswerForwardedTurn

(* Delegating the reply sends a frame and notes it as pending. *)
LEMMA DelegateTypes ==
    ASSUME TurnTypes, NEW n, NEW peer, NEW t \in Turns, Delegate(n, peer, t)
    PROVE  /\ net' \in [Links -> Seq(Frames)]
           /\ pending' \in [Links -> [id : Turns, attempt : Nat] \cup {None}]
           /\ sends' \in [Turns -> Nat]
           /\ heard' = heard
<1>1. net' \in [Links -> Seq(Frames)]
  BY NetTypes, BuiltFrames DEF TurnTypes, Delegate
<1>2. [id |-> t, attempt |-> 0] \in [id : Turns, attempt : Nat]
  OBVIOUS
<1>3. pending' \in [Links -> [id : Turns, attempt : Nat] \cup {None}]
  BY <1>2, UpdateTypes DEF TurnTypes, Delegate
<1>4. sends[t] + 1 \in Nat
  BY DEF TurnTypes
<1> QED BY <1>1, <1>3, <1>4, UpdateTypes DEF TurnTypes, Delegate

(* Speaking a reply, here or on a nearer device, keeps the types. *)
LEMMA SpeakTypes ==
    ASSUME TurnTypes, NEW n \in Nodes, NEW t \in Turns, SpeakNearest(n, t)
    PROVE  /\ net' \in [Links -> Seq(Frames)]
           /\ pending' \in [Links -> [id : Turns, attempt : Nat] \cup {None}]
           /\ sends' \in [Turns -> Nat]
           /\ heard' \in [Turns -> Seq(Nodes)]
           /\ astray' \subseteq Turns
<1>1. CASE Say(n, t)
  BY <1>1, SayTypes DEF Say, TurnTypes
<1>2. ASSUME NEW peer \in Nodes \ {n}, Delegate(n, peer, t), astray' = astray \cup {t}
      PROVE  /\ net' \in [Links -> Seq(Frames)]
             /\ pending' \in [Links -> [id : Turns, attempt : Nat] \cup {None}]
             /\ sends' \in [Turns -> Nat]
             /\ heard' \in [Turns -> Seq(Nodes)]
             /\ astray' \subseteq Turns
  BY <1>2, DelegateTypes DEF TurnTypes
<1> QED BY <1>1, <1>2 DEF SpeakNearest

-----------------------------------------------------------------------------
(* Every step keeps the types of the agents' tables, threads and frames. *)
LEMMA StepTurnTypes ==
    ASSUME TurnTypes, [Next]_vars
    PROVE  TurnTypes'
<1> USE TurnsAssumption
<1>1. ASSUME NEW t \in Turns, TakeTurn(t) PROVE TurnTypes'
  <2>1. net' \in [Links -> Seq(Frames)]
    <3>1. net \in [Links -> Seq(Frames)] /\ [kind |-> "turn", id |-> t] \in Frames
      BY BuiltFrames DEF TurnTypes
    <3>2. Queued(net, Origin[t], view[Origin[t]], [kind |-> "turn", id |-> t])
            \in [Links -> Seq(Frames)]
      BY <3>1, NetTypes
    <3> QED BY <1>1, <3>1, <3>2 DEF TakeTurn
  <2> QED BY <1>1, <2>1 DEF TurnTypes, TakeTurn
<1>2. ASSUME NEW t \in Turns, WaitEnds(t) PROVE TurnTypes'
  BY <1>2 DEF TurnTypes, WaitEnds, Collected
<1>3. ASSUME NEW t \in Turns, TimeOut(t) PROVE TurnTypes'
  BY <1>3 DEF TurnTypes, TimeOut, Collected
<1>4. ASSUME NEW t \in Turns, AnswerHere(t) PROVE TurnTypes'
  <2>1. CASE SpeakNearest(Origin[t], t)
    <3>1. Origin[t] \in Nodes
      OBVIOUS
    <3> QED BY <1>4, <2>1, <3>1, SpeakTypes DEF TurnTypes, AnswerHere
  <2>2. CASE UNCHANGED <<net, pending, heard, sends, astray>>
    BY <1>4, <2>2 DEF TurnTypes, AnswerHere
  <2> QED BY <1>4, <2>1, <2>2 DEF AnswerHere
<1>5. ASSUME NEW m \in Nodes, NEW n \in Nodes, m # n, HandleTurn(m, n) PROVE TurnTypes'
  <2> DEFINE t == Head(net[<<m, n>>]).id
  <2>1. t \in Turns /\ net[<<m, n>>] # << >>
    BY <1>5, FrameTypes DEF HandleTurn
  <2> HIDE DEF t
  <2>2. Rest(m, n) \in [Links -> Seq(Frames)]
    BY <2>1, NetTypes DEF TurnTypes, Rest
  <2>3. [kind |-> "turn_result", id |-> t, status |-> "refused"] \in Frames
    BY <2>1, BuiltFrames DEF Statuses
  <2>4. net' \in [Links -> Seq(Frames)]
    BY <1>5, <2>2, <2>3, ReplyTypes DEF HandleTurn, t
  <2>5. worker' \in [Turns -> [at : Nodes, status : Statuses \cup {"deciding"}] \cup {None}]
    <3>1. [at |-> n, status |-> "deciding"] \in [at : Nodes, status : Statuses \cup {"deciding"}]
      BY DEF Statuses
    <3>2. \/ worker' = [worker EXCEPT ![t] = [at |-> n, status |-> "deciding"]]
          \/ worker' = worker
      BY <1>5 DEF HandleTurn, t
    <3>3. [worker EXCEPT ![t] = [at |-> n, status |-> "deciding"]]
            \in [Turns -> [at : Nodes, status : Statuses \cup {"deciding"}] \cup {None}]
      BY <3>1, UpdateTypes DEF TurnTypes
    <3> QED BY <3>2, <3>3 DEF TurnTypes
  <2> QED BY <1>5, <2>4, <2>5 DEF TurnTypes, HandleTurn
<1>6. ASSUME NEW t \in Turns, AnswerForwardedTurn(t) PROVE TurnTypes'
  <2>1. worker[t] \in [at : Nodes, status : Statuses \cup {"deciding"}]
    BY <1>6 DEF TurnTypes, AnswerForwardedTurn
  <2>2. worker' \in [Turns -> [at : Nodes, status : Statuses \cup {"deciding"}] \cup {None}]
    <3>1. Finish(t, "answered") \/ Finish(t, "error")
      BY <1>6, WorkerAnswers
    <3>2. \A s \in Statuses : [worker[t] EXCEPT !.status = s]
                                  \in [at : Nodes, status : Statuses \cup {"deciding"}]
      BY <2>1
    <3>3. \A s \in Statuses : Finish(t, s) =>
              worker' = [worker EXCEPT ![t] = [worker[t] EXCEPT !.status = s]]
      BY DEF Finish
    <3>4. PICK s \in Statuses : Finish(t, s)
      BY <3>1 DEF Statuses
    <3>5. [worker[t] EXCEPT !.status = s] \in [at : Nodes, status : Statuses \cup {"deciding"}]
      BY <3>2
    <3>6. worker' = [worker EXCEPT ![t] = [worker[t] EXCEPT !.status = s]]
      BY <3>3, <3>4
    <3> QED BY <3>5, <3>6, UpdateTypes DEF TurnTypes
  <2>3. ASSUME NEW peer, Delegate(worker[t].at, peer, t),
               astray' \in {astray, astray \cup {t}}
        PROVE  TurnTypes'
    BY <1>6, <2>2, <2>3, DelegateTypes DEF TurnTypes, AnswerForwardedTurn
  <2>4. CASE Say(worker[t].at, t)
    BY <1>6, <2>1, <2>2, <2>4, SayTypes DEF TurnTypes, AnswerForwardedTurn, Say
  <2>5. CASE UNCHANGED <<net, pending, heard, sends, astray>>
    BY <1>6, <2>2, <2>5 DEF TurnTypes, AnswerForwardedTurn
  <2> QED BY <1>6, <2>3, <2>4, <2>5, WorkerAnswers
<1>7. ASSUME NEW t \in Turns, ReportTurn(t) PROVE TurnTypes'
  <2>1. worker[t].status \in Statuses
    BY <1>7 DEF TurnTypes, ReportTurn
  <2>2. net' \in [Links -> Seq(Frames)]
    BY <1>7, <2>1, BuiltFrames, ReplyTypes DEF TurnTypes, ReportTurn
  <2> QED BY <1>7, <2>2 DEF TurnTypes, ReportTurn
<1>8. ASSUME NEW m \in Nodes, NEW n \in Nodes, m # n, RecordTurnResult(m, n) PROVE TurnTypes'
  <2>1. /\ net[<<m, n>>] # << >> /\ Head(net[<<m, n>>]).id \in Turns
        /\ Head(net[<<m, n>>]).status \in Statuses
    BY <1>8, FrameTypes DEF RecordTurnResult
  <2>2. net' \in [Links -> Seq(Frames)]
    BY <1>8, <2>1, NetTypes DEF TurnTypes, Rest, RecordTurnResult
  <2> QED BY <1>8, <2>1, <2>2 DEF TurnTypes, RecordTurnResult
<1>9. ASSUME NEW m \in Nodes, NEW n \in Nodes, m # n, HandleDelegated(m, n) PROVE TurnTypes'
  <2> DEFINE t == Head(net[<<m, n>>]).id
  <2>1. t \in Turns /\ net[<<m, n>>] # << >>
    BY <1>9, FrameTypes DEF HandleDelegated
  <2> HIDE DEF t
  <2>2. Rest(m, n) \in [Links -> Seq(Frames)]
    BY <2>1, NetTypes DEF TurnTypes, Rest
  <2>3. DelegateResult(t, TRUE) \in Frames
    BY <2>1, BuiltFrames
  <2>4. net' \in [Links -> Seq(Frames)]
    BY <1>9, <2>2, <2>3, ReplyTypes DEF HandleDelegated, t
  <2>5. acting' \in [Nodes -> [id : Turns, from : Nodes, done : BOOLEAN] \cup {None}]
    <3>1. [id |-> t, from |-> m, done |-> FALSE] \in [id : Turns, from : Nodes, done : BOOLEAN]
      BY <2>1
    <3>2. \/ acting' = [acting EXCEPT ![n] = [id |-> t, from |-> m, done |-> FALSE]]
          \/ acting' = acting
      BY <1>9 DEF HandleDelegated, t
    <3>3. [acting EXCEPT ![n] = [id |-> t, from |-> m, done |-> FALSE]]
            \in [Nodes -> [id : Turns, from : Nodes, done : BOOLEAN] \cup {None}]
      BY <3>1, UpdateTypes DEF TurnTypes
    <3> QED BY <3>2, <3>3 DEF TurnTypes
  <2> QED BY <1>9, <2>4, <2>5 DEF TurnTypes, HandleDelegated
<1>10. ASSUME NEW n \in Nodes, RunDelegated(n) PROVE TurnTypes'
  <2>1. acting[n] \in [id : Turns, from : Nodes, done : BOOLEAN]
    BY <1>10 DEF TurnTypes, RunDelegated
  <2>2. acting' \in [Nodes -> [id : Turns, from : Nodes, done : BOOLEAN] \cup {None}]
    <3>1. [acting[n] EXCEPT !.done = TRUE] \in [id : Turns, from : Nodes, done : BOOLEAN]
      BY <2>1
    <3>2. acting' = [acting EXCEPT ![n] = [acting[n] EXCEPT !.done = TRUE]]
      BY <1>10 DEF RunDelegated
    <3> QED BY <3>1, <3>2 DEF TurnTypes
  <2>3. CASE SpeakNearest(n, acting[n].id)
    BY <1>10, <2>1, <2>2, <2>3, SpeakTypes DEF TurnTypes, RunDelegated
  <2>4. CASE UNCHANGED <<net, pending, heard, sends, astray>>
    BY <1>10, <2>2, <2>4 DEF TurnTypes, RunDelegated
  <2> QED BY <1>10, <2>3, <2>4 DEF RunDelegated
<1>11. ASSUME NEW n \in Nodes, ReportDelegated(n) PROVE TurnTypes'
  <2>1. acting[n] \in [id : Turns, from : Nodes, done : BOOLEAN]
    BY <1>11 DEF TurnTypes, ReportDelegated
  <2>2. net' \in [Links -> Seq(Frames)]
    BY <1>11, <2>1, BuiltFrames, ReplyTypes DEF TurnTypes, ReportDelegated
  <2> QED BY <1>11, <2>2 DEF TurnTypes, ReportDelegated
<1>12. ASSUME NEW m \in Nodes, NEW n \in Nodes, m # n, RecordDelegatedResult(m, n)
       PROVE  TurnTypes'
  <2> DEFINE f == Head(net[<<m, n>>])
             entry == pending[<<n, m>>]
             retry == f.stale /\ entry # None /\ entry.attempt < 2
             drop  == f.stale /\ entry # None /\ entry.attempt >= 2
  <2>1. net[<<m, n>>] # << >> /\ f.id \in Turns /\ <<n, m>> \in Links
    BY <1>12, FrameTypes DEF RecordDelegatedResult, Links
  <2>2. net' \in [Links -> Seq(Frames)]
    BY <1>12, <2>1, NetTypes DEF TurnTypes, Rest, RecordDelegatedResult
  <2>3. entry \in [id : Turns, attempt : Nat] \cup {None}
    BY <2>1 DEF TurnTypes
  <2>4. /\ pending' = IF retry THEN [pending EXCEPT ![<<n, m>>].attempt = @ + 1]
                     ELSE IF drop THEN [pending EXCEPT ![<<n, m>>] = None] ELSE pending
        /\ retries' = IF retry THEN [retries EXCEPT ![<<<<n, m>>, entry.id>>] = @ + 1]
                     ELSE retries
        /\ astray' = IF retry /\ entry.id # f.id THEN astray \cup {entry.id, f.id}
                    ELSE astray
    BY <1>12 DEF RecordDelegatedResult
  <2>5. pending' \in [Links -> [id : Turns, attempt : Nat] \cup {None}]
    <3>1. CASE retry
      <4>1. entry \in [id : Turns, attempt : Nat]
        BY <2>3, <3>1
      <4>2. [entry EXCEPT !.attempt = @ + 1] \in [id : Turns, attempt : Nat]
        BY <4>1
      <4>3. pending' = [pending EXCEPT ![<<n, m>>] = [entry EXCEPT !.attempt = @ + 1]]
        BY <2>4, <3>1
      <4> QED BY <4>2, <4>3 DEF TurnTypes
    <3>2. CASE ~retry
      BY <2>4, <3>2 DEF TurnTypes
    <3> QED BY <3>1, <3>2
  <2>6. retries' \in [Links \X Turns -> Nat] /\ astray' \subseteq Turns
    <3>1. CASE retry
      <4>1. entry.id \in Turns
        BY <2>3, <3>1
      <4>2. retries[<<<<n, m>>, entry.id>>] \in Nat
        BY <2>1, <4>1 DEF TurnTypes
      <4> HIDE DEF f, entry, retry, drop
      <4>3. retries' \in [Links \X Turns -> Nat]
        <5>1. retries' = [retries EXCEPT ![<<<<n, m>>, entry.id>>] = @ + 1]
          BY <2>4, <3>1
        <5>2. retries[<<<<n, m>>, entry.id>>] + 1 \in Nat
          BY <4>2
        <5> QED BY <5>1, <5>2, UpdateTypes DEF TurnTypes
      <4>4. astray' \subseteq Turns
        BY <2>1, <2>4, <4>1, f.id \in Turns DEF TurnTypes
      <4> QED BY <4>3, <4>4
    <3>2. CASE ~retry
      BY <2>4, <3>2 DEF TurnTypes
    <3> QED BY <3>1, <3>2
  <2> QED BY <1>12, <2>2, <2>5, <2>6 DEF TurnTypes, RecordDelegatedResult
<1>13. ASSUME NEW n \in Nodes, NEW m \in Nodes, n # m, NEW t \in Turns, Retry(n, m, t)
       PROVE  TurnTypes'
  <2>1. <<<<n, m>>, t>> \in Links \X Turns
    BY <1>13 DEF Links
  <2>2. retries' \in [Links \X Turns -> Nat]
    <3>1. retries[<<<<n, m>>, t>>] - 1 \in Nat
      BY <1>13, <2>1 DEF TurnTypes, Retry
    <3> QED BY <1>13, <3>1 DEF TurnTypes, Retry
  <2>3. CASE Delegate(n, m, t)
    BY <1>13, <2>2, <2>3, DelegateTypes DEF TurnTypes, Retry
  <2>4. CASE UNCHANGED <<net, pending, heard, sends>>
    BY <1>13, <2>2, <2>4 DEF TurnTypes, Retry
  <2> QED BY <1>13, <2>3, <2>4 DEF Retry
<1>14. ASSUME NEW n \in Nodes, LeaseMoves(n) PROVE TurnTypes'
  BY <1>14 DEF TurnTypes, LeaseMoves
<1>15. ASSUME NEW l \in Links, ConnectionBreaks(l) PROVE TurnTypes'
  BY <1>15 DEF TurnTypes, ConnectionBreaks
<1>16. CASE UNCHANGED vars
  BY <1>16 DEF TurnTypes, vars
<1> QED
  BY <1>1, <1>2, <1>3, <1>4, <1>5, <1>6, <1>7, <1>8, <1>9, <1>10, <1>11, <1>12,
     <1>13, <1>14, <1>15, <1>16
     DEF Next, OriginStep, WorkerStep, Handle, ActingStep

-----------------------------------------------------------------------------
(* What is left behind at the origin. *)

(* No step leaves an entry of waiters or results without a thread that     *)
(* waits for it.                                                           *)
LEMMA StepCollects ==
    ASSUME TurnTypes, ResultsAreCollected, [Next]_vars
    PROVE  ResultsAreCollected'
<1>1. ASSUME NEW u \in Turns, TakeTurn(u) PROVE ResultsAreCollected'
  BY <1>1 DEF ResultsAreCollected, TurnTypes, TakeTurn
<1>2. ASSUME NEW u \in Turns, WaitEnds(u) PROVE ResultsAreCollected'
  BY <1>2 DEF ResultsAreCollected, TurnTypes, WaitEnds, Collected
<1>3. ASSUME NEW u \in Turns, TimeOut(u) PROVE ResultsAreCollected'
  BY <1>3 DEF ResultsAreCollected, TurnTypes, TimeOut, Collected
<1>4. ASSUME NEW u \in Turns, AnswerHere(u) PROVE ResultsAreCollected'
  BY <1>4 DEF ResultsAreCollected, TurnTypes, AnswerHere
<1>5. ASSUME NEW m \in Nodes, NEW n \in Nodes, RecordTurnResult(m, n)
      PROVE  ResultsAreCollected'
  BY <1>5 DEF ResultsAreCollected, TurnTypes, RecordTurnResult
<1>6. CASE UNCHANGED <<turn, waiters, results>>
  BY <1>6 DEF ResultsAreCollected
<1>7. ASSUME NEW u \in Turns, WorkerStep(u) PROVE UNCHANGED <<turn, waiters, results>>
  BY <1>7 DEF WorkerStep, AnswerForwardedTurn, ReportTurn
<1>8. ASSUME NEW m \in Nodes, NEW n \in Nodes,
             HandleTurn(m, n) \/ HandleDelegated(m, n) \/ RecordDelegatedResult(m, n)
      PROVE  UNCHANGED <<turn, waiters, results>>
  BY <1>8 DEF HandleTurn, HandleDelegated, RecordDelegatedResult
<1>9. ASSUME NEW m \in Nodes, NEW n \in Nodes, NEW u \in Turns, Retry(m, n, u)
      PROVE  UNCHANGED <<turn, waiters, results>>
  BY <1>9 DEF Retry
<1>10. ASSUME NEW n \in Nodes, ActingStep(n) \/ LeaseMoves(n)
       PROVE  UNCHANGED <<turn, waiters, results>>
  BY <1>10 DEF ActingStep, RunDelegated, ReportDelegated, LeaseMoves
<1>11. ASSUME NEW l \in Links, ConnectionBreaks(l) PROVE UNCHANGED <<turn, waiters, results>>
  BY <1>11 DEF ConnectionBreaks
<1> QED
  BY <1>1, <1>2, <1>3, <1>4, <1>5, <1>6, <1>7, <1>8, <1>9, <1>10, <1>11
     DEF Next, OriginStep, Handle, vars

(* The agents' tables, threads and frames have their types in every state. *)
THEOREM TurnsAreTyped == Spec => []TurnTypes
<1>1. ASSUME Init PROVE TurnTypes
  <2>1. view \in [Nodes -> Nodes \cup {Nobody}]
    BY <1>1 DEF Init
  <2>2. << >> \in Seq(Frames) /\ << >> \in Seq(Nodes)
    OBVIOUS
  <2>3. net \in [Links -> Seq(Frames)] /\ heard \in [Turns -> Seq(Nodes)]
    BY <1>1, <2>2 DEF Init
  <2>4. retries \in [Links \X Turns -> Nat] /\ sends \in [Turns -> Nat]
    BY <1>1 DEF Init
  <2> QED BY <1>1, <2>1, <2>3, <2>4 DEF Init, TurnTypes
<1> QED BY <1>1, StepTurnTypes, PTL DEF Spec

(* The tables of _turn_state are "bounded by collection": a waiter or a    *)
(* result belongs to a thread that is still waiting, whichever outcome     *)
(* comes late, twice or never.                                             *)
THEOREM TurnsLeaveNothingBehind == Spec => []ResultsAreCollected
<1>1. Init => ResultsAreCollected
  BY DEF Init, ResultsAreCollected
<1> QED BY <1>1, StepCollects, TurnsAreTyped, PTL DEF Spec

-----------------------------------------------------------------------------
(* Where the frames of a changed connection come from. *)

(* After a frame was queued, a frame was there before at the same place or *)
(* is the new one, at the end of its connection.                           *)
LEMMA QueuedFrames ==
    ASSUME NEW channels \in [Links -> Seq(Frames)], NEW from, NEW to, NEW f \in Frames,
           NEW k \in Links, NEW i \in 1 .. Len(Queued(channels, from, to, f)[k])
    PROVE  \/ /\ i \in 1 .. Len(channels[k])
              /\ Queued(channels, from, to, f)[k][i] = channels[k][i]
           \/ /\ k = <<from, to>> /\ i = Len(channels[k]) + 1
              /\ Queued(channels, from, to, f)[k][i] = f
<1>1. channels[k] \in Seq(Frames)
  OBVIOUS
<1>2. CASE k = <<from, to>>
  <2>1. Queued(channels, from, to, f)[k] = Append(channels[k], f)
    BY <1>2 DEF Queued
  <2> QED BY <1>1, <1>2, <2>1
<1>3. CASE k # <<from, to>>
  <2>1. Queued(channels, from, to, f)[k] = channels[k]
    BY <1>3 DEF Queued
  <2> QED BY <2>1
<1> QED BY <1>2, <1>3

(* After the first frame of a connection was taken off, every other has    *)
(* moved up by one there, and stayed elsewhere.                            *)
LEMMA RestFrames ==
    ASSUME TurnTypes, NEW m, NEW n, <<m, n>> \in Links, net[<<m, n>>] # << >>,
           NEW k \in Links, NEW i \in 1 .. Len(Rest(m, n)[k])
    PROVE  \/ /\ k = <<m, n>> /\ i + 1 \in 1 .. Len(net[k])
              /\ Rest(m, n)[k][i] = net[k][i + 1]
           \/ /\ k # <<m, n>> /\ i \in 1 .. Len(net[k])
              /\ Rest(m, n)[k][i] = net[k][i]
<1>1. net \in [Links -> Seq(Frames)] /\ net[k] \in Seq(Frames)
  BY DEF TurnTypes
<1>2. CASE k = <<m, n>>
  <2>1. Rest(m, n)[k] = Tail(net[k])
    BY <1>1, <1>2 DEF Rest
  <2>2. Len(Tail(net[k])) = Len(net[k]) - 1
    BY <1>1, <1>2
  <2>3. i \in 1 .. (Len(net[k]) - 1)
    BY <2>1, <2>2
  <2>4. Tail(net[k])[i] = net[k][i + 1]
    BY <1>1, <1>2, <2>3
  <2>5. Len(net[k]) \in Nat
    BY <1>1
  <2> QED BY <1>2, <2>1, <2>3, <2>4, <2>5
<1>3. CASE k # <<m, n>>
  <2>1. Rest(m, n)[k] = net[k]
    BY <1>1, <1>3 DEF Rest
  <2> QED BY <1>3, <2>1
<1> QED BY <1>2, <1>3

(* A frame that does not carry the right to speak changes nothing about    *)
(* it; one that does is the only one if there was none.                    *)
LEMMA QueuedRight ==
    ASSUME NEW channels \in [Links -> Seq(Frames)], NEW from, NEW to, NEW f \in Frames,
           NEW t \in Turns
    PROVE  /\ ~Carries(f, t) /\ NoneSent(channels, t) =>
                NoneSent(Queued(channels, from, to, f), t)
           /\ ~Carries(f, t) /\ OneSent(channels, t) =>
                OneSent(Queued(channels, from, to, f), t)
           /\ NoneSent(channels, t) => OneSent(Queued(channels, from, to, f), t)
<1> DEFINE q == Queued(channels, from, to, f)
<1>0. \A k \in Links : \A i \in 1 .. Len(q[k]) :
           \/ i \in 1 .. Len(channels[k]) /\ q[k][i] = channels[k][i]
           \/ k = <<from, to>> /\ i = Len(channels[k]) + 1 /\ q[k][i] = f
  BY QueuedFrames
<1> HIDE DEF q
<1>1. ASSUME ~Carries(f, t), NoneSent(channels, t) PROVE NoneSent(q, t)
  BY <1>0, <1>1 DEF NoneSent
<1>2. ASSUME ~Carries(f, t), OneSent(channels, t) PROVE OneSent(q, t)
  <2> SUFFICES ASSUME NEW l \in Links, NEW k \in Links,
                      NEW i \in 1 .. Len(q[l]), NEW j \in 1 .. Len(q[k]),
                      Carries(q[l][i], t), Carries(q[k][j], t)
               PROVE  l = k /\ i = j
    BY DEF OneSent
  <2>1. i \in 1 .. Len(channels[l]) /\ q[l][i] = channels[l][i]
    BY <1>0, <1>2
  <2>2. j \in 1 .. Len(channels[k]) /\ q[k][j] = channels[k][j]
    BY <1>0, <1>2
  <2> QED BY <1>2, <2>1, <2>2 DEF OneSent
<1>3. ASSUME NoneSent(channels, t) PROVE OneSent(q, t)
  <2> SUFFICES ASSUME NEW l \in Links, NEW k \in Links,
                      NEW i \in 1 .. Len(q[l]), NEW j \in 1 .. Len(q[k]),
                      Carries(q[l][i], t), Carries(q[k][j], t)
               PROVE  l = k /\ i = j
    BY DEF OneSent
  <2>1. l = <<from, to>> /\ i = Len(channels[l]) + 1
    BY <1>0, <1>3 DEF NoneSent
  <2>2. k = <<from, to>> /\ j = Len(channels[k]) + 1
    BY <1>0, <1>3 DEF NoneSent
  <2> QED BY <2>1, <2>2
<1> QED BY <1>1, <1>2, <1>3 DEF q

(* Taking off a frame adds no right to speak; if the frame had it, no      *)
(* other has.                                                              *)
LEMMA RestRight ==
    ASSUME TurnTypes, NEW m, NEW n, <<m, n>> \in Links, net[<<m, n>>] # << >>, NEW t \in Turns
    PROVE  /\ NoneSent(net, t) => NoneSent(Rest(m, n), t)
           /\ OneSent(net, t) => OneSent(Rest(m, n), t)
           /\ Carries(Head(net[<<m, n>>]), t) => ~NoneSent(net, t)
           /\ Carries(Head(net[<<m, n>>]), t) /\ OneSent(net, t) => NoneSent(Rest(m, n), t)
<1> DEFINE r == Rest(m, n)  l == <<m, n>>
<1>0. \A k \in Links : \A i \in 1 .. Len(r[k]) :
           \/ k = l /\ i + 1 \in 1 .. Len(net[k]) /\ r[k][i] = net[k][i + 1]
           \/ k # l /\ i \in 1 .. Len(net[k]) /\ r[k][i] = net[k][i]
  BY RestFrames
<1>a. /\ 1 \in 1 .. Len(net[l]) /\ Head(net[l]) = net[l][1]
      /\ \A k \in Links : Len(r[k]) \in Nat
  <2>1. net[l] \in Seq(Frames)
    BY DEF TurnTypes
  <2>2. Len(net[l]) \in Nat /\ Len(net[l]) # 0
    BY <2>1
  <2>3. Rest(m, n) \in [Links -> Seq(Frames)]
    BY NetTypes DEF TurnTypes, Rest
  <2> QED BY <2>1, <2>2, <2>3
<1>b. l \in Links
  OBVIOUS
<1> HIDE DEF r, l
<1>1. ASSUME NoneSent(net, t) PROVE NoneSent(r, t)
  BY <1>0, <1>1 DEF NoneSent
<1>2. ASSUME OneSent(net, t) PROVE OneSent(r, t)
  <2> SUFFICES ASSUME NEW k \in Links, NEW j \in Links,
                      NEW a \in 1 .. Len(r[k]), NEW b \in 1 .. Len(r[j]),
                      Carries(r[k][a], t), Carries(r[j][b], t)
               PROVE  k = j /\ a = b
    BY DEF OneSent
  <2>1. PICK x \in {a, a + 1} : /\ x \in 1 .. Len(net[k]) /\ r[k][a] = net[k][x]
                                /\ x = a + 1 <=> k = l
    BY <1>0
  <2>2. PICK y \in {b, b + 1} : /\ y \in 1 .. Len(net[j]) /\ r[j][b] = net[j][y]
                                /\ y = b + 1 <=> j = l
    BY <1>0
  <2>3. k = j /\ x = y
    BY <1>2, <2>1, <2>2 DEF OneSent
  <2> QED BY <2>1, <2>2, <2>3
<1>3. ASSUME Carries(Head(net[l]), t) PROVE ~NoneSent(net, t)
  BY <1>a, <1>b, <1>3 DEF NoneSent
<1>4. ASSUME Carries(Head(net[l]), t), OneSent(net, t) PROVE NoneSent(r, t)
  <2> SUFFICES ASSUME NEW k \in Links, NEW a \in 1 .. Len(r[k]), Carries(r[k][a], t)
               PROVE  FALSE
    BY DEF NoneSent
  <2>1. PICK x \in {a, a + 1} : /\ x \in 1 .. Len(net[k]) /\ r[k][a] = net[k][x]
                                /\ x = a + 1 <=> k = l
    BY <1>0
  <2>2. k = l /\ x = 1
    BY <1>a, <1>b, <1>4, <2>1 DEF OneSent
  <2> QED BY <2>1, <2>2
<1> QED BY <1>1, <1>2, <1>3, <1>4 DEF r, l

-----------------------------------------------------------------------------
(* The right to speak moves.  A step is quiet on the network for a turn if *)
(* it sends nothing that carries the right; the parts of the state that    *)
(* hold the right are otherwise compared one by one.                       *)
QuietNet(t) ==
    /\ NoneSent(net, t) => NoneSent(net', t)
    /\ OneSent(net, t) => OneSent(net', t)

QuietActs(t) == \A n \in Nodes : Acts(n, t)' => Acts(n, t)

QuietRetries(t) == \A l \in Links : retries'[<<l, t>>] <= retries[<<l, t>>]

(* A part that does not change is quiet. *)
LEMMA Unchanging ==
    ASSUME NEW t \in Turns, TurnTypes
    PROVE  /\ UNCHANGED net => QuietNet(t)
           /\ UNCHANGED acting => QuietActs(t)
           /\ UNCHANGED retries => QuietRetries(t)
           /\ turn'[t] = turn[t] => (AtOrigin(t)' => AtOrigin(t))
           /\ worker'[t] = worker[t] => (AtWorker(t)' => AtWorker(t))
           /\ results'[t] = results[t] => (AtResult(t)' => AtResult(t))
<1>1. UNCHANGED retries => QuietRetries(t)
  BY DEF QuietRetries, TurnTypes
<1> QED BY <1>1 DEF QuietNet, QuietActs, Acts, AtOrigin, AtWorker, AtResult

(* What the predicates of the parts become in a quiet step. *)
LEMMA QuietParts ==
    ASSUME NEW t \in Turns, TurnTypes, TurnTypes'
    PROVE  /\ QuietNet(t) => (InFlight(t)' => InFlight(t))
           /\ QuietActs(t) => /\ AtSpeaker(t)' => AtSpeaker(t)
                              /\ OneSpeaker(t) => OneSpeaker(t)'
           /\ QuietRetries(t) => /\ AtRetry(t)' => AtRetry(t)
                                 /\ OneRetry(t) => OneRetry(t)'
           /\ heard'[t] = heard[t] => (Spoken(t)' => Spoken(t))
<1>1. \A l \in Links : retries[<<l, t>>] \in Nat /\ retries'[<<l, t>>] \in Nat
  BY DEF TurnTypes
<1>2. ASSUME QuietRetries(t)
      PROVE  (AtRetry(t)' => AtRetry(t)) /\ (OneRetry(t) => OneRetry(t)')
  <2>1. \A l \in Links : Sleeps(l, t)' => Sleeps(l, t)
    BY <1>1, <1>2 DEF QuietRetries, Sleeps
  <2>2. \A l \in Links : retries[<<l, t>>] <= 1 => retries'[<<l, t>>] <= 1
    BY <1>1, <1>2 DEF QuietRetries
  <2> QED BY <2>1, <2>2 DEF AtRetry, OneRetry
<1>3. QuietActs(t) => (AtSpeaker(t)' => AtSpeaker(t)) /\ (OneSpeaker(t) => OneSpeaker(t)')
  BY DEF QuietActs, AtSpeaker, OneSpeaker
<1>4. QuietNet(t) => (InFlight(t)' => InFlight(t))
  BY DEF QuietNet, InFlight
<1>5. heard'[t] = heard[t] => (Spoken(t)' => Spoken(t))
  BY DEF Spoken
<1> QED BY <1>2, <1>3, <1>4, <1>5

(* A turn for which nothing gets louder keeps the right where it is. *)
LEMMA StaysThere ==
    ASSUME NEW t \in Turns, NEW p, TurnTypes, TurnTypes', OnlyAt(p, t),
           QuietNet(t), QuietActs(t), QuietRetries(t), heard'[t] = heard[t],
           AtOrigin(t)' => AtOrigin(t), AtWorker(t)' => AtWorker(t),
           AtResult(t)' => AtResult(t)
    PROVE  OnlyAt(p, t)'
<1>1. Once(t)'
  <2>1. OneSent(net', t)
    BY DEF OnlyAt, Once, QuietNet
  <2>2. Len(heard'[t]) <= 1
    BY DEF OnlyAt, Once
  <2> QED BY <2>1, <2>2, QuietParts DEF OnlyAt, Once
<1> QED BY <1>1, QuietParts DEF OnlyAt

(* A best-effort reply is quiet if its frame is, and otherwise sends the   *)
(* only frame with the right if there was none.                            *)
LEMMA ReplyRight ==
    ASSUME NEW t \in Turns, NEW channels \in [Links -> Seq(Frames)], NEW from, NEW to,
           NEW f \in Frames, ReplyTo(channels, from, to, f)
    PROVE  /\ ~Carries(f, t) /\ NoneSent(channels, t) => NoneSent(net', t)
           /\ ~Carries(f, t) /\ OneSent(channels, t) => OneSent(net', t)
           /\ NoneSent(channels, t) => OneSent(net', t)
<1>1. NoneSent(channels, t) => OneSent(channels, t)
  BY DEF NoneSent, OneSent
<1>2. CASE net' = channels
  BY <1>1, <1>2
<1>3. CASE net' = Queued(channels, from, to, f)
  BY <1>3, QueuedRight
<1> QED BY <1>2, <1>3 DEF ReplyTo

(* Delegating the reply to one turn is quiet for every other; it sends the *)
(* only frame with the right if there was none.                            *)
LEMMA DelegateRight ==
    ASSUME NEW t \in Turns, NEW u \in Turns, NEW n, NEW peer, TurnTypes,
           Delegate(n, peer, u)
    PROVE  /\ heard'[t] = heard[t]
           /\ t # u => QuietNet(t)
           /\ NoneSent(net, t) => OneSent(net', t)
<1> DEFINE f == [kind |-> "delegate", id |-> u]
<1>1. f \in Frames /\ (t # u => ~Carries(f, t))
  BY BuiltFrames DEF Carries
<1>2. net' = Queued(net, n, peer, f) /\ heard' = heard
  BY DEF Delegate
<1> HIDE DEF f
<1>3. net \in [Links -> Seq(Frames)]
  BY DEF TurnTypes
<1> QED BY <1>1, <1>2, <1>3, QueuedRight DEF QuietNet

(* Speaking the reply to one turn is quiet for every other, and for a turn *)
(* that does not go astray it is spoken here.                              *)
LEMMA SpeakRight ==
    ASSUME NEW t \in Turns, NEW u \in Turns, NEW n, TurnTypes, SpeakNearest(n, u)
    PROVE  /\ t # u => heard'[t] = heard[t] /\ QuietNet(t)
           /\ t = u /\ t \notin astray' => Say(n, t)
<1>1. CASE Say(n, u)
  <2>1. t # u => heard'[t] = heard[t]
    BY <1>1 DEF Say, TurnTypes
  <2> QED BY <1>1, <2>1, Unchanging DEF Say
<1>2. ASSUME NEW peer \in Nodes \ {n}, Delegate(n, peer, u), astray' = astray \cup {u}
      PROVE  /\ t # u => heard'[t] = heard[t] /\ QuietNet(t)
             /\ t = u => t \in astray'
  BY <1>2, DelegateRight
<1> QED BY <1>1, <1>2 DEF SpeakNearest

(* The right is used up when the reply is spoken: afterwards it is nowhere *)
(* else.                                                                   *)
LEMMA SayMoves ==
    ASSUME NEW t \in Turns, NEW p, NEW n \in Nodes, TurnTypes, TurnTypes', OnlyAt(p, t),
           Say(n, t), QuietActs(t), QuietRetries(t), p \notin {"net", "retry", "spoken"},
           ~AtOrigin(t)', ~AtWorker(t)', ~AtResult(t)', ~AtSpeaker(t)'
    PROVE  \E q \in Places : OnlyAt(q, t)'
<1>1. QuietNet(t)
  BY Unchanging DEF Say
<1>2. ~InFlight(t)' /\ ~AtRetry(t)' /\ OneSpeaker(t)' /\ OneRetry(t)'
  BY <1>1, QuietParts DEF OnlyAt, Once
<1>3. OneSent(net', t)
  BY <1>1 DEF QuietNet, OnlyAt, Once
<1>4. Len(heard'[t]) <= 1
  <2>1. heard[t] = << >> /\ heard[t] \in Seq(Nodes)
    BY DEF OnlyAt, Spoken, TurnTypes
  <2>2. heard'[t] = heard[t] \/ heard'[t] = Append(heard[t], n)
    BY DEF Say, TurnTypes
  <2>3. Len(heard[t]) = 0 /\ Len(Append(heard[t], n)) = 1
    BY <2>1
  <2> QED BY <2>2, <2>3
<1>5. OnlyAt("spoken", t)'
  BY <1>2, <1>3, <1>4 DEF OnlyAt, Once
<1> QED BY <1>5 DEF Places

(* A cause once recorded stays recorded. *)
LEMMA StillExcused ==
    ASSUME [Next]_vars
    PROVE  timedOut \subseteq timedOut' /\ astray \subseteq astray'
<1>1. ASSUME NEW n, NEW u, SpeakNearest(n, u) PROVE astray \subseteq astray'
  BY <1>1 DEF SpeakNearest, Say
<1>2. ASSUME NEW u \in Turns, OriginStep(u)
      PROVE  timedOut \subseteq timedOut' /\ astray \subseteq astray'
  BY <1>1, <1>2 DEF OriginStep, TakeTurn, WaitEnds, TimeOut, AnswerHere
<1>3. ASSUME NEW u \in Turns, WorkerStep(u)
      PROVE  timedOut \subseteq timedOut' /\ astray \subseteq astray'
  <2>1. CASE AnswerForwardedTurn(u)
    BY <2>1, WorkerAnswers DEF AnswerForwardedTurn, Say
  <2> QED BY <1>3, <2>1 DEF WorkerStep, ReportTurn
<1>4. ASSUME NEW m \in Nodes, NEW n \in Nodes, Handle(m, n)
      PROVE  timedOut \subseteq timedOut' /\ astray \subseteq astray'
  BY <1>4 DEF Handle, HandleTurn, RecordTurnResult, HandleDelegated, RecordDelegatedResult
<1>5. ASSUME NEW m \in Nodes, NEW n \in Nodes, NEW u \in Turns, Retry(m, n, u)
      PROVE  UNCHANGED <<timedOut, astray>>
  BY <1>5 DEF Retry
<1>6. ASSUME NEW n \in Nodes, ActingStep(n) \/ LeaseMoves(n)
      PROVE  timedOut \subseteq timedOut' /\ astray \subseteq astray'
  BY <1>1, <1>6 DEF ActingStep, RunDelegated, ReportDelegated, LeaseMoves
<1>7. ASSUME NEW l \in Links, ConnectionBreaks(l) PROVE UNCHANGED <<timedOut, astray>>
  BY <1>7 DEF ConnectionBreaks
<1> QED
  BY <1>2, <1>3, <1>4, <1>5, <1>6, <1>7 DEF Next, vars

-----------------------------------------------------------------------------
(* The origin's thread keeps the right, sends it away, gets it back with a *)
(* refusal, or uses it.                                                    *)
LEMMA OriginMouth ==
    ASSUME NEW t \in Turns, NEW p \in Places, TurnTypes, TurnTypes', OnlyAt(p, t),
           t \notin Excused', NEW u \in Turns, OriginStep(u)
    PROVE  \E q \in Places : OnlyAt(q, t)'
<1>1. CASE TakeTurn(u)
  <2> DEFINE f == [kind |-> "turn", id |-> u]
             n == Origin[u]
  <2>1. /\ worker' = worker /\ results' = results /\ acting' = acting
        /\ retries' = retries /\ heard' = heard
    BY <1>1 DEF TakeTurn
  <2>2. /\ QuietActs(t) /\ QuietRetries(t) /\ heard'[t] = heard[t]
        /\ AtWorker(t)' => AtWorker(t)
        /\ AtResult(t)' => AtResult(t)
    BY <2>1, Unchanging
  <2>3. /\ turn[u] = "new"
        /\ \/ net' = net /\ turn'[u] \in {"own", "fallback"}
           \/ net' = Queued(net, n, view[n], f) /\ turn'[u] = "waiting"
        /\ t # u => turn'[t] = turn[t]
    BY <1>1 DEF TakeTurn, TurnTypes
  <2>4. f \in Frames /\ (t # u => ~Carries(f, t)) /\ net \in [Links -> Seq(Frames)]
    BY BuiltFrames DEF Carries, TurnTypes
  <2> HIDE DEF f, n
  <2>5. CASE t # u
    <3>1. QuietNet(t)
      BY <2>3, <2>4, <2>5, QueuedRight, Unchanging DEF QuietNet
    <3>2. OnlyAt(p, t)'
      BY <2>2, <2>3, <2>5, <3>1, Unchanging, StaysThere
    <3> QED BY <3>2
  <2>6. CASE t = u
    <3>1. AtOrigin(t) /\ p = "origin" /\ NoneSent(net, t) /\ Once(t)
      BY <2>3, <2>6 DEF AtOrigin, OnlyAt, InFlight
    <3>2. CASE net' = net
      <4>1. OnlyAt(p, t)'
        BY <2>2, <3>1, <3>2, Unchanging, StaysThere
      <4> QED BY <4>1
    <3>3. CASE net' = Queued(net, n, view[n], f) /\ turn'[u] = "waiting"
      <4>1. OneSent(net', t)
        BY <2>4, <3>1, <3>3, QueuedRight
      <4>2. ~AtOrigin(t)'
        BY <2>6, <3>3 DEF AtOrigin
      <4>3. OnlyAt("net", t)'
        BY <2>2, <3>1, <4>1, <4>2, QuietParts DEF OnlyAt, Once
      <4> QED BY <4>3 DEF Places
    <3> QED BY <2>3, <3>2, <3>3
  <2> QED BY <2>5, <2>6
<1>2. CASE WaitEnds(u)
  <2>1. /\ worker' = worker /\ acting' = acting /\ retries' = retries /\ heard' = heard
        /\ net' = net
    BY <1>2 DEF WaitEnds
  <2>2. /\ QuietNet(t) /\ QuietActs(t) /\ QuietRetries(t) /\ heard'[t] = heard[t]
        /\ AtWorker(t)' => AtWorker(t)
    BY <2>1, Unchanging
  <2>3. CASE t # u
    <3>1. turn'[t] = turn[t] /\ results'[t] = results[t]
      BY <1>2, <2>3 DEF WaitEnds, Collected, TurnTypes
    <3>2. OnlyAt(p, t)'
      BY <2>2, <3>1, Unchanging, StaysThere
    <3> QED BY <3>2
  <2>4. CASE t = u
    <3>1. ~AtResult(t)'
      BY <1>2, <2>4 DEF WaitEnds, Collected, TurnTypes, AtResult
    <3>2. CASE results[t] = "answered"
      <4>1. ~AtOrigin(t)'
        BY <1>2, <2>4, <3>2 DEF WaitEnds, TurnTypes, AtOrigin
      <4>2. OnlyAt(p, t)'
        BY <2>2, <3>1, <4>1, StaysThere
      <4> QED BY <4>2
    <3>3. CASE results[t] # "answered"
      <4>1. AtResult(t) /\ p = "result"
        BY <1>2, <2>4, <3>3 DEF WaitEnds, AtResult, OnlyAt
      <4>2. OneSent(net', t)
        BY <2>1 DEF OnlyAt, Once
      <4>3. OnlyAt("origin", t)'
        BY <2>1, <2>2, <3>1, <4>1, <4>2, QuietParts DEF OnlyAt, Once
      <4> QED BY <4>3 DEF Places
    <3> QED BY <3>2, <3>3
  <2> QED BY <2>3, <2>4
<1>3. CASE TimeOut(u)
  <2>1. t # u
    BY <1>3 DEF TimeOut, Excused
  <2>2. /\ worker' = worker /\ acting' = acting /\ retries' = retries /\ heard' = heard
        /\ net' = net /\ turn'[t] = turn[t] /\ results'[t] = results[t]
    BY <1>3, <2>1 DEF TimeOut, Collected, TurnTypes
  <2>3. OnlyAt(p, t)'
    BY <2>2, Unchanging, StaysThere
  <2> QED BY <2>3
<1>4. CASE AnswerHere(u)
  <2>1. worker' = worker /\ results' = results /\ acting' = acting /\ retries' = retries
    BY <1>4 DEF AnswerHere
  <2>2. /\ QuietActs(t) /\ QuietRetries(t)
        /\ AtWorker(t)' => AtWorker(t)
        /\ AtResult(t)' => AtResult(t)
    BY <2>1, Unchanging
  <2>3. SpeakNearest(Origin[u], u) \/ UNCHANGED <<net, heard>>
    BY <1>4 DEF AnswerHere
  <2>4. CASE t # u
    <3>1. turn'[t] = turn[t]
      BY <1>4, <2>4 DEF AnswerHere, TurnTypes
    <3>2. QuietNet(t) /\ heard'[t] = heard[t]
      BY <2>3, <2>4, SpeakRight, Unchanging
    <3>3. OnlyAt(p, t)'
      BY <2>2, <3>1, <3>2, Unchanging, StaysThere
    <3> QED BY <3>3
  <2>5. CASE t = u
    <3>1. ~AtOrigin(t)'
      BY <1>4, <2>5 DEF AnswerHere, AtOrigin, TurnTypes
    <3>2. p = "origin"
      BY <1>4, <2>5 DEF AnswerHere, AtOrigin, OnlyAt
    <3>3. CASE SpeakNearest(Origin[u], u)
      <4>1. Say(Origin[t], t) /\ Origin[t] \in Nodes
        BY <2>5, <3>3, SpeakRight, TurnsAssumption DEF Excused
      <4>2. ~AtWorker(t)' /\ ~AtResult(t)' /\ ~AtSpeaker(t)'
        BY <2>2, <3>2, QuietParts DEF OnlyAt
      <4> QED BY <2>2, <3>1, <3>2, <4>1, <4>2, SayMoves
    <3>4. CASE UNCHANGED <<net, heard>>
      <4>1. OnlyAt(p, t)'
        BY <2>2, <3>1, <3>4, Unchanging, StaysThere
      <4> QED BY <4>1
    <3> QED BY <2>3, <3>3, <3>4
  <2> QED BY <2>4, <2>5
<1> QED BY <1>1, <1>2, <1>3, <1>4 DEF OriginStep

(* The primary's worker sends the reply, says it, or reports that it       *)
(* failed, which carries the right back.                                   *)
LEMMA WorkerMouth ==
    ASSUME NEW t \in Turns, NEW p \in Places, TurnTypes, TurnTypes', OnlyAt(p, t),
           t \notin Excused', NEW u \in Turns, WorkerStep(u)
    PROVE  \E q \in Places : OnlyAt(q, t)'
<1>1. CASE AnswerForwardedTurn(u)
  <2>1. turn' = turn /\ results' = results /\ acting' = acting /\ retries' = retries
    BY <1>1 DEF AnswerForwardedTurn
  <2>2. /\ QuietActs(t) /\ QuietRetries(t)
        /\ AtOrigin(t)' => AtOrigin(t)
        /\ AtResult(t)' => AtResult(t)
    BY <2>1, Unchanging
  <2>3. /\ worker[u] \in [at : Nodes, status : Statuses \cup {"deciding"}]
        /\ worker[u] # None /\ worker[u].status = "deciding"
    BY <1>1 DEF AnswerForwardedTurn, TurnTypes
  <2>4. \/ Finish(u, "answered") /\ Delegate(worker[u].at, Origin[u], u)
        \/ Finish(u, "answered") /\ Say(worker[u].at, u)
        \/ (Finish(u, "answered") \/ Finish(u, "error")) /\ UNCHANGED <<net, heard>>
        \/ /\ Finish(u, "answered") \/ Finish(u, "error")
           /\ \E peer \in Nodes : Delegate(worker[u].at, peer, u)
           /\ u \in Excused'
    BY <1>1, WorkerAnswers DEF Excused
  <2>5. CASE t # u
    <3>1. worker'[t] = worker[t]
      BY <2>4, <2>5 DEF Finish, TurnTypes
    <3>2. QuietNet(t) /\ heard'[t] = heard[t]
      <4>1. ASSUME NEW peer, Delegate(worker[u].at, peer, u)
            PROVE  QuietNet(t) /\ heard'[t] = heard[t]
        BY <2>5, <4>1, DelegateRight
      <4>2. CASE Say(worker[u].at, u)
        BY <2>5, <4>2, SpeakRight DEF SpeakNearest
      <4> QED BY <2>4, <4>1, <4>2, Unchanging
    <3>3. OnlyAt(p, t)'
      BY <2>2, <3>1, <3>2, Unchanging, StaysThere
    <3> QED BY <3>3
  <2>6. CASE t = u
    <3>1. AtWorker(t) /\ p = "worker"
      BY <2>3, <2>6 DEF AtWorker, OnlyAt
    <3>2. Finish(t, "answered") => ~AtWorker(t)'
      BY <2>3, <2>6 DEF Finish, AtWorker, TurnTypes
    <3>3. CASE Finish(u, "answered") /\ Delegate(worker[u].at, Origin[u], u)
      <4>1. OneSent(net', t) /\ heard'[t] = heard[t]
        BY <2>6, <3>1, <3>3, DelegateRight DEF OnlyAt, InFlight
      <4>2. OnlyAt("net", t)'
        BY <2>2, <2>6, <3>1, <3>2, <3>3, <4>1, QuietParts DEF OnlyAt, Once
      <4> QED BY <4>2 DEF Places
    <3>4. CASE Finish(u, "answered") /\ Say(worker[u].at, u)
      <4>1. worker[t].at \in Nodes
        BY <2>3, <2>6
      <4>2. ~AtOrigin(t)' /\ ~AtResult(t)' /\ ~AtSpeaker(t)' /\ ~AtWorker(t)'
        BY <2>2, <2>6, <3>1, <3>2, <3>4, QuietParts DEF OnlyAt
      <4> QED BY <2>2, <2>6, <3>1, <3>4, <4>1, <4>2, SayMoves
    <3>5. CASE UNCHANGED <<net, heard>>
      <4>1. OnlyAt(p, t)'
        BY <2>2, <3>1, <3>5, Unchanging, StaysThere
      <4> QED BY <4>1
    <3> QED BY <2>4, <2>6, <3>3, <3>4, <3>5
  <2> QED BY <2>5, <2>6
<1>2. CASE ReportTurn(u)
  <2> DEFINE f == [kind |-> "turn_result", id |-> u, status |-> worker[u].status]
  <2>1. /\ turn' = turn /\ results' = results /\ acting' = acting /\ retries' = retries
        /\ heard' = heard
    BY <1>2 DEF ReportTurn
  <2>2. /\ QuietActs(t) /\ QuietRetries(t) /\ heard'[t] = heard[t]
        /\ AtOrigin(t)' => AtOrigin(t)
        /\ AtResult(t)' => AtResult(t)
    BY <2>1, Unchanging
  <2>3. worker[u].status \in Statuses /\ worker[u] # None
    BY <1>2 DEF ReportTurn, TurnTypes
  <2>4. f \in Frames /\ net \in [Links -> Seq(Frames)]
    BY <2>3, BuiltFrames DEF TurnTypes
  <2>5. ReplyTo(net, worker[u].at, Origin[u], f)
    BY <1>2 DEF ReportTurn
  <2>6. t # u \/ worker[u].status = "answered" => ~Carries(f, t)
    BY DEF Carries
  <2> HIDE DEF f
  <2>7. /\ t # u => worker'[t] = worker[t]
        /\ t = u => ~AtWorker(t)'
    BY <1>2 DEF ReportTurn, AtWorker, TurnTypes
  <2>8. CASE t # u \/ worker[u].status = "answered"
    <3>1. QuietNet(t)
      BY <2>4, <2>5, <2>6, <2>8, ReplyRight DEF QuietNet
    <3>2. OnlyAt(p, t)'
      BY <2>2, <2>7, <3>1, Unchanging, StaysThere
    <3> QED BY <3>2
  <2>9. CASE t = u /\ worker[u].status # "answered"
    <3>1. p = "worker"
      BY <2>3, <2>9 DEF AtWorker, OnlyAt
    <3>2. OneSent(net', t)
      BY <2>4, <2>5, <3>1, ReplyRight DEF OnlyAt, InFlight
    <3>3. OnlyAt("net", t)'
      BY <2>2, <2>7, <2>9, <3>1, <3>2, QuietParts DEF OnlyAt, Once
    <3> QED BY <3>3 DEF Places
  <2> QED BY <2>8, <2>9
<1> QED BY <1>1, <1>2 DEF WorkerStep

(* A handler takes the right off the network and holds it, or sends it     *)
(* back with a refusal.                                                    *)
LEMMA HandleMouth ==
    ASSUME NEW t \in Turns, NEW p \in Places, TurnTypes, TurnTypes', OnlyAt(p, t),
           t \notin Excused', NEW m \in Nodes, NEW n \in Nodes, m # n, Handle(m, n)
    PROVE  \E q \in Places : OnlyAt(q, t)'
<1> DEFINE f == Head(net[<<m, n>>])
           u == f.id
           rest == Rest(m, n)
<1>1. PICK kind \in {"turn", "turn_result", "delegate", "delegate_result"} : Receives(m, n, kind)
  BY DEF Handle, HandleTurn, RecordTurnResult, HandleDelegated, RecordDelegatedResult
<1>2. /\ <<m, n>> \in Links /\ net[<<m, n>>] # << >>
      /\ f \in Frames /\ u \in Turns
  BY <1>1, FrameTypes
<1>3. rest \in [Links -> Seq(Frames)]
  BY <1>2, NetTypes DEF TurnTypes, Rest
<1>4. /\ NoneSent(net, t) => NoneSent(rest, t)
      /\ OneSent(net, t) => OneSent(rest, t)
      /\ Carries(f, t) => p = "net" /\ NoneSent(rest, t)
  BY <1>2, RestRight DEF OnlyAt, Once, InFlight
<1>5. t # u => ~Carries(f, t)
  BY DEF Carries
<1>6. CASE HandleTurn(m, n)
  <2> DEFINE g == [kind |-> "turn_result", id |-> u, status |-> "refused"]
  <2>1. /\ turn' = turn /\ results' = results /\ acting' = acting /\ retries' = retries
        /\ heard' = heard
    BY <1>6 DEF HandleTurn
  <2>2. /\ QuietActs(t) /\ QuietRetries(t) /\ heard'[t] = heard[t]
        /\ AtOrigin(t)' => AtOrigin(t)
        /\ AtResult(t)' => AtResult(t)
    BY <2>1, Unchanging
  <2>3. g \in Frames /\ (t # u => ~Carries(g, t))
    BY <1>2, BuiltFrames DEF Statuses, Carries
  <2>4. t = u => Carries(f, t)
    BY <1>6 DEF HandleTurn, Receives, Carries
  <2>5. \/ net' = rest /\ worker' = [worker EXCEPT ![u] = [at |-> n, status |-> "deciding"]]
        \/ ReplyTo(rest, n, m, g) /\ worker' = worker
    BY <1>6 DEF HandleTurn
  <2> HIDE DEF f, u, rest, g
  <2>6. t # u => worker'[t] = worker[t]
    BY <2>5 DEF TurnTypes
  <2>7. CASE t # u
    <3>1. QuietNet(t)
      <4>1. CASE net' = rest
        BY <1>4, <4>1 DEF QuietNet
      <4>2. CASE ReplyTo(rest, n, m, g)
        BY <1>3, <1>4, <2>3, <2>7, <4>2, ReplyRight DEF QuietNet
      <4> QED BY <2>5, <4>1, <4>2
    <3>2. OnlyAt(p, t)'
      BY <2>2, <2>6, <2>7, <3>1, Unchanging, StaysThere
    <3> QED BY <3>2
  <2>8. CASE t = u
    <3>1. p = "net" /\ NoneSent(rest, t) /\ OneSent(rest, t)
      BY <1>4, <2>4, <2>8 DEF OnlyAt, Once
    <3>2. CASE net' = rest
      <4>1. ~InFlight(t)'
        BY <3>1, <3>2 DEF InFlight
      <4>2. OneSent(net', t)
        BY <3>1, <3>2
      <4>3. OnlyAt("worker", t)'
        BY <2>2, <3>1, <4>1, <4>2, QuietParts DEF OnlyAt, Once
      <4> QED BY <4>3 DEF Places
    <3>3. CASE ReplyTo(rest, n, m, g) /\ worker' = worker
      <4>1. OneSent(net', t)
        BY <1>3, <2>3, <3>1, <3>3, ReplyRight
      <4>2. AtWorker(t)' => AtWorker(t)
        BY <3>3, Unchanging
      <4>3. OnlyAt("net", t)'
        BY <2>2, <3>1, <4>1, <4>2, QuietParts DEF OnlyAt, Once
      <4> QED BY <4>3 DEF Places
    <3> QED BY <2>5, <3>2, <3>3
  <2> QED BY <2>7, <2>8
<1>7. CASE RecordTurnResult(m, n)
  <2>1. /\ turn' = turn /\ worker' = worker /\ acting' = acting /\ retries' = retries
        /\ heard' = heard /\ net' = rest
    BY <1>7 DEF RecordTurnResult
  <2>2. /\ QuietActs(t) /\ QuietRetries(t) /\ heard'[t] = heard[t]
        /\ AtOrigin(t)' => AtOrigin(t)
        /\ AtWorker(t)' => AtWorker(t)
    BY <2>1, Unchanging
  <2>3. QuietNet(t)
    BY <1>4, <2>1 DEF QuietNet
  <2>4. results' = results \/ results' = [results EXCEPT ![u] = f.status]
    BY <1>7 DEF RecordTurnResult
  <2>5. t = u /\ f.status # "answered" => Carries(f, t)
    BY <1>7 DEF RecordTurnResult, Receives, Carries
  <2> HIDE DEF f, u, rest
  <2>6. CASE t # u \/ results' = results \/ f.status = "answered"
    <3>1. AtResult(t)' => AtResult(t)
      BY <2>4, <2>6 DEF AtResult, TurnTypes
    <3>2. OnlyAt(p, t)'
      BY <2>2, <2>3, <3>1, StaysThere
    <3> QED BY <3>2
  <2>7. CASE t = u /\ f.status # "answered"
    <3>1. p = "net" /\ ~InFlight(t)' /\ OneSent(net', t)
      <4>1. p = "net" /\ NoneSent(rest, t) /\ OneSent(rest, t)
        BY <1>4, <2>5, <2>7 DEF OnlyAt, Once
      <4> QED BY <2>1, <4>1 DEF InFlight
    <3>2. OnlyAt("result", t)'
      BY <2>2, <3>1, QuietParts DEF OnlyAt, Once
    <3> QED BY <3>2 DEF Places
  <2> QED BY <2>6, <2>7
<1>8. CASE HandleDelegated(m, n)
  <2> DEFINE g == DelegateResult(u, TRUE)
  <2>1. /\ turn' = turn /\ results' = results /\ worker' = worker /\ retries' = retries
        /\ heard' = heard
    BY <1>8 DEF HandleDelegated
  <2>2. /\ QuietRetries(t) /\ heard'[t] = heard[t]
        /\ AtOrigin(t)' => AtOrigin(t)
        /\ AtResult(t)' => AtResult(t)
        /\ AtWorker(t)' => AtWorker(t)
    BY <2>1, Unchanging
  <2>3. g \in Frames /\ (t # u => ~Carries(g, t))
    BY <1>2, BuiltFrames DEF DelegateResult, Carries
  <2>4. t = u => Carries(f, t)
    BY <1>8 DEF HandleDelegated, Receives, Carries
  <2>5. \/ net' = rest /\ acting' = [acting EXCEPT ![n] = [id |-> u, from |-> m, done |-> FALSE]]
        \/ ReplyTo(rest, n, m, g) /\ acting' = acting
    BY <1>8 DEF HandleDelegated
  <2> HIDE DEF f, u, rest, g
  <2>6. \A k \in Nodes : Acts(k, t)' => Acts(k, t) \/ (k = n /\ t = u /\ acting' # acting)
    BY <2>5 DEF TurnTypes, Acts
  <2>7. CASE t # u
    <3>1. QuietNet(t)
      <4>1. CASE net' = rest
        BY <1>4, <4>1 DEF QuietNet
      <4>2. CASE ReplyTo(rest, n, m, g)
        BY <1>3, <1>4, <2>3, <2>7, <4>2, ReplyRight DEF QuietNet
      <4> QED BY <2>5, <4>1, <4>2
    <3>2. QuietActs(t)
      BY <2>6, <2>7 DEF QuietActs
    <3>3. OnlyAt(p, t)'
      BY <2>2, <3>1, <3>2, StaysThere
    <3> QED BY <3>3
  <2>8. CASE t = u
    <3>1. p = "net" /\ NoneSent(rest, t) /\ OneSent(rest, t)
      BY <1>4, <2>4, <2>8 DEF OnlyAt, Once
    <3>2. CASE net' = rest
      <4>1. ~InFlight(t)'
        BY <3>1, <3>2 DEF InFlight
      <4>2. OneSent(net', t)
        BY <3>1, <3>2
      <4>3. OneSpeaker(t)'
        <5>1. \A k \in Nodes : ~Acts(k, t)
          BY <3>1 DEF OnlyAt, AtSpeaker
        <5> QED BY <2>6, <5>1 DEF OneSpeaker
      <4>4. OnlyAt("speaker", t)'
        BY <2>2, <3>1, <4>1, <4>2, <4>3, QuietParts DEF OnlyAt, Once
      <4> QED BY <4>4 DEF Places
    <3>3. CASE ReplyTo(rest, n, m, g) /\ acting' = acting
      <4>1. OneSent(net', t)
        BY <1>3, <2>3, <3>1, <3>3, ReplyRight
      <4>2. QuietActs(t)
        BY <3>3, Unchanging
      <4>3. OnlyAt("net", t)'
        BY <2>2, <3>1, <4>1, <4>2, QuietParts DEF OnlyAt, Once
      <4> QED BY <4>3 DEF Places
    <3> QED BY <2>5, <3>2, <3>3
  <2> QED BY <2>7, <2>8
<1>9. CASE RecordDelegatedResult(m, n)
  <2> DEFINE entry == pending[<<n, m>>]
             retry == f.stale /\ entry # None /\ entry.attempt < 2
  <2>1. /\ turn' = turn /\ results' = results /\ worker' = worker /\ acting' = acting
        /\ heard' = heard /\ net' = rest
    BY <1>9 DEF RecordDelegatedResult
  <2>2. /\ QuietActs(t) /\ heard'[t] = heard[t]
        /\ AtOrigin(t)' => AtOrigin(t)
        /\ AtResult(t)' => AtResult(t)
        /\ AtWorker(t)' => AtWorker(t)
    BY <2>1, Unchanging
  <2>3. QuietNet(t)
    BY <1>4, <2>1 DEF QuietNet
  <2>4. /\ retries' = IF retry THEN [retries EXCEPT ![<<<<n, m>>, entry.id>>] = @ + 1]
                     ELSE retries
        /\ retry /\ entry.id # u => t \notin {entry.id, u}
    BY <1>9 DEF RecordDelegatedResult, Excused
  <2>5. t = u /\ f.stale => Carries(f, t)
    BY <1>9 DEF RecordDelegatedResult, Receives, Carries
  <2>6. CASE retry /\ t = u
    <3>1. p = "net" /\ ~InFlight(t)' /\ OneSent(net', t)
      <4>1. p = "net" /\ NoneSent(rest, t) /\ OneSent(rest, t)
        BY <1>4, <2>5, <2>6 DEF OnlyAt, Once
      <4> QED BY <2>1, <4>1 DEF InFlight
    <3>2. entry.id = t
      BY <2>4, <2>6
    <3> HIDE DEF entry, f, u, rest, retry
    <3>3. retries' = [retries EXCEPT ![<<<<n, m>>, t>>] = @ + 1]
      BY <2>4, <2>6, <3>2
    <3>4. \A l \in Links : retries[<<l, t>>] = 0
      <4>1. \A l \in Links : ~Sleeps(l, t)
        BY <3>1 DEF OnlyAt, AtRetry
      <4>2. \A l \in Links : retries[<<l, t>>] \in Nat
        BY DEF TurnTypes
      <4> QED BY <4>1, <4>2 DEF Sleeps
    <3>5. \A l \in Links : retries'[<<l, t>>] = IF l = <<n, m>> THEN 1 ELSE 0
      <4>1. /\ <<<<n, m>>, t>> \in Links \X Turns
            /\ retries[<<<<n, m>>, t>>] = 0
            /\ DOMAIN retries = Links \X Turns
        BY <3>4 DEF Links, TurnTypes
      <4>2. retries'[<<<<n, m>>, t>>] = 1
        BY <3>3, <4>1
      <4>3. ASSUME NEW l \in Links, l # <<n, m>> PROVE retries'[<<l, t>>] = 0
        <5>1. <<l, t>> # <<<<n, m>>, t>> /\ <<l, t>> \in Links \X Turns
          BY <4>3
        <5> QED BY <3>3, <3>4, <4>1, <5>1
      <4> QED BY <4>2, <4>3
    <3>6. OneRetry(t)'
      BY <3>5 DEF OneRetry, Sleeps
    <3>7. OnlyAt("retry", t)'
      BY <2>2, <3>1, <3>6, QuietParts DEF OnlyAt, Once
    <3> QED BY <3>7 DEF Places
  <2>7. CASE ~(retry /\ t = u)
    <3>1. retry => entry.id # t
      BY <2>4, <2>7
    <3> HIDE DEF entry, f, u, rest, retry
    <3>2. \A l \in Links : retries'[<<l, t>>] = retries[<<l, t>>] /\ retries[<<l, t>>] \in Nat
      BY <2>4, <3>1 DEF TurnTypes
    <3>3. QuietRetries(t)
      BY <3>2 DEF QuietRetries
    <3>4. OnlyAt(p, t)'
      BY <2>2, <2>3, <3>3, StaysThere
    <3> QED BY <3>4
  <2> QED BY <2>6, <2>7
<1> QED BY <1>6, <1>7, <1>8, <1>9 DEF Handle

(* A delegated action uses the right it was given, or drops it. *)
LEMMA ActingMouth ==
    ASSUME NEW t \in Turns, NEW p \in Places, TurnTypes, TurnTypes', OnlyAt(p, t),
           t \notin Excused', NEW n \in Nodes, ActingStep(n)
    PROVE  \E q \in Places : OnlyAt(q, t)'
<1>1. CASE RunDelegated(n)
  <2> DEFINE u == acting[n].id
  <2>1. turn' = turn /\ results' = results /\ worker' = worker /\ retries' = retries
    BY <1>1 DEF RunDelegated
  <2>2. /\ QuietRetries(t)
        /\ AtOrigin(t)' => AtOrigin(t)
        /\ AtResult(t)' => AtResult(t)
        /\ AtWorker(t)' => AtWorker(t)
    BY <2>1, Unchanging
  <2>3. acting[n] \in [id : Turns, from : Nodes, done : BOOLEAN] /\ acting[n] # None
    BY <1>1 DEF RunDelegated, TurnTypes
  <2>4. QuietActs(t) /\ ~Acts(n, t)'
    <3>1. acting'[n] = [acting[n] EXCEPT !.done = TRUE]
      BY <1>1 DEF RunDelegated, TurnTypes
    <3>2. acting'[n].done
      BY <2>3, <3>1
    <3>3. \A k \in Nodes \ {n} : acting'[k] = acting[k]
      BY <1>1 DEF RunDelegated, TurnTypes
    <3> QED BY <3>2, <3>3 DEF QuietActs, Acts
  <2>5. SpeakNearest(n, u) \/ UNCHANGED <<net, heard>>
    BY <1>1 DEF RunDelegated
  <2>6. u \in Turns
    BY <2>3
  <2>7. t = u => Acts(n, t)
    BY <1>1 DEF RunDelegated, Acts
  <2> HIDE DEF u
  <2>8. CASE UNCHANGED <<net, heard>>
    <3>1. OnlyAt(p, t)'
      BY <2>2, <2>4, <2>8, Unchanging, StaysThere
    <3> QED BY <3>1
  <2>9. CASE SpeakNearest(n, u) /\ t # u
    <3>1. QuietNet(t) /\ heard'[t] = heard[t]
      BY <2>6, <2>9, SpeakRight
    <3>2. OnlyAt(p, t)'
      BY <2>2, <2>4, <3>1, StaysThere
    <3> QED BY <3>2
  <2>10. CASE SpeakNearest(n, u) /\ t = u
    <3>1. Say(n, t)
      BY <2>10, SpeakRight DEF Excused
    <3>2. p = "speaker"
      BY <2>7, <2>10 DEF AtSpeaker, OnlyAt
    <3>3. ~AtSpeaker(t)'
      BY <2>4, <2>7, <2>10 DEF AtSpeaker, QuietActs, OnlyAt, Once, OneSpeaker
    <3>4. ~AtOrigin(t)' /\ ~AtWorker(t)' /\ ~AtResult(t)'
      BY <2>2, <3>2 DEF OnlyAt
    <3> QED BY <2>2, <2>4, <3>1, <3>2, <3>3, <3>4, SayMoves
  <2> QED BY <2>5, <2>8, <2>9, <2>10
<1>2. CASE ReportDelegated(n)
  <2> DEFINE g == DelegateResult(acting[n].id, FALSE)
  <2>1. /\ turn' = turn /\ results' = results /\ worker' = worker /\ retries' = retries
        /\ heard' = heard
    BY <1>2 DEF ReportDelegated
  <2>2. /\ QuietRetries(t) /\ heard'[t] = heard[t]
        /\ AtOrigin(t)' => AtOrigin(t)
        /\ AtResult(t)' => AtResult(t)
        /\ AtWorker(t)' => AtWorker(t)
    BY <2>1, Unchanging
  <2>3. QuietActs(t)
    BY <1>2 DEF ReportDelegated, TurnTypes, QuietActs, Acts
  <2>4. acting[n] \in [id : Turns, from : Nodes, done : BOOLEAN]
    BY <1>2 DEF ReportDelegated, TurnTypes
  <2>5. g \in Frames /\ net \in [Links -> Seq(Frames)]
    BY <2>4, BuiltFrames DEF TurnTypes
  <2>6. ~Carries(g, t)
    BY DEF DelegateResult, Carries
  <2>7. ReplyTo(net, n, acting[n].from, g)
    BY <1>2 DEF ReportDelegated
  <2> HIDE DEF g
  <2>8. QuietNet(t)
    BY <2>5, <2>6, <2>7, ReplyRight DEF QuietNet
  <2>9. OnlyAt(p, t)'
    BY <2>2, <2>3, <2>8, StaysThere
  <2> QED BY <2>9
<1> QED BY <1>1, <1>2 DEF ActingStep

(* A retry thread sends the right it slept on, or drops it. *)
LEMMA RetryMouth ==
    ASSUME NEW t \in Turns, NEW p \in Places, TurnTypes, TurnTypes', OnlyAt(p, t),
           NEW m \in Nodes, NEW n \in Nodes, m # n, NEW u \in Turns, Retry(m, n, u)
    PROVE  \E q \in Places : OnlyAt(q, t)'
<1>1. turn' = turn /\ results' = results /\ worker' = worker /\ acting' = acting
  BY DEF Retry
<1>2. /\ QuietActs(t)
      /\ AtOrigin(t)' => AtOrigin(t)
      /\ AtResult(t)' => AtResult(t)
      /\ AtWorker(t)' => AtWorker(t)
  BY <1>1, Unchanging
<1>3. /\ <<m, n>> \in Links
      /\ \A l \in Links : retries[<<l, t>>] \in Nat /\ retries[<<l, u>>] \in Nat
      /\ retries[<<<<m, n>>, u>>] > 0
      /\ retries' = [retries EXCEPT ![<<<<m, n>>, u>>] = @ - 1]
  BY DEF Retry, TurnTypes, Links
<1>4. /\ \A l \in Links : t # u \/ l # <<m, n>> => retries'[<<l, t>>] = retries[<<l, t>>]
      /\ retries'[<<<<m, n>>, u>>] = retries[<<<<m, n>>, u>>] - 1
  BY <1>3 DEF TurnTypes
<1>5. QuietRetries(t)
  <2>1. CASE t # u
    <3>1. \A l \in Links : retries'[<<l, t>>] = retries[<<l, t>>] /\ retries[<<l, t>>] \in Nat
      BY <1>3, <1>4, <2>1
    <3> QED BY <3>1 DEF QuietRetries
  <2>2. CASE t = u
    BY <1>3, <1>4, <2>2 DEF QuietRetries
  <2> QED BY <2>1, <2>2
<1>6. Delegate(m, n, u) \/ UNCHANGED <<net, heard>>
  BY DEF Retry
<1>7. CASE UNCHANGED <<net, heard>>
  <2>1. OnlyAt(p, t)'
    BY <1>2, <1>5, <1>7, Unchanging, StaysThere
  <2> QED BY <2>1
<1>8. CASE Delegate(m, n, u) /\ t # u
  <2>1. OnlyAt(p, t)'
    BY <1>2, <1>5, <1>8, DelegateRight, StaysThere
  <2> QED BY <2>1
<1>9. CASE Delegate(m, n, u) /\ t = u
  <2>1. Sleeps(<<m, n>>, t) /\ p = "retry"
    BY <1>3, <1>9 DEF Sleeps, AtRetry, OnlyAt
  <2>2. ~AtRetry(t)'
    <3>1. retries'[<<<<m, n>>, t>>] = 0
      BY <1>3, <1>4, <1>9 DEF OnlyAt, Once, OneRetry
    <3>2. \A l \in Links \ {<<m, n>>} : ~Sleeps(l, t)
      BY <1>3, <2>1 DEF OnlyAt, Once, OneRetry
    <3>3. \A l \in Links \ {<<m, n>>} : ~Sleeps(l, t)'
      BY <1>4, <3>2 DEF Sleeps
    <3>4. ~Sleeps(<<m, n>>, t)'
      BY <3>1 DEF Sleeps
    <3> QED BY <3>3, <3>4 DEF AtRetry
  <2>3. OneSent(net', t) /\ heard'[t] = heard[t]
    BY <1>9, <2>1, DelegateRight DEF OnlyAt, InFlight
  <2>4. OnlyAt("net", t)'
    BY <1>2, <1>5, <2>1, <2>2, <2>3, QuietParts DEF OnlyAt, Once
  <2> QED BY <2>4 DEF Places
<1> QED BY <1>6, <1>7, <1>8, <1>9

-----------------------------------------------------------------------------
(* In no step do two parts of the hive come to hold the right to speak one *)
(* reply, unless the turn is one of the excused.                           *)
LEMMA StepMouth ==
    ASSUME TurnTypes, MouthInv, [Next]_vars
    PROVE  MouthInv'
<1>1. TurnTypes'
  BY StepTurnTypes
<1> SUFFICES ASSUME NEW t \in Turns, t \notin Excused'
             PROVE  \E q \in Places : OnlyAt(q, t)'
  BY DEF MouthInv
<1>2. PICK p \in Places : OnlyAt(p, t)
  BY StillExcused DEF MouthInv, Excused
<1>3. ASSUME NEW u \in Turns, OriginStep(u) PROVE \E q \in Places : OnlyAt(q, t)'
  BY <1>1, <1>2, <1>3, OriginMouth
<1>4. ASSUME NEW u \in Turns, WorkerStep(u) PROVE \E q \in Places : OnlyAt(q, t)'
  BY <1>1, <1>2, <1>4, WorkerMouth
<1>5. ASSUME NEW m \in Nodes, NEW n \in Nodes, m # n, Handle(m, n)
      PROVE  \E q \in Places : OnlyAt(q, t)'
  BY <1>1, <1>2, <1>5, HandleMouth
<1>6. ASSUME NEW m \in Nodes, NEW n \in Nodes, m # n, NEW u \in Turns, Retry(m, n, u)
      PROVE  \E q \in Places : OnlyAt(q, t)'
  BY <1>1, <1>2, <1>6, RetryMouth
<1>7. ASSUME NEW n \in Nodes, ActingStep(n) PROVE \E q \in Places : OnlyAt(q, t)'
  BY <1>1, <1>2, <1>7, ActingMouth
<1>8. CASE UNCHANGED <<turn, worker, results, acting, retries, heard, net>>
  <2>1. OnlyAt(p, t)'
    BY <1>1, <1>2, <1>8, Unchanging, StaysThere
  <2> QED BY <2>1
<1>9. ASSUME NEW l \in Links, ConnectionBreaks(l) PROVE \E q \in Places : OnlyAt(q, t)'
  <2>1. UNCHANGED <<turn, worker, results, acting, retries, heard>>
    BY <1>9 DEF ConnectionBreaks
  <2>2. \A k \in Links : net'[k] = IF k = l THEN << >> ELSE net[k]
    BY <1>9 DEF ConnectionBreaks, TurnTypes
  <2>3. \A k \in Links : \A i \in 1 .. Len(net'[k]) : net'[k] = net[k]
    BY <2>2
  <2>4. QuietNet(t)
    BY <2>3 DEF QuietNet, NoneSent, OneSent
  <2>5. OnlyAt(p, t)'
    BY <1>1, <1>2, <2>1, <2>4, Unchanging, StaysThere
  <2> QED BY <2>5
<1>10. ASSUME NEW n \in Nodes, LeaseMoves(n)
       PROVE  UNCHANGED <<turn, worker, results, acting, retries, heard, net>>
  BY <1>10 DEF LeaseMoves
<1> QED
  BY <1>3, <1>4, <1>5, <1>6, <1>7, <1>8, <1>9, <1>10 DEF Next, vars

(* The right to speak the reply to a turn is in one place of the hive, and *)
(* there once: with the origin's thread, with the primary's worker, in an  *)
(* uncollected refusal, in one frame, with one delegated action, with one  *)
(* retry thread, or used up; unless the turn timed out or went astray.     *)
THEOREM MouthInvariant == Spec => []MouthInv
<1>1. ASSUME Init PROVE MouthInv
  <2> SUFFICES ASSUME NEW t \in Turns PROVE OnlyAt("origin", t)
    BY DEF MouthInv, Places
  <2>1. \A l \in Links : Len(net[l]) = 0
    BY <1>1 DEF Init
  <2>2. NoneSent(net, t) /\ OneSent(net, t)
    BY <2>1 DEF NoneSent, OneSent
  <2>3. ~AtRetry(t) /\ OneRetry(t)
    <3>1. \A l \in Links : retries[<<l, t>>] = 0
      BY <1>1 DEF Init
    <3>2. \A l \in Links : ~Sleeps(l, t) /\ retries[<<l, t>>] <= 1
      BY <3>1 DEF Sleeps
    <3> QED BY <3>2 DEF AtRetry, OneRetry
  <2>4. ~AtSpeaker(t) /\ OneSpeaker(t)
    BY <1>1 DEF Init, AtSpeaker, OneSpeaker, Acts
  <2>5. heard[t] = << >> /\ Len(heard[t]) <= 1
    BY <1>1 DEF Init
  <2>6. ~AtWorker(t) /\ ~AtResult(t)
    BY <1>1 DEF Init, AtWorker, AtResult
  <2> QED BY <2>2, <2>3, <2>4, <2>5, <2>6 DEF OnlyAt, Once, InFlight, Spoken
<1> QED BY <1>1, StepMouth, TurnsAreTyped, PTL DEF Spec

(* "One decision, one mouth": a reply is spoken twice only if the origin   *)
(* gave up waiting for the primary, or was routed by its speaker to        *)
(* another device or mixed up with another reply's refusal; whatever       *)
(* frames are lost, connections break, leases move and delegations are     *)
(* retried.                                                                *)
THEOREM OneMouthUnlessExcused == Spec => []SecondMouthHasACause
<1>1. TurnTypes /\ MouthInv => SecondMouthHasACause
  <2> SUFFICES ASSUME TurnTypes, MouthInv, NEW t \in Turns, Len(heard[t]) > 1
               PROVE  t \in timedOut \cup astray
    BY DEF SecondMouthHasACause
  <2>1. Len(heard[t]) \in Nat
    BY DEF TurnTypes
  <2> QED BY <2>1 DEF MouthInv, OnlyAt, Once, Excused
<1> QED BY <1>1, MouthInvariant, TurnsAreTyped, PTL

-----------------------------------------------------------------------------
(* Why the answer is heard.  The primary's reply and the outcome travel on *)
(* one connection, Way(t), the reply ahead; until a fault happens all      *)
(* nodes name the same primary, so that nobody refuses either.             *)
Way(t) == <<view[Origin[t]], Origin[t]>>

Asked(f, t) == f.kind = "delegate" /\ f.id = t

(* The reply has been said at the origin or is about to be. *)
Told(t) == Spoken(t) \/ Acts(Origin[t], t)

AskedBefore(channels, t, i) == \E j \in 1 .. i - 1 : Asked(channels[Way(t)][j], t)

(* What a frame on connection l may say of a turn; ahead says that the     *)
(* reply has been asked for.                                               *)
FrameOk(f, l, t, ahead) ==
    f.id = t =>
        /\ f.kind = "turn" => l = <<Origin[t], view[Origin[t]]>>
        /\ f.kind = "delegate" => l = Way(t)
        /\ f.kind = "turn_result" /\ f.status = "answered" => l = Way(t) /\ ahead
        /\ f.kind = "delegate_result" => ~f.stale

FramesOk(channels, t, told) ==
    \A l \in Links : \A i \in 1 .. Len(channels[l]) :
        FrameOk(channels[l][i], l, t, told \/ AskedBefore(channels, t, i))

OwnOk(t) == turn[t] = "own" => Decides(Origin[t])

EndOk(t) == turn[t] \in {"handed", "over"} \/ results[t] = "answered" => Spoken(t)

WorkerOk(t) ==
    worker[t] # None =>
        /\ Way(t) \in Links /\ worker[t].at = view[Origin[t]]
        /\ worker[t].status = "answered" =>
              Told(t) \/ AskedBefore(net, t, Len(net[Way(t)]) + 1)

RetryOk(t) == \A l \in Links : ~Sleeps(l, t)

ActsOk(t) == \A n \in Nodes : Acts(n, t) => n = Origin[t] /\ acting[n].from = view[n]

HeardFor(t) ==
    /\ OwnOk(t) /\ EndOk(t) /\ WorkerOk(t) /\ RetryOk(t) /\ ActsOk(t)
    /\ FramesOk(net, t, Told(t))

HeardInv ==
    /\ faults \in Nat
    /\ faults = 0 => /\ \A m, n \in Nodes : view[m] = view[n]
                     /\ \A t \in Turns \ astray : HeardFor(t)

-----------------------------------------------------------------------------
(* A reply that has been asked for ahead of place i still is after another *)
(* frame was queued; a request that is queued itself is ahead of whatever  *)
(* comes next.                                                             *)
LEMMA QueuedAsked ==
    ASSUME NEW c \in [Links -> Seq(Frames)], NEW from, NEW to, NEW f \in Frames,
           NEW t \in Turns, Way(t) \in Links
    PROVE  LET q == Queued(c, from, to, f)
               w == Way(t)
           IN /\ \A i \in 1 .. Len(c[w]) + 1 : AskedBefore(c, t, i) => AskedBefore(q, t, i)
              /\ AskedBefore(c, t, Len(c[w]) + 1) => AskedBefore(q, t, Len(q[w]) + 1)
              /\ Asked(f, t) /\ <<from, to>> = w => AskedBefore(q, t, Len(q[w]) + 1)
<1> DEFINE q == Queued(c, from, to, f)
           w == Way(t)
<1>1. c[w] \in Seq(Frames) /\ Len(c[w]) \in Nat
  OBVIOUS
<1>2. \/ q[w] = c[w] /\ <<from, to>> # w
      \/ q[w] = Append(c[w], f) /\ <<from, to>> = w
  BY DEF Queued
<1> HIDE DEF w, q
<1>3. /\ Len(q[w]) \in {Len(c[w]), Len(c[w]) + 1}
      /\ \A j \in 1 .. Len(c[w]) : q[w][j] = c[w][j]
      /\ <<from, to>> = w => Len(q[w]) = Len(c[w]) + 1 /\ q[w][Len(c[w]) + 1] = f
  BY <1>1, <1>2
<1>4. \A ch, i : AskedBefore(ch, t, i) <=> \E j \in 1 .. i - 1 : Asked(ch[w][j], t)
  BY DEF AskedBefore, w
<1>5. ASSUME NEW i \in 1 .. Len(c[w]) + 1, AskedBefore(c, t, i) PROVE AskedBefore(q, t, i)
  BY <1>1, <1>3, <1>4, <1>5
<1>6. ASSUME AskedBefore(c, t, Len(c[w]) + 1) PROVE AskedBefore(q, t, Len(q[w]) + 1)
  BY <1>1, <1>3, <1>4, <1>6
<1>7. ASSUME Asked(f, t), <<from, to>> = w PROVE AskedBefore(q, t, Len(q[w]) + 1)
  <2>1. Asked(q[w][Len(c[w]) + 1], t) /\ Len(q[w]) = Len(c[w]) + 1
    BY <1>3, <1>7
  <2>2. Len(c[w]) + 1 \in 1 .. (Len(q[w]) + 1) - 1
    BY <1>1, <2>1
  <2> QED BY <1>4, <2>1, <2>2
<1> QED BY <1>5, <1>6, <1>7 DEF q, w

(* Queueing a frame that may be there keeps the frames in order. *)
LEMMA QueuedOk ==
    ASSUME NEW c \in [Links -> Seq(Frames)], NEW from, NEW to, NEW f \in Frames,
           NEW t \in Turns, NEW told, NEW told1, told => told1, FramesOk(c, t, told),
           FrameOk(f, <<from, to>>, t, told1 \/ AskedBefore(c, t, Len(c[Way(t)]) + 1))
    PROVE  FramesOk(Queued(c, from, to, f), t, told1)
<1> DEFINE q == Queued(c, from, to, f)
<1> SUFFICES ASSUME NEW l \in Links, NEW i \in 1 .. Len(q[l])
             PROVE  FrameOk(q[l][i], l, t, told1 \/ AskedBefore(q, t, i))
  BY DEF FramesOk
<1>1. \/ i \in 1 .. Len(c[l]) /\ q[l][i] = c[l][i]
      \/ l = <<from, to>> /\ i = Len(c[l]) + 1 /\ q[l][i] = f
  BY QueuedFrames
<1>2. l = Way(t) => \A j \in 1 .. Len(c[l]) + 1 : AskedBefore(c, t, j) => AskedBefore(q, t, j)
  BY QueuedAsked
<1>3. Len(c[l]) \in Nat
  OBVIOUS
<1> HIDE DEF q
<1>4. CASE i \in 1 .. Len(c[l]) /\ q[l][i] = c[l][i]
  <2>1. FrameOk(c[l][i], l, t, told \/ AskedBefore(c, t, i))
    BY <1>4 DEF FramesOk
  <2>2. l = Way(t) /\ AskedBefore(c, t, i) => AskedBefore(q, t, i)
    BY <1>2, <1>3, <1>4
  <2> QED BY <1>4, <2>1, <2>2 DEF FrameOk
<1>5. CASE l = <<from, to>> /\ i = Len(c[l]) + 1 /\ q[l][i] = f
  <2>1. l = Way(t) /\ AskedBefore(c, t, Len(c[Way(t)]) + 1) => AskedBefore(q, t, i)
    <3>1. i \in 1 .. Len(c[l]) + 1
      BY <1>3, <1>5
    <3> QED BY <1>2, <1>5, <3>1
  <2> QED BY <1>5, <2>1 DEF FrameOk
<1> QED BY <1>1, <1>4, <1>5

(* Taking off the first frame keeps the frames in order, if a request that *)
(* is taken off is met.                                                    *)
LEMMA RestOk ==
    ASSUME TurnTypes, NEW m, NEW n, <<m, n>> \in Links, net[<<m, n>>] # << >>,
           NEW t \in Turns, NEW told, NEW told1, told => told1, FramesOk(net, t, told),
           Asked(Head(net[<<m, n>>]), t) => told1
    PROVE  /\ FramesOk(Rest(m, n), t, told1)
           /\ Way(t) \in Links /\ AskedBefore(net, t, Len(net[Way(t)]) + 1) =>
                told1 \/ AskedBefore(Rest(m, n), t, Len(Rest(m, n)[Way(t)]) + 1)
<1> DEFINE r == Rest(m, n)
           k == <<m, n>>
           w == Way(t)
<1>1. net[k] \in Seq(Frames) /\ Len(net[k]) \in Nat \ {0} /\ Head(net[k]) = net[k][1]
  <2>1. net[k] \in Seq(Frames)
    BY DEF TurnTypes
  <2> QED BY <2>1
<1>2. /\ \A l \in Links : r[l] = IF l = k THEN Tail(net[k]) ELSE net[l]
      /\ \A l \in Links : Len(net[l]) \in Nat
  BY DEF Rest, TurnTypes
<1>3. /\ Len(r[k]) = Len(net[k]) - 1
      /\ \A j \in 1 .. Len(net[k]) - 1 : r[k][j] = net[k][j + 1]
  <2>1. r[k] = Tail(net[k])
    BY <1>2
  <2> HIDE DEF k, r
  <2> QED BY <1>1, <2>1
<1>4. \A ch, i : AskedBefore(ch, t, i) <=> \E j \in 1 .. i - 1 : Asked(ch[w][j], t)
  BY DEF AskedBefore
<1>5. Asked(net[k][1], t) => told1
  BY <1>1
<1> HIDE DEF r, k, w
<1>6. ASSUME w = k, NEW i \in 1 .. Len(net[k]), AskedBefore(net, t, i + 1)
      PROVE  told1 \/ AskedBefore(r, t, i)
  <2>1. PICK j \in 1 .. i : Asked(net[k][j], t)
    BY <1>1, <1>4, <1>6
  <2>2. CASE j = 1
    BY <1>5, <2>1, <2>2
  <2>3. CASE j # 1
    <3>1. j - 1 \in 1 .. i - 1 /\ j - 1 \in 1 .. Len(net[k]) - 1 /\ (j - 1) + 1 = j
      BY <1>1, <2>3
    <3>2. Asked(r[w][j - 1], t)
      BY <1>3, <1>6, <2>1, <3>1
    <3> QED BY <1>4, <3>1, <3>2
  <2> QED BY <2>2, <2>3
<1>7. ASSUME w \in Links, w # k, NEW i, AskedBefore(net, t, i) PROVE AskedBefore(r, t, i)
  BY <1>2, <1>4, <1>7
<1>8. ASSUME NEW l \in Links, NEW i \in 1 .. Len(r[l])
      PROVE  FrameOk(r[l][i], l, t, told1 \/ AskedBefore(r, t, i))
  <2>1. CASE l = k
    <3>1. i \in 1 .. Len(net[k]) - 1 /\ i + 1 \in 1 .. Len(net[k]) /\ r[k][i] = net[k][i + 1]
      BY <1>1, <1>3, <2>1
    <3>2. FrameOk(net[k][i + 1], k, t, told \/ AskedBefore(net, t, i + 1))
      BY <2>1, <3>1 DEF FramesOk
    <3>3. k = w /\ AskedBefore(net, t, i + 1) => told1 \/ AskedBefore(r, t, i)
      BY <1>1, <1>6, <3>1
    <3> QED BY <2>1, <3>1, <3>2, <3>3 DEF FrameOk, w
  <2>2. CASE l # k
    <3>1. r[l] = net[l] /\ i \in 1 .. Len(net[l])
      BY <1>2, <2>2
    <3>2. FrameOk(net[l][i], l, t, told \/ AskedBefore(net, t, i))
      BY <3>1 DEF FramesOk
    <3>3. l = w /\ AskedBefore(net, t, i) => AskedBefore(r, t, i)
      BY <1>7, <2>2
    <3> QED BY <3>1, <3>2, <3>3 DEF FrameOk, w
  <2> QED BY <2>1, <2>2
<1>9. ASSUME w \in Links, AskedBefore(net, t, Len(net[w]) + 1)
      PROVE  told1 \/ AskedBefore(r, t, Len(r[w]) + 1)
  <2>1. CASE w = k
    <3>1. Len(r[w]) + 1 = Len(net[k]) /\ Len(net[k]) \in 1 .. Len(net[k])
      BY <1>1, <1>3, <2>1
    <3> QED BY <1>6, <1>9, <2>1, <3>1
  <2>2. CASE w # k
    BY <1>2, <1>7, <1>9, <2>2
  <2> QED BY <2>1, <2>2
<1> QED BY <1>8, <1>9 DEF FramesOk, r, w

-----------------------------------------------------------------------------
(* The frames about a turn are in order after a step as before, and a      *)
(* request for its reply is still ahead of what comes next, or has been    *)
(* met.                                                                    *)
NetKept(t) ==
    /\ FramesOk(net', t, Told(t)')
    /\ Way(t) \in Links /\ AskedBefore(net, t, Len(net[Way(t)]) + 1) =>
         Told(t)' \/ AskedBefore(net', t, Len(net'[Way(t)]) + 1)

(* A step that leaves the network alone or queues one frame that may be    *)
(* there keeps it in order.                                                *)
LEMMA NetStays ==
    ASSUME NEW t \in Turns, TurnTypes, FramesOk(net, t, Told(t)), Told(t) => Told(t)'
    PROVE  /\ net' = net => NetKept(t)
           /\ \A from, to : \A f \in Frames :
                /\ net' = Queued(net, from, to, f)
                /\ FrameOk(f, <<from, to>>, t,
                           Told(t)' \/ AskedBefore(net, t, Len(net[Way(t)]) + 1))
                => NetKept(t)
<1>1. net \in [Links -> Seq(Frames)]
  BY DEF TurnTypes
<1>2. ASSUME net' = net PROVE NetKept(t)
  <2>1. FramesOk(net, t, Told(t)')
    BY DEF FramesOk, FrameOk
  <2> QED BY <1>2, <2>1 DEF NetKept
<1>3. ASSUME NEW from, NEW to, NEW f \in Frames, net' = Queued(net, from, to, f),
             FrameOk(f, <<from, to>>, t,
                     Told(t)' \/ AskedBefore(net, t, Len(net[Way(t)]) + 1))
      PROVE  NetKept(t)
  <2>1. FramesOk(Queued(net, from, to, f), t, Told(t)')
    BY <1>1, <1>3, QueuedOk
  <2>2. Way(t) \in Links /\ AskedBefore(net, t, Len(net[Way(t)]) + 1) =>
            AskedBefore(net', t, Len(net'[Way(t)]) + 1)
    BY <1>1, <1>3, QueuedAsked
  <2> QED BY <1>3, <2>1, <2>2 DEF NetKept
<1> QED BY <1>2, <1>3

(* So does a handler that takes off a frame, if it does what a request     *)
(* asks for, and answers about another turn.                               *)
LEMMA NetHandled ==
    ASSUME NEW t \in Turns, TurnTypes, FramesOk(net, t, Told(t)), Told(t) => Told(t)',
           NEW m, NEW n, <<m, n>> \in Links, net[<<m, n>>] # << >>,
           Asked(Head(net[<<m, n>>]), t) => Told(t)'
    PROVE  /\ net' = Rest(m, n) => NetKept(t)
           /\ \A f \in Frames :
                f.id # t /\ net' = Queued(Rest(m, n), n, m, f) => NetKept(t)
<1> DEFINE r == Rest(m, n)
<1>1. r \in [Links -> Seq(Frames)]
  BY NetTypes DEF TurnTypes, Rest
<1>2. /\ FramesOk(r, t, Told(t)')
      /\ Way(t) \in Links /\ AskedBefore(net, t, Len(net[Way(t)]) + 1) =>
            Told(t)' \/ AskedBefore(r, t, Len(r[Way(t)]) + 1)
  BY RestOk
<1> HIDE DEF r
<1>3. net' = r => NetKept(t)
  BY <1>2 DEF NetKept
<1>4. ASSUME NEW f \in Frames, f.id # t, net' = Queued(r, n, m, f) PROVE NetKept(t)
  <2>1. FrameOk(f, <<n, m>>, t, Told(t)' \/ AskedBefore(r, t, Len(r[Way(t)]) + 1))
    BY <1>4 DEF FrameOk
  <2>2. FramesOk(net', t, Told(t)')
    BY <1>1, <1>2, <1>4, <2>1, QueuedOk
  <2>3. Way(t) \in Links /\ AskedBefore(r, t, Len(r[Way(t)]) + 1) =>
            AskedBefore(net', t, Len(net'[Way(t)]) + 1)
    BY <1>1, <1>4, QueuedAsked
  <2> QED BY <1>2, <2>2, <2>3 DEF NetKept
<1> QED BY <1>3, <1>4 DEF r

(* The parts of HeardFor that a step leaves alone. *)
LEMMA HeardParts ==
    ASSUME NEW t \in Turns, TurnTypes, HeardFor(t), view' = view
    PROVE  /\ turn'[t] = turn[t] => OwnOk(t)'
           /\ /\ turn'[t] = turn[t] /\ results'[t] = results[t]
              /\ Spoken(t) => Spoken(t)'
              => EndOk(t)'
           /\ /\ worker'[t] = worker[t] /\ NetKept(t)
              /\ Told(t) => Told(t)'
              => WorkerOk(t)'
           /\ (\A l \in Links : retries'[<<l, t>>] = retries[<<l, t>>]) => RetryOk(t)'
           /\ acting' = acting => ActsOk(t)'
           /\ acting' = acting /\ (Spoken(t) => Spoken(t)') => (Told(t) => Told(t)')
           /\ NetKept(t) => FramesOk(net, t, Told(t))'
           /\ heard'[t] = heard[t] => (Spoken(t) => Spoken(t)')
<1>1. turn'[t] = turn[t] => OwnOk(t)'
  BY DEF HeardFor, OwnOk, Decides
<1>2. /\ turn'[t] = turn[t] /\ results'[t] = results[t]
      /\ Spoken(t) => Spoken(t)'
      => EndOk(t)'
  BY DEF HeardFor, EndOk
<1>3. ASSUME worker'[t] = worker[t], NetKept(t), Told(t) => Told(t)'
      PROVE  WorkerOk(t)'
  <2>1. Way(t)' = Way(t)
    BY DEF Way
  <2>2. AskedBefore(net', t, Len(net'[Way(t)]) + 1)
          => AskedBefore(net, t, Len(net[Way(t)]) + 1)'
    BY <2>1 DEF AskedBefore
  <2> QED BY <1>3, <2>1, <2>2 DEF HeardFor, WorkerOk, NetKept
<1>4. (\A l \in Links : retries'[<<l, t>>] = retries[<<l, t>>]) => RetryOk(t)'
  BY DEF HeardFor, RetryOk, Sleeps
<1>5. acting' = acting => ActsOk(t)'
  BY DEF HeardFor, ActsOk, Acts
<1>6. acting' = acting /\ (Spoken(t) => Spoken(t)') => (Told(t) => Told(t)')
  BY DEF Told, Acts
<1>7. NetKept(t) => FramesOk(net, t, Told(t))'
  BY DEF NetKept, FramesOk, FrameOk, AskedBefore, Way
<1>8. heard'[t] = heard[t] => (Spoken(t) => Spoken(t)')
  BY DEF Spoken
<1> QED BY <1>1, <1>2, <1>3, <1>4, <1>5, <1>6, <1>7, <1>8

(* A delegation of another turn's reply keeps the network in order. *)
LEMMA DelegateHeard ==
    ASSUME NEW t \in Turns, NEW u \in Turns, u # t, NEW n, NEW peer, TurnTypes,
           FramesOk(net, t, Told(t)), Told(t) => Told(t)', Delegate(n, peer, u)
    PROVE  NetKept(t) /\ heard'[t] = heard[t]
<1> DEFINE f == [kind |-> "delegate", id |-> u]
<1>1. f \in Frames /\ FrameOk(f, <<n, peer>>, t,
                             Told(t)' \/ AskedBefore(net, t, Len(net[Way(t)]) + 1))
  BY BuiltFrames DEF FrameOk
<1>2. net' = Queued(net, n, peer, f) /\ heard' = heard
  BY DEF Delegate
<1> HIDE DEF f
<1> QED BY <1>1, <1>2, NetStays

(* A reply that is spoken without a fault and does not go astray has been  *)
(* spoken; the other turns are left alone.                                 *)
LEMMA SayHeard ==
    ASSUME NEW t \in Turns, NEW u \in Turns, NEW n, TurnTypes, ~Fault, Say(n, u)
    PROVE  /\ net' = net
           /\ Spoken(t) => Spoken(t)'
           /\ t = u => Spoken(t)'
           /\ t # u => heard'[t] = heard[t]
<1>1. heard' = [heard EXCEPT ![u] = Append(@, n)] /\ net' = net
  BY DEF Say
<1>2. heard[u] \in Seq(Nodes) /\ heard'[u] = Append(heard[u], n)
  BY <1>1 DEF TurnTypes
<1>3. heard'[u] # << >>
  <2>1. Append(heard[u], n)[Len(heard[u]) + 1] = n /\ Len(Append(heard[u], n)) = Len(heard[u]) + 1
    BY <1>2
  <2>2. Len(heard[u]) + 1 # 0
    BY <1>2
  <2> QED BY <1>2, <2>1, <2>2
<1>4. t # u => heard'[t] = heard[t]
  BY <1>1 DEF TurnTypes
<1> QED BY <1>1, <1>3, <1>4 DEF Spoken

(* Without a fault, speaking keeps what is known of every turn that does   *)
(* not go astray.                                                          *)
LEMMA SpeakHeard ==
    ASSUME NEW t \in Turns, NEW u \in Turns, NEW n, TurnTypes, ~Fault,
           FramesOk(net, t, Told(t)), t \notin astray', SpeakNearest(n, u),
           t # u => (heard'[t] = heard[t] => (Told(t) => Told(t)'))
    PROVE  /\ NetKept(t)
           /\ Told(t) => Told(t)'
           /\ Spoken(t) => Spoken(t)'
           /\ t = u => Spoken(t)'
<1>1. CASE Say(n, u)
  <2>1. Told(t) => Told(t)'
    BY <1>1, SayHeard DEF Told
  <2> QED BY <1>1, <2>1, SayHeard, NetStays
<1>2. ASSUME NEW peer \in Nodes \ {n}, Delegate(n, peer, u), astray' = astray \cup {u}
      PROVE  NetKept(t) /\ heard'[t] = heard[t] /\ t # u /\ (Told(t) => Told(t)')
  <2>1. t # u /\ heard'[t] = heard[t]
    BY <1>2 DEF Delegate
  <2> QED BY <1>2, <2>1, DelegateHeard
<1>3. heard'[t] = heard[t] => (Spoken(t) => Spoken(t)')
  BY DEF Spoken
<1> QED BY <1>1, <1>2, <1>3, SayHeard DEF SpeakNearest

-----------------------------------------------------------------------------
(* The origin's thread is done only after the reply was spoken. *)
LEMMA OriginHeard ==
    ASSUME NEW t \in Turns, TurnTypes, HeardFor(t), view' = view, ~Fault,
           t \notin astray', NEW u \in Turns, OriginStep(u)
    PROVE  HeardFor(t)'
<1> USE DEF HeardFor
<1>1. CASE TakeTurn(u)
  <2> DEFINE f == [kind |-> "turn", id |-> u]
             n == Origin[u]
  <2>1. /\ worker' = worker /\ results' = results /\ acting' = acting
        /\ retries' = retries /\ heard' = heard
    BY <1>1 DEF TakeTurn
  <2>2. /\ Told(t) => Told(t)'
        /\ Spoken(t) => Spoken(t)'
        /\ RetryOk(t)' /\ ActsOk(t)'
    BY <2>1, HeardParts
  <2>3. f \in Frames /\ FrameOk(f, <<n, view[n]>>, t,
                               Told(t)' \/ AskedBefore(net, t, Len(net[Way(t)]) + 1))
    BY BuiltFrames DEF FrameOk
  <2>4. /\ net' = net \/ net' = Queued(net, n, view[n], f)
        /\ t # u => turn'[t] = turn[t]
        /\ turn'[u] = "own" => Decides(n)
        /\ turn'[u] \in {"own", "waiting"}
    BY <1>1 DEF TakeTurn, TurnTypes
  <2> HIDE DEF f, n
  <2>5. NetKept(t)
    BY <2>2, <2>3, <2>4, NetStays
  <2>6. WorkerOk(t)' /\ FramesOk(net, t, Told(t))'
    BY <2>1, <2>2, <2>5, HeardParts
  <2>7. OwnOk(t)' /\ EndOk(t)'
    <3>1. CASE t # u
      BY <2>1, <2>2, <2>4, <3>1, HeardParts
    <3>2. CASE t = u
      <4>1. OwnOk(t)'
        BY <2>4, <3>2 DEF OwnOk, Decides, n
      <4>2. EndOk(t)'
        BY <2>1, <2>2, <2>4, <3>2 DEF EndOk
      <4> QED BY <4>1, <4>2
    <3> QED BY <3>1, <3>2
  <2> QED BY <2>2, <2>6, <2>7
<1>2. CASE WaitEnds(u) \/ TimeOut(u)
  <2>1. /\ worker' = worker /\ acting' = acting /\ retries' = retries
        /\ heard' = heard /\ net' = net
    BY <1>2 DEF WaitEnds, TimeOut
  <2>2. /\ Told(t) => Told(t)'
        /\ Spoken(t) => Spoken(t)'
        /\ RetryOk(t)' /\ ActsOk(t)'
    BY <2>1, HeardParts
  <2>3. WorkerOk(t)' /\ FramesOk(net, t, Told(t))'
    BY <2>1, <2>2, NetStays, HeardParts
  <2>4. OwnOk(t)' /\ EndOk(t)'
    <3>1. CASE t # u
      <4>1. turn'[t] = turn[t] /\ results'[t] = results[t]
        BY <1>2, <3>1 DEF WaitEnds, TimeOut, Collected, TurnTypes
      <4> QED BY <2>2, <4>1, HeardParts
    <3>2. CASE t = u
      <4>1. /\ turn'[t] \in {"handed", "fallback"}
            /\ turn'[t] = "handed" => results[t] = "answered"
            /\ results'[t] = None
        BY <1>2, <3>2 DEF WaitEnds, TimeOut, Collected, TurnTypes
      <4>2. OwnOk(t)'
        BY <4>1 DEF OwnOk
      <4>3. turn'[t] = "handed" => Spoken(t)'
        BY <2>2, <4>1 DEF EndOk
      <4>4. results'[t] # "answered"
        BY <4>1, TurnsAssumption
      <4> QED BY <4>1, <4>2, <4>3, <4>4 DEF EndOk
    <3> QED BY <3>1, <3>2
  <2> QED BY <2>2, <2>3, <2>4
<1>3. CASE AnswerHere(u)
  <2>1. worker' = worker /\ results' = results /\ acting' = acting /\ retries' = retries
    BY <1>3 DEF AnswerHere
  <2>2. RetryOk(t)' /\ ActsOk(t)' /\ (heard'[t] = heard[t] => (Told(t) => Told(t)'))
    BY <2>1, HeardParts
  <2>3. SpeakNearest(Origin[u], u) \/ (UNCHANGED <<net, heard>> /\ t # u)
    <3>1. t = u => Decides(Origin[u]) \/ turn[u] = "fallback"
      BY <1>3 DEF AnswerHere, OwnOk
    <3> QED BY <1>3, <3>1 DEF AnswerHere, MayAct
  <2>4. /\ NetKept(t)
        /\ Told(t) => Told(t)'
        /\ Spoken(t) => Spoken(t)'
        /\ t = u => Spoken(t)'
    <3>1. CASE SpeakNearest(Origin[u], u)
      BY <2>2, <3>1, SpeakHeard
    <3>2. CASE UNCHANGED <<net, heard>> /\ t # u
      BY <2>2, <3>2, NetStays, HeardParts
    <3> QED BY <2>3, <3>1, <3>2
  <2>5. WorkerOk(t)' /\ FramesOk(net, t, Told(t))'
    BY <2>1, <2>4, HeardParts
  <2>6. OwnOk(t)' /\ EndOk(t)'
    <3>1. CASE t # u
      <4>1. turn'[t] = turn[t]
        BY <1>3, <3>1 DEF AnswerHere, TurnTypes
      <4> QED BY <2>1, <2>4, <4>1, HeardParts
    <3>2. CASE t = u
      <4>1. turn'[t] = "over"
        BY <1>3, <3>2 DEF AnswerHere, TurnTypes
      <4> QED BY <2>4, <3>2, <4>1 DEF OwnOk, EndOk
    <3> QED BY <3>1, <3>2
  <2> QED BY <2>2, <2>5, <2>6
<1> QED BY <1>1, <1>2, <1>3 DEF OriginStep

(* While the views agree, the primary's worker is never stopped by the     *)
(* lease: it reports an answer only behind the request to speak it.        *)
LEMMA WorkerHeard ==
    ASSUME NEW t \in Turns, TurnTypes, HeardFor(t), view' = view, ~Fault,
           \A m, n \in Nodes : view[m] = view[n],
           t \notin astray', NEW u \in Turns, WorkerStep(u)
    PROVE  HeardFor(t)'
<1> USE DEF HeardFor
<1>0. turn' = turn /\ results' = results /\ acting' = acting /\ retries' = retries
  BY DEF WorkerStep, AnswerForwardedTurn, ReportTurn
<1>1. RetryOk(t)' /\ ActsOk(t)' /\ OwnOk(t)' /\ (heard'[t] = heard[t] => (Told(t) => Told(t)'))
  BY <1>0, HeardParts
<1>2. (Spoken(t) => Spoken(t)') => EndOk(t)' /\ (Told(t) => Told(t)')
  BY <1>0, HeardParts
<1>3. CASE AnswerForwardedTurn(u)
  <2>1. /\ worker[u] \in [at : Nodes, status : Statuses \cup {"deciding"}]
        /\ worker[u] # None
    BY <1>3 DEF AnswerForwardedTurn, TurnTypes
  <2>2. /\ t = u => /\ Way(t) \in Links /\ worker[u].at = view[Origin[t]]
                    /\ MayAct(worker[u].at)
    <3>1. CASE t = u
      <4>1. Way(t) \in Links /\ worker[u].at = view[Origin[t]]
        BY <2>1, <3>1 DEF WorkerOk
      <4>2. view[worker[u].at] = view[Origin[t]]
        BY <2>1, TurnsAssumption
      <4> QED BY <4>1, <4>2 DEF MayAct, Decides
    <3> QED BY <3>1
  <2>3. \/ Finish(u, "answered") /\ Delegate(worker[u].at, Origin[u], u)
        \/ Finish(u, "answered") /\ Say(worker[u].at, u)
        \/ Finish(u, "answered") /\ ~MayAct(worker[u].at) /\ UNCHANGED <<net, heard>>
        \/ Finish(u, "error") /\ UNCHANGED <<net, heard>>
        \/ /\ Finish(u, "answered") \/ Finish(u, "error")
           /\ \E peer \in Nodes : Delegate(worker[u].at, peer, u)
           /\ u \in astray'
    BY <1>3, WorkerAnswers
  <2>4. CASE t # u
    <3>1. worker'[t] = worker[t]
      BY <2>3, <2>4 DEF Finish, TurnTypes
    <3>2. NetKept(t) /\ heard'[t] = heard[t]
      <4>1. ASSUME NEW peer, Delegate(worker[u].at, peer, u)
            PROVE  NetKept(t) /\ heard'[t] = heard[t]
        <5>1. heard'[t] = heard[t]
          BY <4>1 DEF Delegate
        <5> QED BY <1>1, <2>4, <4>1, <5>1, DelegateHeard
      <4>2. CASE Say(worker[u].at, u)
        <5>1. net' = net /\ heard'[t] = heard[t]
          BY <2>4, <4>2, SayHeard
        <5> QED BY <1>1, <5>1, NetStays
      <4>3. CASE UNCHANGED <<net, heard>>
        BY <1>1, <4>3, NetStays
      <4> QED BY <2>3, <4>1, <4>2, <4>3
    <3>3. (Spoken(t) => Spoken(t)') /\ (Told(t) => Told(t)')
      BY <1>1, <3>2, HeardParts
    <3> QED BY <1>1, <1>2, <3>1, <3>2, <3>3, HeardParts
  <2>5. CASE t = u
    <3>1. \A s \in Statuses : Finish(u, s) =>
              /\ worker'[t].at = view[Origin[t]] /\ worker'[t].status = s
      BY <2>1, <2>2, <2>5 DEF Finish, TurnTypes
    <3>2. CASE Finish(u, "answered") /\ Delegate(worker[u].at, Origin[u], u)
      <4> DEFINE f == [kind |-> "delegate", id |-> u]
      <4>1. net' = Queued(net, worker[u].at, Origin[u], f) /\ heard'[t] = heard[t]
        BY <3>2 DEF Delegate
      <4>2. /\ f \in Frames /\ Asked(f, t) /\ <<worker[u].at, Origin[u]>> = Way(t)
            /\ FrameOk(f, <<worker[u].at, Origin[u]>>, t,
                       Told(t)' \/ AskedBefore(net, t, Len(net[Way(t)]) + 1))
        BY <2>2, <2>5, BuiltFrames DEF FrameOk, Asked, Way
      <4> HIDE DEF f
      <4>3. NetKept(t) /\ (Spoken(t) => Spoken(t)')
        BY <1>1, <4>1, <4>2, NetStays, HeardParts
      <4>4. AskedBefore(net', t, Len(net'[Way(t)]) + 1)
        BY <2>2, <2>5, <4>1, <4>2, QueuedAsked DEF TurnTypes
      <4>5. WorkerOk(t)'
        <5>1. Way(t)' = Way(t)
          BY DEF Way
        <5>2. AskedBefore(net, t, Len(net[Way(t)]) + 1)'
          BY <4>4, <5>1 DEF AskedBefore
        <5> QED BY <2>2, <2>5, <3>1, <3>2, <5>1, <5>2 DEF WorkerOk, Statuses
      <4> QED BY <1>1, <1>2, <4>3, <4>5, HeardParts
    <3>3. CASE Finish(u, "answered") /\ Say(worker[u].at, u)
      <4>1. net' = net /\ Spoken(t)'
        BY <2>5, <3>3, SayHeard
      <4>2. Told(t)'
        BY <4>1 DEF Told
      <4>3. NetKept(t)
        BY <4>1, <4>2, NetStays
      <4>4. WorkerOk(t)'
        <5>1. Way(t)' = Way(t)
          BY DEF Way
        <5> QED BY <2>2, <2>5, <3>1, <3>3, <4>2, <5>1 DEF WorkerOk, Statuses
      <4> QED BY <1>1, <1>2, <4>1, <4>3, <4>4, HeardParts
    <3>4. CASE Finish(u, "error") /\ UNCHANGED <<net, heard>>
      <4>1. NetKept(t) /\ (Spoken(t) => Spoken(t)')
        BY <1>1, <3>4, NetStays, HeardParts
      <4>2. WorkerOk(t)'
        <5>1. Way(t)' = Way(t)
          BY DEF Way
        <5> QED BY <2>2, <2>5, <3>1, <3>4, <5>1 DEF WorkerOk, Statuses
      <4> QED BY <1>1, <1>2, <4>1, <4>2, HeardParts
    <3> QED BY <2>2, <2>3, <2>5, <3>2, <3>3, <3>4
  <2> QED BY <2>4, <2>5
<1>4. CASE ReportTurn(u)
  <2> DEFINE f == [kind |-> "turn_result", id |-> u, status |-> worker[u].status]
  <2>1. heard'[t] = heard[t] /\ worker[u] # None /\ worker[u].status \in Statuses
    BY <1>4 DEF ReportTurn, TurnTypes
  <2>2. net' = Queued(net, worker[u].at, Origin[u], f)
    BY <1>4 DEF ReportTurn, ReplyTo
  <2>3. (Told(t) => Told(t)') /\ (Spoken(t) => Spoken(t)')
    BY <1>1, <2>1, HeardParts
  <2>4. f \in Frames
    BY <2>1, BuiltFrames
  <2>5. FrameOk(f, <<worker[u].at, Origin[u]>>, t,
                Told(t)' \/ AskedBefore(net, t, Len(net[Way(t)]) + 1))
    BY <2>1, <2>3 DEF FrameOk, WorkerOk, Way
  <2> HIDE DEF f
  <2>6. NetKept(t)
    BY <2>2, <2>3, <2>4, <2>5, NetStays
  <2>7. WorkerOk(t)'
    <3>1. CASE t = u
      BY <1>4, <3>1 DEF ReportTurn, TurnTypes, WorkerOk
    <3>2. CASE t # u
      <4>1. worker'[t] = worker[t]
        BY <1>4, <3>2 DEF ReportTurn, TurnTypes
      <4> QED BY <2>3, <2>6, <4>1, HeardParts
    <3> QED BY <3>1, <3>2
  <2> QED BY <1>1, <1>2, <2>3, <2>6, <2>7, HeardParts
<1> QED BY <1>3, <1>4 DEF WorkerStep

(* While the views agree, no request about a turn that is not astray is    *)
(* refused, and an outcome is read only after the reply before it was      *)
(* spoken.                                                                 *)
LEMMA HandleHeard ==
    ASSUME NEW t \in Turns, TurnTypes, HeardFor(t), view' = view, ~Fault,
           \A m, n \in Nodes : view[m] = view[n],
           t \notin astray', NEW m \in Nodes, NEW n \in Nodes, m # n, Handle(m, n)
    PROVE  HeardFor(t)'
<1> USE DEF HeardFor
<1> DEFINE f == Head(net[<<m, n>>])
           u == f.id
<1>0. turn' = turn /\ heard' = heard /\ acting[n] = None
  BY DEF Handle, HandleTurn, RecordTurnResult, HandleDelegated, RecordDelegatedResult, Receives
<1>1. OwnOk(t)' /\ (Spoken(t) => Spoken(t)')
  BY <1>0, HeardParts
<1>2. PICK kind \in {"turn", "turn_result", "delegate", "delegate_result"} : Receives(m, n, kind)
  BY DEF Handle, HandleTurn, RecordTurnResult, HandleDelegated, RecordDelegatedResult
<1>3. /\ <<m, n>> \in Links /\ net[<<m, n>>] # << >>
      /\ f \in Frames /\ u \in Turns
  BY <1>2, FrameTypes
<1>4. FrameOk(f, <<m, n>>, t, Told(t))
  <2>1. net[<<m, n>>] \in Seq(Frames)
    BY <1>3 DEF TurnTypes
  <2>2. 1 \in 1 .. Len(net[<<m, n>>]) /\ f = net[<<m, n>>][1]
    BY <1>3, <2>1
  <2>3. FrameOk(f, <<m, n>>, t, Told(t) \/ AskedBefore(net, t, 1))
    BY <1>3, <2>2 DEF FramesOk
  <2>4. ~AskedBefore(net, t, 1)
    BY DEF AskedBefore
  <2> QED BY <2>3, <2>4 DEF FrameOk
<1>5. CASE HandleTurn(m, n)
  <2> DEFINE g == [kind |-> "turn_result", id |-> u, status |-> "refused"]
  <2>1. results' = results /\ acting' = acting /\ retries' = retries /\ f.kind = "turn"
    BY <1>5 DEF HandleTurn, Receives
  <2>2. RetryOk(t)' /\ ActsOk(t)' /\ EndOk(t)' /\ (Told(t) => Told(t)')
    BY <1>0, <1>1, <2>1, HeardParts
  <2>3. \/ /\ net' = Rest(m, n) /\ Decides(n)
           /\ worker' = [worker EXCEPT ![u] = [at |-> n, status |-> "deciding"]]
        \/ net' = Queued(Rest(m, n), n, m, g) /\ worker' = worker /\ ~Decides(n)
    BY <1>5 DEF HandleTurn, ReplyTo
  <2>4. t = u => m = Origin[t] /\ n = view[Origin[t]] /\ Decides(n)
    <3>1. t = u => <<m, n>> = <<Origin[t], view[Origin[t]]>>
      BY <1>4, <2>1 DEF FrameOk
    <3>2. view[n] = view[Origin[t]]
      BY TurnsAssumption
    <3> QED BY <3>1, <3>2 DEF Decides
  <2>5. g \in Frames /\ g.id = u
    BY <1>3, BuiltFrames DEF Statuses
  <2>6. ~Asked(f, t)
    BY <2>1 DEF Asked
  <2>7. NetKept(t)
    <3> HIDE DEF g, u
    <3>1. CASE net' = Rest(m, n)
      BY <1>3, <2>2, <2>6, <3>1, NetHandled
    <3>2. CASE net' = Queued(Rest(m, n), n, m, g) /\ ~Decides(n)
      <4>1. g.id # t
        BY <2>4, <2>5, <3>2
      <4> QED BY <1>3, <2>2, <2>5, <2>6, <3>2, <4>1, NetHandled
    <3> QED BY <2>3, <3>1, <3>2
  <2>8. WorkerOk(t)'
    <3>1. CASE t # u
      <4>1. worker'[t] = worker[t]
        BY <2>3, <3>1 DEF TurnTypes
      <4> QED BY <2>2, <2>7, <4>1, HeardParts
    <3>2. CASE t = u
      <4>1. worker'[t] = [at |-> n, status |-> "deciding"]
        BY <2>3, <2>4, <3>2 DEF TurnTypes
      <4>2. Way(t)' = <<n, m>> /\ <<n, m>> \in Links /\ view'[Origin[t]] = n
        BY <2>4, <3>2 DEF Way, Links
      <4> QED BY <4>1, <4>2 DEF WorkerOk
    <3> QED BY <3>1, <3>2
  <2> QED BY <1>1, <2>2, <2>7, <2>8, HeardParts
<1>6. CASE RecordTurnResult(m, n)
  <2>1. /\ worker' = worker /\ acting' = acting /\ retries' = retries
        /\ f.kind = "turn_result" /\ net' = Rest(m, n)
    BY <1>6 DEF RecordTurnResult, Receives
  <2>2. RetryOk(t)' /\ ActsOk(t)' /\ (Told(t) => Told(t)')
    BY <1>1, <2>1, HeardParts
  <2>3. ~Asked(f, t)
    BY <2>1 DEF Asked
  <2>4. NetKept(t)
    BY <1>3, <2>1, <2>2, <2>3, NetHandled
  <2>5. t = u /\ f.status = "answered" => Spoken(t)
    <3>1. t = u /\ f.status = "answered" => n = Origin[t] /\ Told(t)
      BY <1>4, <2>1 DEF FrameOk, Way
    <3> QED BY <1>0, <3>1 DEF Told, Acts
  <2>6. results'[t] = results[t] \/ (t = u /\ results'[t] = f.status)
    BY <1>6 DEF RecordTurnResult, TurnTypes
  <2>7. EndOk(t)'
    BY <1>0, <1>1, <2>5, <2>6 DEF EndOk
  <2> QED BY <1>1, <2>1, <2>2, <2>4, <2>7, HeardParts
<1>7. CASE HandleDelegated(m, n)
  <2> DEFINE g == DelegateResult(u, TRUE)
             a == [id |-> u, from |-> m, done |-> FALSE]
  <2>1. results' = results /\ worker' = worker /\ retries' = retries /\ f.kind = "delegate"
    BY <1>7 DEF HandleDelegated, Receives
  <2>2. RetryOk(t)' /\ EndOk(t)'
    BY <1>0, <1>1, <2>1, HeardParts
  <2>3. \/ net' = Rest(m, n) /\ view[n] = m /\ acting' = [acting EXCEPT ![n] = a]
        \/ net' = Queued(Rest(m, n), n, m, g) /\ view[n] # m /\ acting' = acting
    BY <1>7 DEF HandleDelegated, ReplyTo
  <2>4. t = u => n = Origin[t] /\ view[n] = m
    BY <1>4, <2>1 DEF FrameOk, Way
  <2>5. g \in Frames /\ g.id = u
    BY <1>3, BuiltFrames DEF DelegateResult
  <2>6. \A k \in Nodes \ {n} : acting'[k] = acting[k]
    BY <2>3 DEF TurnTypes
  <2>7. acting'[n] = acting[n] \/ (acting'[n] = a /\ view[n] = m)
    BY <2>3 DEF TurnTypes
  <2>8. t = u => acting'[n] = a
    BY <2>3, <2>4 DEF TurnTypes
  <2>9. ASSUME NEW k \in Nodes, Acts(k, t)' PROVE Acts(k, t) \/ (k = n /\ t = u /\ view[n] = m /\ acting'[n].from = m)
    BY <2>6, <2>7, <2>9 DEF Acts
  <2>10. ActsOk(t)'
    BY <1>0, <2>4, <2>6, <2>9 DEF ActsOk, Acts
  <2>11. /\ Told(t) => Told(t)'
         /\ t = u => Told(t)'
    <3>1. Acts(Origin[t], t) => Acts(Origin[t], t)'
      BY <1>0, <2>6, TurnsAssumption DEF Acts
    <3>2. t = u => Acts(Origin[t], t)'
      <4>1. a # None
        <5>1. a \in [id : Turns, from : Nodes, done : BOOLEAN]
          BY <1>3
        <5> QED BY <5>1, TurnsAssumption
      <4> QED BY <2>4, <2>8, <4>1 DEF Acts
    <3> QED BY <1>1, <3>1, <3>2 DEF Told
  <2>12. NetKept(t)
    <3>1. Asked(f, t) => Told(t)'
      BY <2>11 DEF Asked
    <3> HIDE DEF g, u
    <3>2. CASE net' = Rest(m, n)
      BY <1>3, <2>11, <3>1, <3>2, NetHandled
    <3>3. CASE net' = Queued(Rest(m, n), n, m, g) /\ view[n] # m
      <4>1. g.id # t
        BY <2>4, <2>5, <3>3
      <4> QED BY <1>3, <2>5, <2>11, <3>1, <3>3, <4>1, NetHandled
    <3> QED BY <2>3, <3>2, <3>3
  <2> QED BY <1>1, <2>1, <2>2, <2>10, <2>11, <2>12, HeardParts
<1>8. CASE RecordDelegatedResult(m, n)
  <2> DEFINE entry == pending[<<n, m>>]
             retry == f.stale /\ entry # None /\ entry.attempt < 2
  <2>1. /\ worker' = worker /\ results' = results /\ acting' = acting
        /\ f.kind = "delegate_result" /\ net' = Rest(m, n)
    BY <1>8 DEF RecordDelegatedResult, Receives
  <2>2. ActsOk(t)' /\ EndOk(t)' /\ (Told(t) => Told(t)')
    BY <1>0, <1>1, <2>1, HeardParts
  <2>3. ~Asked(f, t)
    BY <2>1 DEF Asked
  <2>4. NetKept(t)
    BY <1>3, <2>1, <2>2, <2>3, NetHandled
  <2>5. /\ retries' = IF retry THEN [retries EXCEPT ![<<<<n, m>>, entry.id>>] = @ + 1]
                     ELSE retries
        /\ retry /\ entry.id # u => t \notin {entry.id, u}
    BY <1>8 DEF RecordDelegatedResult
  <2>6. t = u => ~f.stale
    BY <1>4, <2>1 DEF FrameOk
  <2>7. retry => entry.id # t
    BY <2>5, <2>6
  <2>8. \A l \in Links : retries'[<<l, t>>] = retries[<<l, t>>]
    <3> HIDE DEF entry, retry, f
    <3> QED BY <2>5, <2>7 DEF TurnTypes
  <2> QED BY <1>1, <2>1, <2>2, <2>4, <2>8, HeardParts
<1> QED BY <1>5, <1>6, <1>7, <1>8 DEF Handle

(* While the views agree, a delegated reply passes the lease's gate a      *)
(* second time and is spoken.                                              *)
LEMMA ActingHeard ==
    ASSUME NEW t \in Turns, TurnTypes, HeardFor(t), view' = view, ~Fault,
           t \notin astray', NEW n \in Nodes, ActingStep(n)
    PROVE  HeardFor(t)'
<1> USE DEF HeardFor
<1>0. turn' = turn /\ results' = results /\ worker' = worker /\ retries' = retries
  BY DEF ActingStep, RunDelegated, ReportDelegated
<1>1. OwnOk(t)' /\ RetryOk(t)'
  BY <1>0, HeardParts
<1>2. acting[n] \in [id : Turns, from : Nodes, done : BOOLEAN] /\ acting[n] # None
  BY DEF ActingStep, RunDelegated, ReportDelegated, TurnTypes
<1>3. \A k \in Nodes \ {n} : acting'[k] = acting[k]
  BY DEF ActingStep, RunDelegated, ReportDelegated, TurnTypes
<1>4. ~Acts(n, t)'
  <2>1. acting'[n] = [acting[n] EXCEPT !.done = TRUE] \/ acting'[n] = None
    BY DEF ActingStep, RunDelegated, ReportDelegated, TurnTypes
  <2> QED BY <1>2, <2>1 DEF Acts
<1>5. ActsOk(t)'
  BY <1>3, <1>4 DEF ActsOk, Acts
<1>6. ~Acts(n, t) => (Acts(Origin[t], t) => Acts(Origin[t], t)')
  BY <1>3, TurnsAssumption DEF Acts
<1>7. ~Acts(n, t) /\ heard'[t] = heard[t] => (Told(t) => Told(t)')
  BY <1>6 DEF Told, Spoken
<1>8. /\ NetKept(t)
      /\ Told(t) => Told(t)'
      /\ Spoken(t) => Spoken(t)'
  <2>1. CASE RunDelegated(n)
    <3> DEFINE u == acting[n].id
    <3>1. u \in Turns /\ (Acts(n, t) <=> t = u)
      BY <1>2, <2>1 DEF RunDelegated, Acts
    <3>2. t = u => MayAct(n)
      BY <2>1, <3>1 DEF ActsOk, MayAct, RunDelegated
    <3>3. SpeakNearest(n, u) \/ (UNCHANGED <<net, heard>> /\ t # u)
      BY <2>1, <3>2 DEF RunDelegated
    <3> HIDE DEF u
    <3>4. CASE SpeakNearest(n, u)
      BY <1>7, <3>1, <3>4, SpeakHeard
    <3>5. CASE UNCHANGED <<net, heard>> /\ t # u
      BY <1>7, <3>1, <3>5, NetStays, HeardParts
    <3> QED BY <3>3, <3>4, <3>5
  <2>2. CASE ReportDelegated(n)
    <3> DEFINE g == DelegateResult(acting[n].id, FALSE)
    <3>1. ~Acts(n, t) /\ heard'[t] = heard[t]
      BY <2>2 DEF ReportDelegated, Acts
    <3>2. net' = Queued(net, n, acting[n].from, g)
      BY <2>2 DEF ReportDelegated, ReplyTo
    <3>3. g \in Frames
      BY <1>2, BuiltFrames
    <3>4. FrameOk(g, <<n, acting[n].from>>, t,
                  Told(t)' \/ AskedBefore(net, t, Len(net[Way(t)]) + 1))
      BY DEF FrameOk, DelegateResult
    <3> HIDE DEF g
    <3> QED BY <1>7, <3>1, <3>2, <3>3, <3>4, NetStays, HeardParts
  <2> QED BY <2>1, <2>2 DEF ActingStep
<1> QED BY <1>0, <1>1, <1>5, <1>8, HeardParts

(* A retry is always about a turn that went astray. *)
LEMMA RetryHeard ==
    ASSUME NEW t \in Turns, TurnTypes, HeardFor(t), view' = view, ~Fault,
           NEW m \in Nodes, NEW n \in Nodes, m # n, NEW u \in Turns, Retry(m, n, u)
    PROVE  HeardFor(t)'
<1> USE DEF HeardFor
<1>1. turn' = turn /\ results' = results /\ worker' = worker /\ acting' = acting
  BY DEF Retry
<1>2. t # u
  BY DEF RetryOk, Sleeps, Retry, Links
<1>3. Delegate(m, n, u)
  BY DEF Retry
<1>4. heard'[t] = heard[t]
  BY <1>3 DEF Delegate
<1>5. OwnOk(t)' /\ EndOk(t)' /\ ActsOk(t)' /\ (Told(t) => Told(t)')
  BY <1>1, <1>4, HeardParts
<1>6. NetKept(t)
  BY <1>2, <1>3, <1>5, DelegateHeard
<1>7. \A l \in Links : retries'[<<l, t>>] = retries[<<l, t>>]
  BY <1>2 DEF Retry, TurnTypes
<1> QED BY <1>1, <1>5, <1>6, <1>7, HeardParts

(* A step without a fault keeps the views, and what is known of each turn  *)
(* that is not astray; after a fault nothing is claimed.                   *)
LEMMA StepHeard ==
    ASSUME TurnTypes, HeardInv, [Next]_vars
    PROVE  HeardInv'
<1>1. faults' \in {faults, faults + 1} /\ (Fault => faults' = faults + 1)
  <2>1. ASSUME NEW c, NEW a, NEW b, NEW f, ReplyTo(c, a, b, f) PROVE NoFault \/ Fault
    BY <2>1 DEF ReplyTo
  <2>2. ASSUME NEW n, NEW u, SpeakNearest(n, u) PROVE NoFault \/ Fault
    BY <2>2 DEF SpeakNearest, Say, Delegate
  <2>3. ASSUME NEW u \in Turns, OriginStep(u) PROVE NoFault \/ Fault
    BY <2>2, <2>3 DEF OriginStep, TakeTurn, WaitEnds, TimeOut, AnswerHere, NoFault
  <2>4. ASSUME NEW u \in Turns, WorkerStep(u) PROVE NoFault \/ Fault
    <3>1. CASE AnswerForwardedTurn(u)
      BY <3>1, WorkerAnswers DEF Say, Delegate
    <3> QED BY <2>1, <2>4, <3>1 DEF WorkerStep, ReportTurn
  <2>5. ASSUME NEW m \in Nodes, NEW n \in Nodes, Handle(m, n) PROVE NoFault \/ Fault
    BY <2>1, <2>5 DEF Handle, HandleTurn, RecordTurnResult, HandleDelegated,
                      RecordDelegatedResult, NoFault
  <2>6. ASSUME NEW m \in Nodes, NEW n \in Nodes, NEW u \in Turns, Retry(m, n, u)
        PROVE  NoFault \/ Fault
    BY <2>6 DEF Retry, Delegate
  <2>7. ASSUME NEW n \in Nodes, ActingStep(n) \/ LeaseMoves(n) PROVE NoFault \/ Fault
    BY <2>1, <2>2, <2>7 DEF ActingStep, RunDelegated, ReportDelegated, LeaseMoves
  <2>8. ASSUME NEW l \in Links, ConnectionBreaks(l) PROVE NoFault \/ Fault
    BY <2>8 DEF ConnectionBreaks
  <2>9. CASE UNCHANGED vars
    BY <2>9 DEF vars, Fault
  <2>10. CASE NoFault \/ Fault
    BY <2>10 DEF NoFault, Fault
  <2> QED
    BY <2>3, <2>4, <2>5, <2>6, <2>7, <2>8, <2>9, <2>10 DEF Next
<1>2. faults' \in Nat
  BY <1>1 DEF HeardInv
<1> SUFFICES ASSUME faults' = 0
             PROVE  /\ \A m, n \in Nodes : view'[m] = view'[n]
                    /\ \A t \in Turns \ astray' : HeardFor(t)'
  BY <1>2 DEF HeardInv
<1>3. faults = 0 /\ ~Fault
  BY <1>1 DEF HeardInv
<1>4. view' = view
  <2>1. ASSUME NEW u \in Turns, OriginStep(u) \/ WorkerStep(u) PROVE view' = view
    BY <2>1 DEF OriginStep, TakeTurn, WaitEnds, TimeOut, AnswerHere, WorkerStep,
                AnswerForwardedTurn, ReportTurn
  <2>2. ASSUME NEW m \in Nodes, NEW n \in Nodes, Handle(m, n) PROVE view' = view
    BY <2>2 DEF Handle, HandleTurn, RecordTurnResult, HandleDelegated, RecordDelegatedResult
  <2>3. ASSUME NEW m \in Nodes, NEW n \in Nodes, NEW u \in Turns, Retry(m, n, u)
        PROVE  view' = view
    BY <2>3 DEF Retry
  <2>4. ASSUME NEW n \in Nodes, ActingStep(n) \/ LeaseMoves(n) PROVE view' = view
    BY <1>3, <2>4 DEF ActingStep, RunDelegated, ReportDelegated, LeaseMoves
  <2>5. ASSUME NEW l \in Links, ConnectionBreaks(l) PROVE view' = view
    BY <2>5 DEF ConnectionBreaks
  <2> QED BY <2>1, <2>2, <2>3, <2>4, <2>5 DEF Next, vars
<1>5. \A m, n \in Nodes : view[m] = view[n]
  BY <1>3 DEF HeardInv
<1>6. ASSUME NEW t \in Turns, t \notin astray' PROVE HeardFor(t)'
  <2>1. HeardFor(t)
    BY <1>3, <1>6, StillExcused DEF HeardInv
  <2>2. ASSUME NEW u \in Turns, OriginStep(u) PROVE HeardFor(t)'
    BY <1>3, <1>4, <1>6, <2>1, <2>2, OriginHeard
  <2>3. ASSUME NEW u \in Turns, WorkerStep(u) PROVE HeardFor(t)'
    BY <1>3, <1>4, <1>5, <1>6, <2>1, <2>3, WorkerHeard
  <2>4. ASSUME NEW m \in Nodes, NEW n \in Nodes, m # n, Handle(m, n) PROVE HeardFor(t)'
    BY <1>3, <1>4, <1>5, <1>6, <2>1, <2>4, HandleHeard
  <2>5. ASSUME NEW m \in Nodes, NEW n \in Nodes, m # n, NEW u \in Turns, Retry(m, n, u)
        PROVE  HeardFor(t)'
    BY <1>3, <1>4, <2>1, <2>5, RetryHeard
  <2>6. ASSUME NEW n \in Nodes, ActingStep(n) PROVE HeardFor(t)'
    BY <1>3, <1>4, <1>6, <2>1, <2>6, ActingHeard
  <2>7. ASSUME NEW n \in Nodes, LeaseMoves(n) PROVE FALSE
    BY <1>3, <2>7 DEF LeaseMoves
  <2>8. ASSUME NEW l \in Links, ConnectionBreaks(l) PROVE FALSE
    BY <1>3, <2>8 DEF ConnectionBreaks
  <2>9. CASE UNCHANGED vars
    <3>1. /\ turn' = turn /\ results' = results /\ worker' = worker /\ acting' = acting
          /\ retries' = retries /\ heard' = heard /\ net' = net
      BY <2>9 DEF vars
    <3>2. Told(t) => Told(t)'
      BY <1>4, <2>1, <3>1, HeardParts
    <3>3. NetKept(t)
      BY <2>1, <3>1, <3>2, NetStays DEF HeardFor
    <3> QED BY <1>4, <2>1, <3>1, <3>2, <3>3, HeardParts DEF HeardFor
  <2> QED BY <2>2, <2>3, <2>4, <2>5, <2>6, <2>7, <2>8, <2>9 DEF Next
<1> QED BY <1>4, <1>5, <1>6

(* Until the first fault, the reply to a turn that did not go astray is    *)
(* asked for ahead of the outcome on the connection of both, and neither   *)
(* is refused.                                                             *)
THEOREM HeardInvariant == Spec => []HeardInv
<1>1. ASSUME Init PROVE HeardInv
  <2>1. \A m, n \in Nodes : view[m] = view[n]
    BY <1>1 DEF Init
  <2>2. ASSUME NEW t \in Turns PROVE HeardFor(t)
    <3>1. OwnOk(t) /\ EndOk(t) /\ WorkerOk(t) /\ ActsOk(t)
      BY <1>1, TurnsAssumption DEF Init, OwnOk, EndOk, WorkerOk, ActsOk, Acts
    <3>2. \A l \in Links : retries[<<l, t>>] = 0 /\ Len(net[l]) = 0
      BY <1>1 DEF Init
    <3>3. RetryOk(t)
      BY <3>2 DEF RetryOk, Sleeps
    <3>4. FramesOk(net, t, Told(t))
      <4>1. ASSUME NEW l \in Links, NEW i \in 1 .. Len(net[l]) PROVE FALSE
        <5>1. i \in 1 .. 0
          BY <3>2
        <5> QED BY <5>1
      <4> QED BY <4>1 DEF FramesOk
    <3> QED BY <3>1, <3>3, <3>4 DEF HeardFor
  <2> QED BY <1>1, <2>1, <2>2 DEF Init, HeardInv
<1> QED BY <1>1, StepHeard, TurnsAreTyped, PTL DEF Spec

(* A thread that is done with a turn, because it answered or took the      *)
(* primary's word for it, leaves a user who has heard the answer, and once *)
(* unless the wait timed out: as long as no fault happened and the reply   *)
(* was not routed to another device.                                       *)
THEOREM DoneMeansHeard == Spec => []AnswerIsHeard
<1>1. TurnTypes /\ HeardInv /\ MouthInv => AnswerIsHeard
  <2> SUFFICES ASSUME TurnTypes, HeardInv, MouthInv, NEW t \in Turns,
                      turn[t] \in {"handed", "over"}, faults = 0, t \notin astray
               PROVE  heard[t] # << >> /\ (t \notin timedOut => Len(heard[t]) = 1)
    BY DEF AnswerIsHeard
  <2>1. heard[t] # << >>
    BY DEF HeardInv, HeardFor, EndOk, Spoken
  <2>2. t \notin timedOut => Len(heard[t]) <= 1
    BY DEF MouthInv, OnlyAt, Once, Excused
  <2>3. heard[t] \in Seq(Nodes)
    BY DEF TurnTypes
  <2>4. Len(heard[t]) \in Nat /\ Len(heard[t]) # 0
    BY <2>1, <2>3
  <2>5. ASSUME t \notin timedOut PROVE Len(heard[t]) = 1
    <3> DEFINE k == Len(heard[t])
    <3>1. k \in Nat /\ k # 0 /\ k <= 1
      BY <2>2, <2>4, <2>5
    <3> HIDE DEF k
    <3>2. k = 1
      BY <3>1
    <3> QED BY <3>2 DEF k
  <2> QED BY <2>1, <2>5
<1> QED BY <1>1, HeardInvariant, MouthInvariant, TurnsAreTyped, PTL
=============================================================================
