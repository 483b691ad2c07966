--------------------------- MODULE ForwardedTurns ---------------------------
(***************************************************************************)
(* Who answers a user's turn in a hive (shugocore_agent.py).  A node that  *)
(* does not hold the lease sends a turn it is given to the node that does  *)
(* and waits for the outcome; the primary decides on a worker thread and   *)
(* has the reply spoken at the origin by a delegated action; the origin    *)
(* answers by itself when the hand-off fails.  Each node goes by its own   *)
(* view of the lease (election.tick(), module MeshElection), and a node    *)
(* handles the frames of one peer in the order they were sent.             *)
(*                                                                         *)
(* The text of a reply is the turn it answers.  What a device's speaker,   *)
(* the model and the proximity scores say are inputs.                      *)
(***************************************************************************)
EXTENDS Naturals, Sequences

CONSTANTS
    Nodes,       \* the nodes of the hive
    Nobody,      \* "no primary"
    None,        \* no entry, no thread, no action
    Turns,       \* the user turns, which identify requests and replies
    Origin,      \* turn -> the node it was taken at
    MaxFaults,   \* bound on lease changes, lost frames and speaker failures
    MaxSends     \* bound on the delegations of one reply

ASSUME TurnsAssumption ==
    /\ Nobody \notin Nodes
    /\ None \notin {"answered", "refused", "error"}
    /\ None \notin [id : Turns, from : Nodes, done : BOOLEAN]
    /\ Origin \in [Turns -> Nodes]
    /\ MaxFaults \in Nat /\ MaxSends \in Nat

VARIABLES
    view,      \* per node: the primary its election names
    net,       \* per pair of nodes: the frames in flight, oldest first
    turn,      \* per turn: where the origin's thread stands
    waiters,   \* turns with an entry in waiters
    results,   \* per turn: its entry in results, None when there is none
    worker,    \* per turn: the thread of _answer_forwarded_turn
    acting,    \* per node: the delegated action it is running
    pending,   \* per pair of nodes: the entry of _delegated_pending
    retries,   \* per pair of nodes and turn: sleeping retry threads
    faults,    \* faults so far
    heard,     \* history: per turn, the nodes that spoke its reply, in order
    sends,     \* history: per turn, delegations of its reply
    timedOut,  \* history: turns whose wait ended without an outcome
    astray     \* history: turns whose reply went to another device, or whose
               \* refusal was mistaken for another's

vars == <<view, net, turn, waiters, results, worker, acting, pending, retries,
          faults, heard, sends, timedOut, astray>>

Links == {l \in Nodes \X Nodes : l[1] # l[2]}

(* A hive that agrees on its primary, or on having none. *)
Init ==
    /\ \E leader \in Nodes \cup {Nobody} : view = [n \in Nodes |-> leader]
    /\ net = [l \in Links |-> << >>]
    /\ turn = [t \in Turns |-> "new"]
    /\ waiters = {} /\ results = [t \in Turns |-> None]
    /\ worker = [t \in Turns |-> None]
    /\ acting = [n \in Nodes |-> None]
    /\ pending = [l \in Links |-> None]
    /\ retries = [r \in Links \X Turns |-> 0]
    /\ faults = 0
    /\ heard = [t \in Turns |-> << >>]
    /\ sends = [t \in Turns |-> 0]
    /\ timedOut = {} /\ astray = {}

-----------------------------------------------------------------------------
(* A fault is bounded; an action without one leaves the counter alone. *)
Fault   == faults < MaxFaults /\ faults' = faults + 1
NoFault == UNCHANGED faults

Queued(channels, from, to, frame) ==
    [channels EXCEPT ![<<from, to>>] = Append(@, frame)]

(* _mesh_reply is best effort: the frame goes out or is lost. *)
ReplyTo(channels, from, to, frame) ==
    \/ net' = Queued(channels, from, to, frame) /\ NoFault
    \/ net' = channels /\ Fault

(* _turn_primary and the lease part of _mesh_may_act. *)
Decides(n) == view[n] \in {Nobody, n}

(* _delegated_from is one attribute of the agent: whichever thread asks    *)
(* while a delegated action runs is taken for that action.                 *)
MayAct(n) ==
    \/ Decides(n)
    \/ acting[n] # None /\ ~acting[n].done /\ acting[n].from = view[n]

(* The speaker says it, or fails. *)
Say(n, t) ==
    /\ \/ heard' = [heard EXCEPT ![t] = Append(@, n)] /\ NoFault
       \/ UNCHANGED heard /\ Fault
    /\ UNCHANGED <<net, pending, sends, astray>>

(* _mesh_delegate: the frame is sent and the payload kept for a retry,     *)
(* with the attempt counter at zero, which nothing ever sets.  The answer  *)
(* is taken to come after both.                                            *)
Delegate(n, peer, t) ==
    /\ sends[t] < MaxSends
    /\ net' = Queued(net, n, peer, [kind |-> "delegate", id |-> t])
    /\ pending' = [pending EXCEPT ![<<n, peer>>] = [id |-> t, attempt |-> 0]]
    /\ sends' = [sends EXCEPT ![t] = @ + 1]
    /\ NoFault
    /\ UNCHANGED heard

(* _execute_speak past its gate, with no turn to prefer: the device that   *)
(* looks closest to the operator, which may be another one; a route that   *)
(* fails is spoken here.                                                   *)
SpeakNearest(n, t) ==
    \/ Say(n, t)
    \/ \E peer \in Nodes \ {n} :
         /\ Delegate(n, peer, t)
         /\ astray' = astray \cup {t}

-----------------------------------------------------------------------------
(* handle_transcript up to _forward_turn's send: a node that decides does  *)
(* so; any other registers a waiter and then sends the turn.               *)
TakeTurn(t) ==
    LET n == Origin[t] IN
    /\ turn[t] = "new"
    /\ \/ /\ Decides(n)
          /\ turn' = [turn EXCEPT ![t] = "own"]
          /\ NoFault
          /\ UNCHANGED <<net, waiters>>
       \/ /\ ~Decides(n)
          /\ waiters' = waiters \cup {t}
          /\ net' = Queued(net, n, view[n], [kind |-> "turn", id |-> t])
          /\ turn' = [turn EXCEPT ![t] = "waiting"]
          /\ NoFault
       \/ /\ ~Decides(n)
          /\ Fault
          /\ turn' = [turn EXCEPT ![t] = "fallback"]
          /\ UNCHANGED <<net, waiters>>
    /\ UNCHANGED <<view, results, worker, acting, pending, retries, heard, sends,
                   timedOut, astray>>

(* The rest of _forward_turn: the wait ends with an outcome or without. *)
Collected(t) ==
    /\ waiters' = waiters \ {t}
    /\ results' = [results EXCEPT ![t] = None]

(* Faulty: an outcome is taken for a refusal whatever it says. *)
WaitEndsUnread(t) ==
    /\ turn[t] = "waiting"
    /\ results[t] # None
    /\ turn' = [turn EXCEPT ![t] = "fallback"]
    /\ Collected(t)
    /\ UNCHANGED <<view, net, worker, acting, pending, retries, faults, heard,
                   sends, timedOut, astray>>

WaitEnds(t) ==
    /\ turn[t] = "waiting"
    /\ results[t] # None
    /\ turn' = [turn EXCEPT ![t] = IF results[t] = "answered" THEN "handed"
                                                              ELSE "fallback"]
    /\ Collected(t)
    /\ UNCHANGED <<view, net, worker, acting, pending, retries, faults, heard,
                   sends, timedOut, astray>>

(* Faulty: the waiter is not removed when its wait times out, or the wait  *)
(* has no timeout.                                                         *)
TimeOutKeeping(t) ==
    /\ turn[t] = "waiting"
    /\ results[t] = None
    /\ turn' = [turn EXCEPT ![t] = "fallback"]
    /\ timedOut' = timedOut \cup {t}
    /\ UNCHANGED <<view, net, waiters, results, worker, acting, pending, retries,
                   faults, heard, sends, astray>>

TimeOutNever(t) ==
    /\ turn[t] = "waiting"
    /\ FALSE
    /\ UNCHANGED vars

TimeOut(t) ==
    /\ turn[t] = "waiting"
    /\ results[t] = None
    /\ turn' = [turn EXCEPT ![t] = "fallback"]
    /\ timedOut' = timedOut \cup {t}
    /\ Collected(t)
    /\ UNCHANGED <<view, net, worker, acting, pending, retries, faults, heard,
                   sends, astray>>

(* The origin answers: a device-local text or the fallback line through    *)
(* _speak_direct, a decision of the model through _execute_speak, whose    *)
(* route may fail.  Both are gated by the lease or by the permission the   *)
(* failed hand-off gave this thread.                                       *)
AnswerHere(t) ==
    LET n == Origin[t] IN
    /\ turn[t] \in {"own", "fallback"}
    /\ turn' = [turn EXCEPT ![t] = "over"]
    /\ IF MayAct(n) \/ turn[t] = "fallback"
       THEN SpeakNearest(n, t)
       ELSE NoFault /\ UNCHANGED <<net, pending, heard, sends, astray>>
    /\ UNCHANGED <<view, waiters, results, worker, acting, retries, timedOut>>

-----------------------------------------------------------------------------
(* A node handles the frames of a peer one after the other; a delegated    *)
(* action holds up the frames behind it (the faulty variant lets them      *)
(* pass).  One action is run at a time, so it also holds up those of other *)
(* peers, each of which has a thread of its own in the code.               *)
ReceivesAtOnce(m, n, kind) ==
    /\ net[<<m, n>>] # << >>
    /\ Head(net[<<m, n>>]).kind = kind

Receives(m, n, kind) ==
    /\ acting[n] = None
    /\ net[<<m, n>>] # << >>
    /\ Head(net[<<m, n>>]).kind = kind

Rest(m, n) == [net EXCEPT ![<<m, n>>] = Tail(@)]

(* _handle_forwarded_turn: refused by a node that does not decide. *)
HandleTurn(m, n) ==
    /\ Receives(m, n, "turn")
    /\ LET t == Head(net[<<m, n>>]).id IN
       IF Decides(n)
       THEN /\ worker' = [worker EXCEPT ![t] = [at |-> n, status |-> "deciding"]]
            /\ net' = Rest(m, n)
            /\ NoFault
       ELSE /\ ReplyTo(Rest(m, n), n, m,
                       [kind |-> "turn_result", id |-> t, status |-> "refused"])
            /\ UNCHANGED worker
    /\ UNCHANGED <<view, turn, waiters, results, acting, pending, retries, heard,
                   sends, timedOut, astray>>

Finish(t, status) == worker' = [worker EXCEPT ![t].status = status]

(* _route_response of a forwarded turn: the reply goes to the origin, or,  *)
(* when that is not known to have a speaker, to the closest other device.  *)
Route(t, peer) ==
    /\ Delegate(worker[t].at, peer, t)
    /\ astray' = IF peer = Origin[t] THEN astray ELSE astray \cup {t}

(* _deliver_forwarded_reply: the proposed text is said at the origin, or   *)
(* reported as not delivered, which it also is when another device was     *)
(* asked to say it.                                                        *)
RelayProposal(t) ==
    \/ \E peer \in Nodes \ {worker[t].at} :
         /\ Route(t, peer)
         /\ Finish(t, IF peer = Origin[t] THEN "answered" ELSE "error")
    \/ /\ Finish(t, "error")
       /\ Fault
       /\ UNCHANGED <<net, pending, heard, sends, astray>>

(* _conversational_turn for somebody else's turn: the decision is spoken   *)
(* where it is routed, or here when it cannot be sent or is unusable, or   *)
(* nowhere when this node has lost the lease.  All count as answered; an   *)
(* exception before the decision does not.                                 *)
DecideTurn(t) ==
    LET n == worker[t].at IN
    \/ /\ Finish(t, "answered")
       /\ \/ MayAct(n) /\ \E peer \in Nodes \ {n} : Route(t, peer)
          \/ MayAct(n) /\ Say(n, t)
          \/ ~MayAct(n) /\ NoFault /\ UNCHANGED <<net, pending, heard, sends, astray>>
    \/ /\ Finish(t, "error")
       /\ NoFault
       /\ UNCHANGED <<net, pending, heard, sends, astray>>

AnswerForwardedTurn(t) ==
    /\ worker[t] # None /\ worker[t].status = "deciding"
    /\ RelayProposal(t) \/ DecideTurn(t)
    /\ UNCHANGED <<view, turn, waiters, results, acting, retries, timedOut>>

ReportTurn(t) ==
    /\ worker[t] # None /\ worker[t].status # "deciding"
    /\ ReplyTo(net, worker[t].at, Origin[t],
               [kind |-> "turn_result", id |-> t, status |-> worker[t].status])
    /\ worker' = [worker EXCEPT ![t] = None]
    /\ UNCHANGED <<view, turn, waiters, results, acting, pending, retries, heard,
                   sends, timedOut, astray>>

RecordTurnResult(m, n) ==
    /\ Receives(m, n, "turn_result")
    /\ LET f == Head(net[<<m, n>>]) IN
       results' = IF f.id \in waiters THEN [results EXCEPT ![f.id] = f.status]
                                      ELSE results
    /\ net' = Rest(m, n)
    /\ UNCHANGED <<view, turn, waiters, worker, acting, pending, retries, faults,
                   heard, sends, timedOut, astray>>

-----------------------------------------------------------------------------
DelegateResult(t, stale) ==
    [kind |-> "delegate_result", id |-> t, stale |-> stale]

(* _handle_delegated_action: only the primary in this node's own view may  *)
(* direct it.                                                              *)
HandleDelegated(m, n) ==
    /\ Receives(m, n, "delegate")
    /\ LET t == Head(net[<<m, n>>]).id IN
       IF view[n] = m
       THEN /\ acting' = [acting EXCEPT ![n] = [id |-> t, from |-> m, done |-> FALSE]]
            /\ net' = Rest(m, n)
            /\ NoFault
       ELSE /\ ReplyTo(Rest(m, n), n, m, DelegateResult(t, TRUE))
            /\ UNCHANGED acting
    /\ UNCHANGED <<view, turn, waiters, results, worker, pending, retries, heard,
                   sends, timedOut, astray>>

(* _execute_speak on behalf of the primary: the gate looks at the lease    *)
(* again, and the route does not know that this is the turn's origin.      *)
RunDelegated(n) ==
    /\ acting[n] # None /\ ~acting[n].done
    /\ IF MayAct(n)
       THEN SpeakNearest(n, acting[n].id)
       ELSE NoFault /\ UNCHANGED <<net, pending, heard, sends, astray>>
    /\ acting' = [acting EXCEPT ![n].done = TRUE]
    /\ UNCHANGED <<view, turn, waiters, results, worker, retries, timedOut>>

ReportDelegated(n) ==
    /\ acting[n] # None /\ acting[n].done
    /\ ReplyTo(net, n, acting[n].from, DelegateResult(acting[n].id, FALSE))
    /\ acting' = [acting EXCEPT ![n] = None]
    /\ UNCHANGED <<view, turn, waiters, results, worker, pending, retries, heard,
                   sends, timedOut, astray>>

(* _record_delegated_result and _retry_delegation_if_stale: a refusal for  *)
(* the lease has whatever was last delegated to that peer sent again.      *)
RecordDelegatedResult(m, n) ==
    /\ Receives(m, n, "delegate_result")
    /\ net' = Rest(m, n)
    /\ LET f == Head(net[<<m, n>>])
           entry == pending[<<n, m>>]
           retry == f.stale /\ entry # None /\ entry.attempt < 2
           drop  == f.stale /\ entry # None /\ entry.attempt >= 2
       IN /\ pending' = IF retry
                        THEN [pending EXCEPT ![<<n, m>>].attempt = @ + 1]
                        ELSE IF drop THEN [pending EXCEPT ![<<n, m>>] = None]
                        ELSE pending
          /\ retries' = IF retry
                        THEN [retries EXCEPT ![<<<<n, m>>, entry.id>>] = @ + 1]
                        ELSE retries
          /\ astray' = IF retry /\ entry.id # f.id
                       THEN astray \cup {entry.id, f.id} ELSE astray
    /\ UNCHANGED <<view, turn, waiters, results, worker, acting, faults, heard,
                   sends, timedOut>>

(* The retry thread wakes up and delegates again, or fails to. *)
Retry(n, peer, t) ==
    /\ retries[<<<<n, peer>>, t>>] > 0
    /\ retries' = [retries EXCEPT ![<<<<n, peer>>, t>>] = @ - 1]
    /\ \/ Delegate(n, peer, t)
       \/ Fault /\ UNCHANGED <<net, pending, heard, sends>>
    /\ UNCHANGED <<view, turn, waiters, results, worker, acting, timedOut, astray>>

-----------------------------------------------------------------------------
(* The lease moves in one node's view; a connection breaks and the frames  *)
(* on it are lost.                                                         *)
LeaseMoves(n) ==
    /\ Fault
    /\ \E leader \in (Nodes \cup {Nobody}) \ {view[n]} :
         view' = [view EXCEPT ![n] = leader]
    /\ UNCHANGED <<net, turn, waiters, results, worker, acting, pending, retries,
                   heard, sends, timedOut, astray>>

ConnectionBreaks(l) ==
    /\ net[l] # << >>
    /\ Fault
    /\ net' = [net EXCEPT ![l] = << >>]
    /\ UNCHANGED <<view, turn, waiters, results, worker, acting, pending, retries,
                   heard, sends, timedOut, astray>>

OriginStep(t) == TakeTurn(t) \/ WaitEnds(t) \/ TimeOut(t) \/ AnswerHere(t)

WorkerStep(t) == AnswerForwardedTurn(t) \/ ReportTurn(t)

Handle(m, n) ==
    \/ HandleTurn(m, n) \/ RecordTurnResult(m, n)
    \/ HandleDelegated(m, n) \/ RecordDelegatedResult(m, n)

ActingStep(n) == RunDelegated(n) \/ ReportDelegated(n)

Next ==
    \/ \E t \in Turns : OriginStep(t) \/ WorkerStep(t)
    \/ \E m, n \in Nodes : m # n /\ (Handle(m, n) \/ \E t \in Turns : Retry(m, n, t))
    \/ \E n \in Nodes : ActingStep(n) \/ LeaseMoves(n)
    \/ \E l \in Links : ConnectionBreaks(l)

Spec == Init /\ [][Next]_vars

(* The thread that took a turn goes on: its wait is timed, and nothing     *)
(* else in it blocks.                                                      *)
FairSpec == Spec /\ \A t \in Turns : WF_vars(OriginStep(t))

-----------------------------------------------------------------------------
(* waiters and results are "bounded by collection" (_turn_state): an entry *)
(* belongs to a thread that is still waiting, so that a late result, one   *)
(* for a turn already answered here, or one that was never collected       *)
(* leaves nothing behind.                                                  *)
ResultsAreCollected ==
    \A t \in Turns : /\ t \in waiters <=> turn[t] = "waiting"
                     /\ results[t] # None => t \in waiters

(* When the origin's thread is done with a turn, because it answered or    *)
(* took the primary's word that it had, the answer has been spoken, and    *)
(* exactly once unless its wait timed out: the delegated speak travels     *)
(* ahead of the outcome on the same connection and is run before the       *)
(* outcome is read.  The exceptions are lease changes, losses, speakers    *)
(* that fail, and a reply that is routed to another device.                *)
AnswerIsHeard ==
    \A t \in Turns :
        turn[t] \in {"handed", "over"} /\ faults = 0 /\ t \notin astray =>
            /\ heard[t] # << >>
            /\ t \notin timedOut => Len(heard[t]) = 1

(* "One decision, one mouth": a turn is spoken twice only if the origin    *)
(* gave up waiting for the primary, its reply was routed to another        *)
(* device, or a refusal made another reply than the refused one go out     *)
(* again.                                                                  *)
SecondMouthHasACause ==
    \A t \in Turns : Len(heard[t]) > 1 => t \in timedOut \cup astray

(* Nobody waits for ever on a primary that does not answer: each turn ends *)
(* as handed over or answered here.                                        *)
TurnEnds == \A t \in Turns : <>(turn[t] \in {"handed", "over"})

(* "One decision, one mouth" (shugocore_agent.py, TURN_TOPIC): a turn is   *)
(* never answered twice.                                                   *)
OneMouth == \A t \in Turns : Len(heard[t]) <= 1
=============================================================================
