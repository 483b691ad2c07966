---------------------------- MODULE MeshElection ----------------------------
(***************************************************************************)
(* The primary election of mesh_election.py run by every node of a fleet:  *)
(* each node advertises itself in heartbeats, keeps a record of the last   *)
(* advertisement heard from each peer (and from itself), and elects the    *)
(* best-ranked live candidate at each tick.  Links are FIFO streams that   *)
(* may lose or repeat a frame; a node may restart, lose its headroom or    *)
(* overheat.  Node identifiers are numbers, ordered as the strings are.    *)
(* observe_heartbeat compares sequence numbers for equality only (a lower  *)
(* and a higher one are both recorded), so they are kept modulo SeqMod.    *)
(***************************************************************************)
EXTENDS Naturals, Sequences

CONSTANTS
    Nodes,      \* node identifiers
    Priority,   \* configured priority of each node, lower is better
    Followers,  \* nodes configured with role "follower"
    SeqMod,     \* bound: sequence numbers wrap here
    LinkRoom,   \* bound: frames in transit on a link
    MaxFaults   \* bound: lost or repeated frames, lapses, restarts, ...

ASSUME NodesAssumption == Nodes \subseteq Nat \ {0}

ASSUME PriorityAssumption == Priority \in [Nodes -> Nat]

ASSUME SeqModAssumption == SeqMod \in Nat \ {0}

VARIABLES
    fit,      \* per node: paired, cool and with headroom
    seq,      \* per node: _seq
    view,     \* per node and peer: the entry in _nodes
    link,     \* per pair: heartbeats in transit
    primary,  \* per node: _primary_id, None before the first winner
    noted,    \* per node: _disagreement_seen, (peer, its claim, our winner)
    cand,     \* history: per node, the candidates of its last tick
    faults    \* faults the environment may still cause

vars == <<fit, seq, view, link, primary, noted, cand, faults>>

None == 0

Claims == Nodes \cup {None}

Unknown == [known |-> FALSE, seq |-> 0, fit |-> FALSE, claim |-> None,
            live |-> FALSE]

Init ==
    /\ fit \in [Nodes -> BOOLEAN]
    /\ seq = [n \in Nodes |-> 0]
    /\ view = [n \in Nodes |-> [m \in Nodes |-> Unknown]]
    /\ link = [n \in Nodes |-> [m \in Nodes |-> << >>]]
    /\ primary = [n \in Nodes |-> None]
    /\ noted = [n \in Nodes |-> {}]
    /\ cand = [n \in Nodes |-> {}]
    /\ faults = MaxFaults

-----------------------------------------------------------------------------
(* The environment uses up one of its faults. *)
Fault == faults > 0 /\ faults' = faults - 1

(* _rank: role, then priority, then identifier; a total order. *)
RoleRank(n) == IF n \in Followers THEN 1 ELSE 0

(* Faulty: ranks compare priorities only, so that equal ones are mutually  *)
(* non-deposable.                                                          *)
OutranksByPriority(a, b) ==
    \/ RoleRank(a) < RoleRank(b)
    \/ RoleRank(a) = RoleRank(b) /\ Priority[a] < Priority[b]

Outranks(a, b) ==
    \/ RoleRank(a) < RoleRank(b)
    \/ /\ RoleRank(a) = RoleRank(b)
       /\ \/ Priority[a] < Priority[b]
          \/ Priority[a] = Priority[b] /\ a < b

(* _live_candidates: known, heard within the timeout, and eligible. *)
Candidates(n) ==
    {m \in Nodes : view[n][m].known /\ view[n][m].live /\ view[n][m].fit}

(* The first of the candidates sorted by rank. *)
IsBest(b, S) == b \in S /\ \A c \in S : ~Outranks(c, b)

(* observe_heartbeat: a repeated sequence number renews the lease of the   *)
(* record without rewriting it, any other replaces the record.             *)
Observed(entry, hb) ==
    IF entry.known /\ entry.seq = hb.seq
    THEN [entry EXCEPT !.live = TRUE]
    ELSE [known |-> TRUE, seq |-> hb.seq, fit |-> hb.fit,
          claim |-> hb.claim, live |-> TRUE]

Hears(n, m, hb) == view' = [view EXCEPT ![n][m] = Observed(view[n][m], hb)]

(* local_heartbeat: observed by the node itself and sent to every peer;    *)
(* the send waits while a stream is full.                                  *)
LocalHeartbeat(n) ==
    LET next == (seq[n] % SeqMod) + 1
        hb == [seq |-> next, fit |-> fit[n], claim |-> primary[n]]
    IN /\ \A m \in Nodes : Len(link[n][m]) < LinkRoom
       /\ seq' = [seq EXCEPT ![n] = next]
       /\ Hears(n, n, hb)
       /\ link' = [link EXCEPT ![n] = [m \in Nodes |->
                     IF m = n THEN link[n][m] ELSE Append(link[n][m], hb)]]
       /\ UNCHANGED <<fit, primary, noted, cand, faults>>

ObserveHeartbeat(n, m) ==
    /\ link[m][n] # << >>
    /\ Hears(n, m, Head(link[m][n]))
    /\ \/ link' = [link EXCEPT ![m][n] = Tail(link[m][n])] /\ UNCHANGED faults
       \/ UNCHANGED link /\ Fault      \* the frame will arrive once more
    /\ UNCHANGED <<fit, seq, primary, noted, cand>>

(* tick: the best candidate; a holder that is itself a candidate and is    *)
(* not outranked keeps the lease.                                          *)
Winner(n, best) ==
    IF primary[n] \in Candidates(n) /\ ~Outranks(best, primary[n])
    THEN primary[n] ELSE best

(* _note_disagreement: the candidates that claim another primary. *)
Disagreements(n, winner) ==
    {<<m, view[n][m].claim, winner>> : m \in {c \in Candidates(n) \ {n} :
        view[n][c].claim \notin {None, winner}}}

(* Faulty: a tick without candidates leaves the lease where it was. *)
ElectKeepingLease(n, winner) ==
    /\ primary' = [primary EXCEPT ![n] = IF winner = None THEN @ ELSE winner]
    /\ noted' = [noted EXCEPT ![n] =
                   IF winner = None THEN @ ELSE @ \cup Disagreements(n, winner)]

Elect(n, winner) ==
    /\ primary' = [primary EXCEPT ![n] = winner]
    /\ noted' = [noted EXCEPT ![n] =
                   IF winner = None THEN @ ELSE @ \cup Disagreements(n, winner)]

Tick(n) ==
    /\ \/ Candidates(n) = {} /\ Elect(n, None)
       \/ \E best \in Candidates(n) :
            IsBest(best, Candidates(n)) /\ Elect(n, Winner(n, best))
    /\ cand' = [cand EXCEPT ![n] = Candidates(n)]
    /\ UNCHANGED <<fit, seq, view, link, faults>>

-----------------------------------------------------------------------------
(* No heartbeat of m for heartbeat_timeout_s. *)
LeaseLapses(n, m) ==
    /\ Fault /\ view[n][m].live
    /\ view' = [view EXCEPT ![n][m].live = FALSE]
    /\ UNCHANGED <<fit, seq, link, primary, noted, cand>>

DropNode(n, m) ==
    /\ Fault /\ view[n][m].known
    /\ view' = [view EXCEPT ![n][m] = Unknown]
    /\ UNCHANGED <<fit, seq, link, primary, noted, cand>>

FrameLost(n, m) ==
    /\ Fault /\ link[n][m] # << >>
    /\ link' = [link EXCEPT ![n][m] = Tail(link[n][m])]
    /\ UNCHANGED <<fit, seq, view, primary, noted, cand>>

ConditionChanges(n) ==
    /\ Fault
    /\ fit' = [fit EXCEPT ![n] = ~fit[n]]
    /\ UNCHANGED <<seq, view, link, primary, noted, cand>>

(* A new process: nothing is persisted, its streams are new. *)
Restart(n) ==
    /\ Fault
    /\ seq' = [seq EXCEPT ![n] = 0]
    /\ view' = [view EXCEPT ![n] = [m \in Nodes |-> Unknown]]
    /\ link' = [a \in Nodes |-> [b \in Nodes |->
                  IF n \in {a, b} THEN << >> ELSE link[a][b]]]
    /\ primary' = [primary EXCEPT ![n] = None]
    /\ noted' = [noted EXCEPT ![n] = {}]
    /\ cand' = [cand EXCEPT ![n] = {}]
    /\ UNCHANGED fit

Next ==
    \/ \E n \in Nodes : \/ LocalHeartbeat(n) \/ Tick(n)
                        \/ ConditionChanges(n) \/ Restart(n)
    \/ \E n, m \in Nodes : \/ ObserveHeartbeat(n, m) \/ LeaseLapses(n, m)
                           \/ DropNode(n, m) \/ FrameLost(n, m)

Spec == Init /\ [][Next]_vars

(* Every node's loop heartbeats and ticks, and connections deliver. *)
FairSpec ==
    /\ Spec
    /\ \A n \in Nodes : WF_vars(LocalHeartbeat(n)) /\ WF_vars(Tick(n))
    /\ \A n, m \in Nodes : WF_vars(ObserveHeartbeat(n, m))

-----------------------------------------------------------------------------
Leads(n) == primary[n] = n

(* Two nodes that saw each other as live candidates at their last ticks    *)
(* never both lead, in whatever order they heard of each other: the rank   *)
(* decides, not the arrival order.                                         *)
NoMutualLeaders ==
    \A p, q \in Nodes :
        Leads(p) /\ Leads(q) /\ q \in cand[p] /\ p \in cand[q] => p = q

(* Faults being finite, every node comes to follow the same primary,   *)
(* the best-ranked fit node, hears every peer claim it, and keeps it; no   *)
(* one leads if no node is fit.                                            *)
Agreed ==
    LET able == {n \in Nodes : fit[n]}
    IN \A n \in Nodes :
         /\ IF able = {} THEN primary[n] = None ELSE IsBest(primary[n], able)
         /\ \A m \in Nodes : view[n][m].claim = primary[n]

Converges == <>[]Agreed
=============================================================================
