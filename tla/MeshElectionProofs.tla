------------------------- MODULE MeshElectionProofs -------------------------
(***************************************************************************)
(* Two leaders that see each other are one, for any fleet, any priorities  *)
(* and roles, and any loss, repetition, lapse or restart.                  *)
(***************************************************************************)
EXTENDS MeshElection, TLAPS

(* What a node's last tick left behind: the primary it follows was one of  *)
(* the candidates, and none of them outranked it.                          *)
ElectedOK ==
    /\ primary \in [Nodes -> Claims]
    /\ cand \in [Nodes -> SUBSET Nodes]
    /\ \A n \in Nodes : primary[n] # None => IsBest(primary[n], cand[n])

(* The rank is total: of two different nodes one outranks the other. *)
LEMMA RankIsTotal ==
    ASSUME NEW a \in Nodes, NEW b \in Nodes
    PROVE  a = b \/ Outranks(a, b) \/ Outranks(b, a)
<1>1. /\ a \in Nat /\ b \in Nat
      /\ Priority[a] \in Nat /\ Priority[b] \in Nat
  BY NodesAssumption, PriorityAssumption
<1>2. RoleRank(a) \in Nat /\ RoleRank(b) \in Nat
  BY DEF RoleRank
<1> QED BY <1>1, <1>2 DEF Outranks

(* The rank is transitive on the complement: what is outranked neither by  *)
(* the best candidate nor, through it, by any other.                       *)
LEMMA RankIsTransitive ==
    ASSUME NEW a \in Nodes, NEW b \in Nodes, NEW c \in Nodes,
           ~Outranks(b, a), ~Outranks(c, b)
    PROVE  ~Outranks(c, a)
<1>1. /\ a \in Nat /\ b \in Nat /\ c \in Nat
      /\ Priority[a] \in Nat /\ Priority[b] \in Nat /\ Priority[c] \in Nat
  BY NodesAssumption, PriorityAssumption
<1>2. RoleRank(a) \in Nat /\ RoleRank(b) \in Nat /\ RoleRank(c) \in Nat
  BY DEF RoleRank
<1> QED BY <1>1, <1>2 DEF Outranks

(* Incumbency never elects a node that some candidate outranks. *)
LEMMA WinnerIsBest ==
    ASSUME NEW n \in Nodes, NEW best \in Candidates(n),
           IsBest(best, Candidates(n))
    PROVE  Winner(n, best) \in Nodes /\ IsBest(Winner(n, best), Candidates(n))
<1>1. Candidates(n) \subseteq Nodes
  BY DEF Candidates
<1>2. CASE primary[n] \in Candidates(n) /\ ~Outranks(best, primary[n])
  <2>1. Winner(n, best) = primary[n] /\ primary[n] \in Nodes
    BY <1>1, <1>2 DEF Winner
  <2>2. ASSUME NEW c \in Candidates(n) PROVE ~Outranks(c, primary[n])
    <3>1. ~Outranks(c, best)
      BY DEF IsBest
    <3> QED BY <1>1, <1>2, <2>1, <3>1, RankIsTransitive
  <2> QED BY <1>2, <2>1, <2>2 DEF IsBest
<1>3. CASE ~(primary[n] \in Candidates(n) /\ ~Outranks(best, primary[n]))
  BY <1>1, <1>3 DEF Winner
<1> QED BY <1>2, <1>3

(* Every step of the fleet keeps ElectedOK: only a tick and a restart      *)
(* touch what it speaks of.                                                *)
THEOREM ElectionInvariant == Spec => []ElectedOK
<1>1. Init => ElectedOK
  BY DEF Init, ElectedOK, Claims
<1>2. ElectedOK /\ [Next]_vars => ElectedOK'
  <2> SUFFICES ASSUME ElectedOK, [Next]_vars PROVE ElectedOK'
    OBVIOUS
  <2>1. ASSUME UNCHANGED <<primary, cand>> PROVE ElectedOK'
    BY <2>1 DEF ElectedOK, IsBest, Outranks, RoleRank
  <2>2. ASSUME NEW n \in Nodes, Tick(n) PROVE ElectedOK'
    <3>1. Candidates(n) \subseteq Nodes
      BY DEF Candidates
    <3>2. PICK w : /\ primary' = [primary EXCEPT ![n] = w]
                   /\ w = None \/ (w \in Nodes /\ IsBest(w, Candidates(n)))
      <4>1. CASE Candidates(n) = {} /\ Elect(n, None)
        BY <4>1 DEF Elect
      <4>2. ASSUME NEW best \in Candidates(n), IsBest(best, Candidates(n)),
                   Elect(n, Winner(n, best))
            PROVE  \E w : /\ primary' = [primary EXCEPT ![n] = w]
                          /\ w \in Nodes /\ IsBest(w, Candidates(n))
        BY <4>2, WinnerIsBest DEF Elect
      <4> QED BY <2>2, <4>1, <4>2 DEF Tick
    <3>3. cand' = [cand EXCEPT ![n] = Candidates(n)]
      BY <2>2 DEF Tick
    <3>4. /\ primary' \in [Nodes -> Claims]
          /\ cand' \in [Nodes -> SUBSET Nodes]
      BY <3>1, <3>2, <3>3 DEF ElectedOK, Claims
    <3>5. ASSUME NEW m \in Nodes, primary'[m] # None
          PROVE  IsBest(primary'[m], cand'[m])
      BY <3>2, <3>3, <3>5 DEF ElectedOK
    <3> QED BY <3>4, <3>5 DEF ElectedOK, IsBest, Outranks, RoleRank
  <2>3. ASSUME NEW n \in Nodes, Restart(n) PROVE ElectedOK'
    <3>1. /\ primary' = [primary EXCEPT ![n] = None]
          /\ cand' = [cand EXCEPT ![n] = {}]
      BY <2>3 DEF Restart
    <3>2. /\ primary' \in [Nodes -> Claims]
          /\ cand' \in [Nodes -> SUBSET Nodes]
      BY <3>1 DEF ElectedOK, Claims
    <3>3. ASSUME NEW m \in Nodes, primary'[m] # None
          PROVE  IsBest(primary'[m], cand'[m])
      BY <3>1, <3>3 DEF ElectedOK
    <3> QED BY <3>2, <3>3 DEF ElectedOK, IsBest, Outranks, RoleRank
  <2>4. CASE \E n \in Nodes : LocalHeartbeat(n) \/ ConditionChanges(n)
    BY <2>1, <2>4 DEF LocalHeartbeat, ConditionChanges
  <2>5. CASE \E n, m \in Nodes : \/ ObserveHeartbeat(n, m) \/ LeaseLapses(n, m)
                                 \/ DropNode(n, m) \/ FrameLost(n, m)
    BY <2>1, <2>5 DEF ObserveHeartbeat, LeaseLapses, DropNode, FrameLost
  <2>6. CASE UNCHANGED vars
    BY <2>1, <2>6 DEF vars
  <2> QED BY <2>2, <2>3, <2>4, <2>5, <2>6 DEF Next
<1> QED BY <1>1, <1>2, PTL DEF Spec

(* Two nodes that each counted the other among its candidates at its last  *)
(* tick never both lead: rank decides, not who was heard first.            *)
THEOREM LeadersDoNotSeeEachOther == Spec => []NoMutualLeaders
<1>1. ElectedOK => NoMutualLeaders
  <2> SUFFICES ASSUME ElectedOK, NEW p \in Nodes, NEW q \in Nodes,
                      Leads(p), Leads(q), q \in cand[p], p \in cand[q]
               PROVE  p = q
    BY DEF NoMutualLeaders
  <2>1. primary[p] # None /\ primary[q] # None
    BY NodesAssumption DEF Leads, None
  <2>2. ~Outranks(q, p) /\ ~Outranks(p, q)
    BY <2>1 DEF ElectedOK, Leads, IsBest
  <2> QED BY <2>2, RankIsTotal
<1> QED BY <1>1, ElectionInvariant, PTL
=============================================================================
