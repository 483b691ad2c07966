------------------------ MODULE MeshModelHostProofs -------------------------
(***************************************************************************)
(* The mesh model host, for any fleet, any offers and any number of        *)
(* faults: it is not deceived by a process left on its port, degrade,      *)
(* rebalance and stop tell every peripheral they take layers from, and its *)
(* watchdog sheds a device for every failure in a row but the first.       *)
(***************************************************************************)
EXTENDS MeshModelHost, FiniteSetTheorems, TLAPS

-----------------------------------------------------------------------------
(* A split is launched and verified on a port on which nobody answered     *)
(* when it was checked.                                                    *)
PortInv ==
    /\ port \in {"free", "mute", "other", "late"}
    /\ pc \in {"launch", "verify"} => port # "other"

(* Every step keeps a foreign process off the port between its check and   *)
(* the record, or marks it as late.                                        *)
LEMMA StepPort == PortInv /\ [Next]_vars => PortInv'
<1> SUFFICES ASSUME PortInv, [Next]_vars PROVE PortInv'
    OBVIOUS
<1> USE DEF PortInv
<1>1. CASE UNCHANGED vars
      BY <1>1 DEF vars, worldVars
<1>2. CASE Start \/ Wake \/ Launch \/ GiveUp
      BY <1>2 DEF Start, Wake, Launch, GiveUp, BeginStart, PortServing, worldVars
<1>3. CASE CheckPort \/ LaunchFails \/ Verify
      BY <1>3 DEF CheckPort, LaunchFails, Verify, Record, Recorded, PortServing,
                  worldVars
<1>4. CASE Rebalance \/ Preflight
      BY <1>4 DEF Rebalance, Preflight, Checking, worldVars
<1>5. CASE Restart \/ Conclude \/ Stop
  <2>1. ASSUME NEW n, StopChild(n) PROVE port' \in {port, "other", "mute"}
        BY <2>1 DEF StopChild
  <2>2. port' \in {port, "other", "mute"} /\ pc' \notin {"launch", "verify"}
        BY <1>5, <2>1 DEF Restart, NotServing, Checking, Conclude, Stop, Relaunch,
                          BeginStart, worldVars
  <2> QED
      BY <2>2
<1>6. CASE PinExpires \/ CoolsDown \/ OfferChanges \/ ChildFails
      BY <1>6 DEF PinExpires, CoolsDown, OfferChanges, ChildFails, worldVars
<1>7. CASE PortIsTaken \/ PortAnswers \/ PortIsFreed
      BY <1>7 DEF PortIsTaken, PortAnswers, PortIsFreed, Serving
<1> QED
    BY <1>1, <1>2, <1>3, <1>4, <1>5, <1>6, <1>7 DEF Next, HostStep, World

(* Only a verification records a healthy split. *)
LEMMA HealthIsVerified ==
    ASSUME [Next]_vars, ~health, health'
    PROVE  pc = "verify" /\ Healthy
<1>1. CASE UNCHANGED vars
      BY <1>1 DEF vars, stateVars
<1>2. CASE Start \/ Wake \/ Launch \/ Restart \/ GiveUp
      BY <1>2 DEF Start, Wake, Launch, Restart, GiveUp, Relaunch, BeginStart, stateVars
<1>3. CASE CheckPort \/ LaunchFails
      BY <1>3 DEF CheckPort, LaunchFails, Record, Recorded, stateVars
<1>4. CASE Verify
      BY <1>4 DEF Verify, Record, Recorded, Completes, Healthy
<1>5. CASE Rebalance \/ Preflight \/ Conclude \/ Stop
      BY <1>5 DEF Rebalance, Preflight, Conclude, Stop, Relaunch, BeginStart, stateVars
<1>6. CASE World
      BY <1>6 DEF World, PinExpires, CoolsDown, OfferChanges, ChildFails,
                  PortIsTaken, PortAnswers, PortIsFreed, stateVars
<1> QED
    BY <1>1, <1>2, <1>3, <1>4, <1>5, <1>6 DEF Next, HostStep

(* A process left behind by an earlier run never vouches for a split. *)
THEOREM OnlyOurChildVouches == Spec => VerifiedIsOurs
<1>1. Init => PortInv
      BY DEF Init, PortInv
<1>2. PortInv /\ [Next]_vars =>
          (~health /\ health' => proc = "running" \/ port = "late")
      BY HealthIsVerified DEF PortInv, Healthy, PortServing
<1> QED
    BY <1>1, <1>2, StepPort, PTL DEF Spec, VerifiedIsOurs

-----------------------------------------------------------------------------
Splits == [Devices -> Nat]

StartPcs == {"wake", "launch", "verify"}

(* The plan counts layers, and a plan whose pre-flight is under way is the *)
(* pending one.                                                            *)
PlanTypes ==
    /\ pc \in {"idle", "preflight"} \cup StartPcs
    /\ todo \subseteq Devices /\ missed \subseteq Devices
    /\ assigned \in Splits
    /\ failures \in Nat
    /\ pc = "preflight" => pending \in Splits
    /\ offer \in [Devices -> 0 .. Room \cup {Hot}]

(* A peripheral that was last asked to start holds layers or is one of     *)
(* those that nobody told. *)
Accounted == \A d \in Devices : asked[d] = "start" => assigned[d] > 0 \/ d \in leftOn

(* Outside a pre-flight every peripheral is accounted for, and only        *)
(* devices with layers are woken by start; a host that is off has assigned *)
(* none.                                                                   *)
ReleaseInv ==
    /\ asked \in [Devices -> {"start", "stop"}]
    /\ pc = "wake" => todo \subseteq Holders(assigned)
    /\ pc # "preflight" => Accounted
    /\ pc = "idle" /\ mode = "off" => assigned = Nothing
    /\ pc = "preflight" => mode # "off"

(* The first of a set of names is one of them. *)
LEMMA MinIsMember ==
    ASSUME NEW S \in SUBSET Nat, S # {}
    PROVE  Min(S) \in S
<1>1. \E x \in S : \A y \in S : ~(<<y, x>> \in OpToRel(<, Nat))
      BY WFMin, NatLessThanWellFounded
<1>2. PICK x \in S : \A y \in S : ~(y < x)
      BY <1>1 DEF OpToRel
<1>3. \A y \in S : x \in Nat /\ y \in Nat
      OBVIOUS
<1>4. \A y \in S : x <= y
      BY <1>2, <1>3
<1> QED
    BY <1>4 DEF Min

(* The most layers of those that fit are some that fit. *)
LEMMA MaxIsMember ==
    ASSUME NEW n \in Nat, NEW S \in SUBSET (0 .. n), S # {}
    PROVE  Max(S) \in S
<1> DEFINE T == {n - k : k \in S}
<1>1. T \subseteq Nat /\ T # {}
  <2>1. \A k \in S : n - k \in Nat
        OBVIOUS
  <2>2. \E k \in S : n - k \in T
        OBVIOUS
  <2> QED
      BY <2>1, <2>2
<1>2. \E x \in T : \A y \in T : ~(<<y, x>> \in OpToRel(<, Nat))
      BY <1>1, WFMin, NatLessThanWellFounded
<1>3. PICK x \in T : \A y \in T : ~(y < x)
      BY <1>1, <1>2 DEF OpToRel
<1>4. PICK k \in S : x = n - k
      BY <1>3
<1>5. \A j \in S : ~(n - j < n - k)
      BY <1>3, <1>4
<1> HIDE DEF T
<1>6. \A j \in S : j \in Int
  <2>1. 0 .. n \subseteq Int
        OBVIOUS
  <2> QED
      BY <2>1
<1>7. \A j \in S : k >= j
  <2>1. n \in Int /\ k \in Int
        BY <1>6
  <2> QED
      BY <1>5, <1>6, <2>1
<1> QED
    BY <1>4, <1>7 DEF Max

(* plan_layer_split gives every device a number of layers. *)
LEMMA PlanIsSplit ==
    ASSUME PlanTypes, NEW out
    PROVE  Plan(out) \in Splits
<1> SUFFICES ASSUME NEW d \in Devices PROVE Layers(d, out) \in Nat
    BY DEF Plan, Splits
<1>1. CASE d \in Candidates(out)
  <2> DEFINE used == MapThenSumSet(LAMBDA e : offer[e], Ahead(d, out))
             fit  == {0} \cup {n \in 1 .. offer[d] : used + n <= Budget}
  <2>1. offer[d] \in Nat
        BY <1>1, HostAssumption DEF Candidates, PlanTypes
  <2>2. fit \in SUBSET (0 .. offer[d]) /\ fit # {}
    <3>1. \A n \in 1 .. offer[d] : n \in 0 .. offer[d]
          BY <2>1
    <3>2. 0 \in 0 .. offer[d]
          BY <2>1
    <3> QED
        BY <3>1, <3>2, Zenon
  <2>3. Layers(d, out) = Max(fit)
        BY <1>1 DEF Layers
  <2> HIDE DEF fit
  <2>4. Max(fit) \in fit
        BY <2>1, <2>2, MaxIsMember
  <2>5. \A n \in 0 .. offer[d] : n \in Nat
        BY <2>1
  <2> QED
      BY <2>2, <2>3, <2>4, <2>5, Zenon
<1>2. CASE d \notin Candidates(out)
      BY <1>2 DEF Layers
<1> QED
    BY <1>1, <1>2

(* Giving up a device's layers leaves a split. *)
LEMMA DegradedIsSplit ==
    ASSUME NEW split \in Splits
    PROVE  Degraded(split) \subseteq Splits /\ Nothing \in Splits
BY DEF Degraded, Splits, Nothing, Holders

(* Every step keeps the types of the plan. *)
LEMMA StepPlanTypes == PlanTypes /\ [Next]_vars => PlanTypes'
<1> SUFFICES ASSUME PlanTypes, [Next]_vars PROVE PlanTypes'
    OBVIOUS
<1> USE DEF PlanTypes, StartPcs
<1>1. CASE UNCHANGED vars
      BY <1>1 DEF vars, stateVars, planVars, worldVars
<1>2. ASSUME NEW split \in Splits, BeginStart(split), missed' = {} \/ UNCHANGED missed,
             UNCHANGED <<failures, offer>>
      PROVE  PlanTypes'
      BY <1>2 DEF BeginStart, Holders
<1>3. CASE Start
      BY <1>2, <1>3, PlanIsSplit DEF Start, worldVars
<1>4. CASE Wake
  <2>1. /\ assigned' = assigned \/ assigned' = [assigned EXCEPT ![Min(todo)] = 0]
        /\ todo' \subseteq todo
        /\ UNCHANGED <<pc, missed, failures, pending, offer>>
        BY <1>4 DEF Wake, stateVars, planVars, worldVars
  <2>2. assigned' \in Splits
        BY <2>1 DEF Splits
  <2> QED
      BY <2>1, <2>2
<1>5. ASSUME NEW launched, NEW h, NEW p, Record(launched, h, p) PROVE PlanTypes'
  <2>1. failures' \in Nat
    <3>1. failures' \in {0, failures, failures + 1}
          BY <1>5 DEF Record
    <3> QED
        BY <3>1
  <2> QED
      BY <1>5, <2>1 DEF Record, Recorded, worldVars
<1>6. CASE CheckPort \/ LaunchFails \/ Verify
      BY <1>5, <1>6 DEF CheckPort, LaunchFails, Verify, stateVars, planVars, worldVars
<1>7. CASE Launch \/ GiveUp
      BY <1>7 DEF Launch, GiveUp, stateVars, planVars, worldVars
<1>8. CASE Restart
  <2>1. PICK split \in Splits : Relaunch(split, TimedOut)
        BY <1>8, DegradedIsSplit DEF Restart
  <2> QED
      BY <1>2, <1>8, <2>1 DEF Restart, Relaunch, StopChild
<1>9. CASE Rebalance
  <2>1. Plan({}) \in Splits
        BY PlanIsSplit
  <2>2. /\ failures' = 0 /\ UNCHANGED <<missed, assigned, offer>>
        /\ \/ pc' = pc /\ pc = "idle" /\ todo' = todo
           \/ pc' = "preflight" /\ pending' = Plan({})
              /\ todo' = Holders(Plan({})) \ Holders(assigned)
        BY <1>9 DEF Rebalance, Checking, worldVars
  <2> QED
      BY <2>1, <2>2 DEF Holders
<1>10. CASE Preflight
  <2>1. Min(todo) \in todo
        BY <1>10, MinIsMember, HostAssumption DEF Preflight
  <2> QED
      BY <1>10, <2>1 DEF Preflight, stateVars, planVars, worldVars
<1>11. CASE Conclude
  <2>1. CASE pc' = "idle"
        BY <1>11, <2>1 DEF Conclude, Relaunch, BeginStart, worldVars
  <2>2. CASE pc' # "idle"
    <3>1. PICK split \in Splits : Relaunch(split, 0)
          BY <1>11, <2>2, PlanIsSplit DEF Conclude
    <3> QED
        BY <1>2, <1>11, <3>1 DEF Conclude, Relaunch, StopChild
  <2> QED
      BY <2>1, <2>2
<1>12. CASE Stop
      BY <1>12, DegradedIsSplit DEF Stop, StopChild
<1>13. CASE World
  <2>1. /\ offer' \in [Devices -> 0 .. Room \cup {Hot}]
        /\ UNCHANGED <<pc, todo, missed, assigned, failures, pending>>
        BY <1>13 DEF World, PinExpires, CoolsDown, OfferChanges, ChildFails,
                     PortIsTaken, PortAnswers, PortIsFreed, stateVars, planVars, worldVars
  <2> QED
      BY <2>1
<1> QED
    BY <1>1, <1>3, <1>4, <1>6, <1>7, <1>8, <1>9, <1>10, <1>11, <1>12, <1>13
       DEF Next, HostStep

(* Relaunching, on whichever path, tells every device that loses layers,   *)
(* and remembers those it passes over.                                     *)
LEMMA RelaunchReleases ==
    ASSUME PlanTypes, ReleaseInv, NEW split \in Splits, NEW n, Relaunch(split, n)
    PROVE  ReleaseInv'
<1> DEFINE released == Holders(assigned) \ Holders(split)
<1>1. /\ assigned' = split /\ todo' = Holders(split) /\ pc' = "wake"
      /\ asked' = [d \in Devices |-> IF d \in released THEN "stop" ELSE asked[d]]
      /\ leftOn' = (leftOn \ released) \cup WokenForNothing(split)
      BY DEF Relaunch, BeginStart, Tell
<1>2. asked' \in [Devices -> {"start", "stop"}]
      BY <1>1 DEF ReleaseInv
<1>3. ASSUME NEW d \in Devices, asked'[d] = "start"
      PROVE  split[d] > 0 \/ d \in leftOn'
  <2>1. assigned[d] \in Nat /\ split[d] \in Nat
        BY DEF PlanTypes, Splits
  <2>2. asked[d] = "start" /\ d \notin released
        BY <1>1, <1>3
  <2>3. CASE assigned[d] = 0 /\ split[d] = 0
        BY <1>1, <2>2, <2>3 DEF WokenForNothing
  <2>4. CASE split[d] # 0
        BY <2>1, <2>4
  <2>5. assigned[d] # 0 => split[d] # 0
        BY <2>1, <2>2 DEF Holders
  <2> QED
      BY <2>3, <2>4, <2>5
<1> HIDE DEF released
<1>4. Accounted'
      BY <1>1, <1>3 DEF Accounted
<1> QED
    BY <1>1, <1>2, <1>4 DEF ReleaseInv, Holders

(* Every step tells the devices it takes layers from. *)
LEMMA StepRelease == PlanTypes /\ ReleaseInv /\ [Next]_vars => ReleaseInv'
<1> SUFFICES ASSUME PlanTypes, ReleaseInv, [Next]_vars PROVE ReleaseInv'
    OBVIOUS
<1> USE DEF ReleaseInv
<1>1. ASSUME UNCHANGED <<pc, todo, assigned, asked, leftOn, mode>>
      PROVE  ReleaseInv'
      BY <1>1 DEF Holders, Nothing, Accounted
<1>2. ASSUME UNCHANGED <<assigned, asked, leftOn>>, pc # "preflight", pc' # "wake",
             pc' \in {"idle", "preflight"} => mode' # "off"
      PROVE  ReleaseInv'
      BY <1>2 DEF Accounted
<1>3. CASE Start
  <2>1. /\ pc = "idle" /\ mode = "off" /\ pc' = "wake" /\ assigned' = Plan({})
        /\ todo' = Holders(Plan({})) /\ asked' = asked /\ leftOn' = leftOn
        BY <1>3 DEF Start, BeginStart, releaseVars
  <2>2. \A d \in Devices : asked[d] = "start" => d \in leftOn
        BY <2>1 DEF Nothing, Accounted
  <2> QED
      BY <2>1, <2>2 DEF Holders, Accounted
<1>4. CASE Wake
  <2> DEFINE d == Min(todo)
  <2>1. pc = "wake" /\ pc' = "wake" /\ d \in todo /\ d \in Devices
        BY <1>4, MinIsMember, HostAssumption DEF Wake, PlanTypes
  <2>2. assigned[d] > 0 /\ todo' = todo \ {d}
        BY <1>4, <2>1 DEF Wake, Holders
  <2>3. \/ /\ asked' = [asked EXCEPT ![d] = "start"] /\ assigned' = assigned
           /\ leftOn' = leftOn \ {d}
        \/ /\ asked' = [asked EXCEPT ![d] = "start"]
           /\ assigned' = [assigned EXCEPT ![d] = 0]
           /\ leftOn' = leftOn \cup {d}
        \/ /\ asked' = asked
           /\ assigned' = [assigned EXCEPT ![d] = 0]
           /\ leftOn' = leftOn \cup {e \in {d} : asked[e] = "start"}
        BY <1>4 DEF Wake, releaseVars
  <2> HIDE DEF d
  <2>4. Accounted'
        BY <2>1, <2>2, <2>3 DEF PlanTypes, Splits, Accounted
  <2>5. \A e \in todo' : e \in Holders(assigned) /\ assigned'[e] = assigned[e]
        BY <2>1, <2>2, <2>3 DEF PlanTypes, Splits, Holders
  <2> QED
      BY <1>4, <2>1, <2>3, <2>4, <2>5 DEF Wake, Holders
<1>5. CASE CheckPort \/ LaunchFails \/ Verify
  <2>1. ASSUME NEW launched, NEW h, NEW p, Record(launched, h, p),
               pc # "preflight"
        PROVE  ReleaseInv'
    <3>1. mode' \in {"local", "split", "split-unhealthy"}
          BY <2>1 DEF Record, Recorded
    <3> QED
        BY <1>2, <2>1, <3>1 DEF Record, Recorded, releaseVars
  <2> QED
      BY <1>2, <1>5, <2>1 DEF CheckPort, LaunchFails, Verify, releaseVars
<1>6. CASE Launch \/ GiveUp
      BY <1>2, <1>6 DEF Launch, GiveUp, NotServing, Checking, releaseVars
<1>7. CASE Restart
  <2>1. PICK split \in Splits : Relaunch(split, TimedOut)
        BY <1>7, DegradedIsSplit DEF Restart, PlanTypes
  <2> QED
      BY <2>1, RelaunchReleases
<1>8. CASE Rebalance
      BY <1>2, <1>8 DEF Rebalance, Checking, releaseVars
<1>9. CASE Preflight
  <2>1. asked' \in [Devices -> {"start", "stop"}]
        BY <1>9 DEF Preflight, releaseVars
  <2>2. pc' = "preflight" /\ mode' # "off"
        BY <1>9 DEF Preflight, stateVars
  <2> QED
      BY <2>1, <2>2
<1>10. CASE Conclude
  <2>1. \/ \E split \in Splits : Relaunch(split, 0)
        \/ /\ pc' = "idle" /\ assigned' = assigned /\ mode' = mode
           /\ asked' = asked
           /\ leftOn' = leftOn \cup WokenForNothing(assigned)
        BY <1>10, PlanIsSplit DEF Conclude, PlanTypes
  <2>2. mode # "off"
        BY <1>10 DEF Conclude
  <2>3. \A d \in Devices : assigned[d] > 0 \/ assigned[d] = 0
        BY DEF PlanTypes, Splits
  <2> QED
      BY <2>1, <2>2, <2>3, RelaunchReleases DEF Accounted, WokenForNothing
<1>11. CASE Stop
  <2>1. /\ pc' = "idle" /\ mode' = "off" /\ assigned' = Nothing /\ pc = "idle"
        /\ asked' = [d \in Devices |->
                       IF d \in Holders(assigned) THEN "stop" ELSE asked[d]]
        /\ leftOn' = leftOn \ Holders(assigned)
        BY <1>11 DEF Stop, Tell
  <2>2. Nothing' = Nothing
        BY DEF Nothing
  <2> QED
      BY <2>1, <2>2 DEF Accounted, Holders
<1>12. CASE World \/ UNCHANGED vars
      BY <1>1, <1>12 DEF World, PinExpires, CoolsDown, OfferChanges, ChildFails,
                         PortIsTaken, PortAnswers, PortIsFreed, vars, stateVars,
                         releaseVars
<1> QED
    BY <1>3, <1>4, <1>5, <1>6, <1>7, <1>8, <1>9, <1>10, <1>11, <1>12
       DEF Next, HostStep

(* The types and the release invariant hold of a host that is off. *)
LEMMA HostInit == Init => PlanTypes /\ ReleaseInv
<1> SUFFICES ASSUME Init PROVE PlanTypes /\ ReleaseInv
    OBVIOUS
<1>1. Nothing \in Splits
      BY DEF Nothing, Splits
<1> QED
    BY <1>1 DEF Init, PlanTypes, ReleaseInv, StartPcs, Accounted

(* For any fleet: when a check is over, every peripheral whose last        *)
(* request was to start holds layers, or is one that a start or a          *)
(* pre-flight could not reach or a changed plan passed over.  Degrade,     *)
(* rebalance and stop forget nobody they take layers from.                 *)
THEOREM ReleasedDevicesAreTold == Spec => []ReleasedIsTold
<1>1. ReleaseInv => ReleasedIsTold
      BY DEF ReleaseInv, ReleasedIsTold, Accounted
<1> QED
    BY <1>1, HostInit, StepPlanTypes, StepRelease, PTL DEF Spec

-----------------------------------------------------------------------------
(* The restarts that are left for a split, in devices. *)
Fits(split, f) ==
    split = Nothing \/ Cardinality(Holders(split)) + f <= Cardinality(Devices)

(* Every failure in a row but the first has cost a device its layers, and  *)
(* a split that is being started has already paid for its own failure.     *)
(* With a failure counted and no layers lent, the model failed that way.   *)
ShedInv ==
    /\ mode = "off" \/ pc = "preflight" => failures = 0
    /\ pc \in StartPcs => Fits(assigned, failures)
    /\ pc = "idle" /\ failures > 0 => Fits(assigned, failures - 1)
    /\ pc = "idle" /\ failures > 0 /\ assigned = Nothing => localRun # "no"
    /\ mode = "failed" => pc = "idle" /\ LocalIsTriedLast

(* The devices of a split can be counted. *)
LEMMA HoldersCount ==
    ASSUME NEW split \in Splits
    PROVE  /\ IsFiniteSet(Holders(split))
           /\ Cardinality(Holders(split)) \in Nat /\ Cardinality(Devices) \in Nat
           /\ Cardinality(Holders(split)) <= Cardinality(Devices)
           /\ Cardinality(Holders(split)) = 0 => split = Nothing
<1>1. Holders(split) \in SUBSET Devices /\ IsFiniteSet(Devices)
      BY HostAssumption DEF Holders
<1>2. /\ IsFiniteSet(Holders(split))
      /\ Cardinality(Holders(split)) <= Cardinality(Devices)
      BY <1>1, FS_Subset
<1>3. Cardinality(Holders(split)) \in Nat /\ Cardinality(Devices) \in Nat
      BY <1>1, <1>2, FS_CardinalityType
<1>4. ASSUME Cardinality(Holders(split)) = 0 PROVE split = Nothing
  <2>1. Holders(split) = {}
        BY <1>2, <1>4, FS_EmptySet
  <2>2. \A d \in Devices : split[d] = 0
        BY <2>1 DEF Holders, Splits
  <2> QED
      BY <2>2 DEF Splits, Nothing
<1> QED
    BY <1>2, <1>3, <1>4

(* A device that gives up its layers is one holder less. *)
LEMMA OneHolderLess ==
    ASSUME NEW split \in Splits, NEW d \in Devices
    PROVE  LET next == [split EXCEPT ![d] = 0]
           IN  /\ next \in Splits
               /\ Cardinality(Holders(next)) =
                     IF split[d] > 0 THEN Cardinality(Holders(split)) - 1
                                     ELSE Cardinality(Holders(split))
<1> DEFINE next == [split EXCEPT ![d] = 0]
<1>1. next \in Splits
      BY DEF Splits
<1>2. Holders(next) = Holders(split) \ {d}
      BY DEF Splits, Holders
<1>3. d \in Holders(split) <=> split[d] > 0
      BY DEF Holders
<1>4. Cardinality(Holders(split) \ {d}) =
          IF d \in Holders(split) THEN Cardinality(Holders(split)) - 1
                                  ELSE Cardinality(Holders(split))
      BY HoldersCount, FS_RemoveElement
<1> QED
    BY <1>1, <1>2, <1>3, <1>4

(* Waking a device in vain leaves a split with room for as many failures.  *)
LEMMA FewerStillFits ==
    ASSUME NEW split \in Splits, NEW d, NEW f \in Nat, Fits(split, f)
    PROVE  Fits([split EXCEPT ![d] = 0], f)
<1> DEFINE next == [split EXCEPT ![d] = 0]
<1>1. CASE d \notin Devices
  <2>1. next = split
        BY <1>1 DEF Splits
  <2> QED
      BY <2>1
<1>2. CASE split = Nothing
  <2>1. next = Nothing
        BY <1>2 DEF Nothing
  <2> QED
      BY <2>1 DEF Fits
<1>3. CASE d \in Devices /\ split # Nothing
  <2>1. Cardinality(Holders(split)) + f <= Cardinality(Devices)
        BY <1>3 DEF Fits
  <2>2. /\ Cardinality(Holders(split)) \in Nat /\ Cardinality(Devices) \in Nat
        /\ Cardinality(Holders(next)) \in {Cardinality(Holders(split)),
                                           Cardinality(Holders(split)) - 1}
        BY <1>3, HoldersCount, OneHolderLess
  <2> HIDE DEF next
  <2>3. Cardinality(Holders(next)) + f <= Cardinality(Devices)
        BY <2>1, <2>2
  <2> QED
      BY <2>3 DEF Fits, next
<1> QED
    BY <1>1, <1>2, <1>3

(* A degraded split has room for one failure more. *)
LEMMA DegradedFits ==
    ASSUME NEW split \in Splits, NEW f \in Nat \ {0}, Fits(split, f - 1),
           NEW next \in Degraded(split)
    PROVE  Fits(next, f)
<1>1. CASE next = Nothing
      BY <1>1 DEF Fits
<1>2. CASE next # Nothing
  <2>1. PICK d \in Holders(split) : next = [split EXCEPT ![d] = 0]
        BY <1>2 DEF Degraded
  <2>2. d \in Devices /\ split[d] > 0 /\ split # Nothing
        BY <2>1 DEF Holders, Nothing
  <2>3. Cardinality(Holders(split)) + (f - 1) <= Cardinality(Devices)
        BY <2>2 DEF Fits
  <2>4. /\ Cardinality(Holders(split)) \in Nat /\ Cardinality(Devices) \in Nat
        /\ Cardinality(Holders(next)) = Cardinality(Holders(split)) - 1
        BY <2>1, <2>2, HoldersCount, OneHolderLess
  <2>5. Cardinality(Holders(next)) + f <= Cardinality(Devices)
        BY <2>3, <2>4
  <2> QED
      BY <2>5 DEF Fits
<1> QED
    BY <1>1, <1>2

(* Before the first failure every split fits. *)
LEMMA AllFitAtFirst == \A split \in Splits : Fits(split, 0)
BY HoldersCount DEF Fits

(* Recording an attempt counts its failure, for which it has paid, and a   *)
(* failure on the host alone is noted.                                     *)
LEMMA RecordKeepsShed ==
    ASSUME PlanTypes, ShedInv, pc \in StartPcs,
           NEW launched, NEW h, NEW p, Record(launched, h, p)
    PROVE  ShedInv'
<1>1. /\ pc' = "idle" /\ assigned' = assigned
      /\ mode' \in {"local", "split", "split-unhealthy"}
      BY DEF Record, Recorded
<1>2. /\ failures' \in {0, failures, failures + 1}
      /\ failures' = failures => failures = 0
  <2>1. mode = "off" => failures = 0
        BY DEF ShedInv
  <2>2. CASE mode = "off"
        BY <2>1, <2>2 DEF Record
  <2>3. CASE mode # "off"
    <3>1. failures' \in {0, failures + 1}
          BY <2>3 DEF Record
    <3> QED
        BY <3>1 DEF PlanTypes
  <2> QED
      BY <2>2, <2>3
<1>3. Fits(assigned, failures) /\ failures \in Nat
      BY DEF ShedInv, PlanTypes
<1>4. ASSUME failures' > 0 PROVE failures' - 1 = failures
  <2>1. failures' = failures + 1
        BY <1>2, <1>3, <1>4
  <2> QED
      BY <1>3, <2>1
<1>5. failures' > 0 => Fits(assigned, failures' - 1)
      BY <1>3, <1>4
<1>6. Fits(assigned, failures - 1)' <=> Fits(assigned, failures' - 1)
      BY <1>1 DEF Fits, Nothing, Holders
<1>7. failures' > 0 /\ assigned = Nothing => localRun' # "no"
  <2>1. failures' > 0 => failures' # 0
        BY <1>2, <1>3
  <2> QED
      BY <2>1 DEF Record
<1>8. Nothing' = Nothing
      BY DEF Nothing
<1> QED
    BY <1>1, <1>5, <1>6, <1>7, <1>8 DEF ShedInv, StartPcs

(* A watchdog that gives up has shed a device for every failure in a row   *)
(* but the first.                                                          *)
LEMMA GivingUpIsLast ==
    ASSUME PlanTypes, ShedInv, pc = "idle", failures >= MaxRestarts
    PROVE  IF assigned = Nothing
           THEN localRun # "no" \/ MaxRestarts = 0
           ELSE Cardinality(Holders(assigned)) + MaxRestarts <= Cardinality(Devices) + 1
<1>0. /\ failures \in Nat /\ assigned \in Splits /\ MaxRestarts \in Nat
      BY HostAssumption DEF PlanTypes
<1>1. /\ Cardinality(Holders(assigned)) \in Nat /\ Cardinality(Devices) \in Nat
      /\ Cardinality(Holders(assigned)) <= Cardinality(Devices)
      BY <1>0, HoldersCount
<1>2. CASE assigned = Nothing
  <2>1. MaxRestarts # 0 => failures > 0
        BY <1>0
  <2> QED
      BY <1>2, <2>1 DEF ShedInv
<1>3. CASE assigned # Nothing /\ failures = 0
      BY <1>0, <1>1, <1>3
<1>4. CASE assigned # Nothing /\ failures # 0
  <2>1. Cardinality(Holders(assigned)) + (failures - 1) <= Cardinality(Devices)
    <3>1. failures > 0
          BY <1>0, <1>4
    <3> QED
        BY <1>4, <3>1 DEF ShedInv, Fits
  <2> QED
      BY <1>0, <1>1, <1>4, <2>1
<1> QED
    BY <1>2, <1>3, <1>4

(* Every failure in a row sheds a device. *)
LEMMA StepShed == PlanTypes /\ ReleaseInv /\ ShedInv /\ [Next]_vars => ShedInv'
<1> SUFFICES ASSUME PlanTypes, ReleaseInv, ShedInv, [Next]_vars PROVE ShedInv'
    OBVIOUS
<1>0. failures \in Nat /\ assigned \in Splits
      BY DEF PlanTypes
<1>1. ASSUME NEW split \in Splits, BeginStart(split), Fits(split, failures),
             UNCHANGED <<mode, failures>>, mode # "failed"
      PROVE  ShedInv'
  <2>1. pc' = "wake" /\ assigned' = split
        BY <1>1 DEF BeginStart
  <2>2. Fits(assigned, failures)' <=> Fits(split, failures)
        BY <1>1, <2>1 DEF Fits, Nothing, Holders
  <2> QED
      BY <1>1, <2>1, <2>2 DEF ShedInv, StartPcs
<1>2. ASSUME UNCHANGED <<pc, mode, failures, assigned, localRun>> PROVE ShedInv'
      BY <1>2 DEF ShedInv, LocalIsTriedLast, Fits, Nothing, Holders
<1>3. CASE Start
  <2>1. mode = "off" /\ failures = 0 /\ Plan({}) \in Splits
        BY <1>3, PlanIsSplit DEF Start, ShedInv
  <2> QED
      BY <1>1, <1>3, <2>1, AllFitAtFirst DEF Start
<1>4. CASE Wake
  <2>1. /\ pc = "wake" /\ pc' = "wake" /\ UNCHANGED <<mode, failures>>
        /\ assigned' = assigned \/ assigned' = [assigned EXCEPT ![Min(todo)] = 0]
        BY <1>4 DEF Wake, stateVars
  <2>2. Fits(assigned', failures)
        BY <1>0, <2>1, FewerStillFits DEF ShedInv, StartPcs
  <2>3. Fits(assigned, failures)'
        BY <2>1, <2>2 DEF Fits, Nothing, Holders
  <2> QED
      BY <2>1, <2>3 DEF ShedInv, StartPcs
<1>5. CASE CheckPort \/ LaunchFails \/ Verify \/ Launch
  <2>1. CASE \E launched, h, p : Record(launched, h, p)
        BY <1>5, <2>1, RecordKeepsShed
           DEF CheckPort, LaunchFails, Verify, Launch, StartPcs
  <2>2. CASE ~ \E launched, h, p : Record(launched, h, p)
    <3>1. /\ pc \in StartPcs /\ pc' \in StartPcs
          /\ UNCHANGED <<mode, failures, assigned>>
          BY <1>5, <2>2
             DEF CheckPort, LaunchFails, Verify, Launch, stateVars, StartPcs
    <3> QED
        BY <3>1 DEF ShedInv, StartPcs, Fits, Nothing, Holders
  <2> QED
      BY <2>1, <2>2
<1>6. CASE Restart
  <2>1. /\ pc = "idle" /\ mode # "failed" /\ UNCHANGED <<mode, failures>>
        BY <1>6 DEF Restart, NotServing, Checking
  <2>2. PICK split \in IF failures = 0 THEN {assigned} ELSE Degraded(assigned) :
            Relaunch(split, TimedOut)
        BY <1>6 DEF Restart
  <2>3. split \in Splits /\ Fits(split, failures)
    <3>1. CASE failures = 0
          BY <1>0, <2>2, <3>1, AllFitAtFirst
    <3>2. CASE failures # 0
      <4>1. failures \in Nat \ {0} /\ failures > 0
            BY <1>0, <3>2
      <4>2. Fits(assigned, failures - 1)
            BY <2>1, <4>1 DEF ShedInv
      <4> QED
          BY <1>0, <2>2, <3>2, <4>1, <4>2, DegradedFits, DegradedIsSplit
    <3> QED
        BY <3>1, <3>2
  <2> QED
      BY <1>1, <2>1, <2>2, <2>3 DEF Relaunch
<1>7. CASE GiveUp
  <2>1. /\ pc = "idle" /\ pc' = "idle" /\ mode' = "failed"
        /\ failures >= MaxRestarts
        /\ UNCHANGED <<assigned, failures, localRun>>
        BY <1>7 DEF GiveUp, NotServing, Checking
  <2>2. IF assigned = Nothing
        THEN localRun # "no" \/ MaxRestarts = 0
        ELSE Cardinality(Holders(assigned)) + MaxRestarts <= Cardinality(Devices) + 1
        BY <2>1, GivingUpIsLast
  <2>3. LocalIsTriedLast'
        BY <2>1, <2>2 DEF LocalIsTriedLast, Nothing, Holders
  <2>4. /\ Fits(assigned, failures - 1)' <=> Fits(assigned, failures - 1)
        /\ Nothing' = Nothing
        BY <2>1 DEF Fits, Nothing, Holders
  <2>5. pc' \notin StartPcs /\ pc' # "preflight" /\ mode' # "off"
        BY <2>1 DEF StartPcs
  <2> QED
      BY <2>1, <2>3, <2>4, <2>5 DEF ShedInv
<1>8. CASE Rebalance
  <2>1. /\ failures' = 0 /\ UNCHANGED <<mode, assigned>> /\ mode # "failed"
        /\ pc' \in {"idle", "preflight"}
        BY <1>8 DEF Rebalance, Checking
  <2> QED
      BY <2>1 DEF ShedInv, StartPcs
<1>9. CASE Preflight
      BY <1>2, <1>9 DEF Preflight, stateVars
<1>10. CASE Conclude
  <2>1. /\ pc = "preflight" /\ failures = 0 /\ mode # "failed" /\ mode # "off"
        /\ UNCHANGED <<mode, failures>>
        BY <1>10 DEF Conclude, ShedInv, ReleaseInv
  <2>2. \/ \E split \in Splits : Relaunch(split, 0)
        \/ pc' = "idle"
        BY <1>10, PlanIsSplit DEF Conclude, PlanTypes
  <2>3. CASE pc' = "idle"
        BY <2>1, <2>3 DEF ShedInv, StartPcs
  <2>4. ASSUME NEW split \in Splits, Relaunch(split, 0) PROVE ShedInv'
        BY <1>1, <2>1, <2>4, AllFitAtFirst DEF Relaunch
  <2> QED
      BY <2>2, <2>3, <2>4
<1>11. CASE Stop
  <2>1. pc' = "idle" /\ failures' = 0 /\ mode' = "off"
        BY <1>11 DEF Stop
  <2> QED
      BY <2>1 DEF ShedInv, StartPcs
<1>12. CASE World \/ UNCHANGED vars
      BY <1>2, <1>12 DEF World, PinExpires, CoolsDown, OfferChanges, ChildFails,
                         PortIsTaken, PortAnswers, PortIsFreed, vars, stateVars
<1> QED
    BY <1>3, <1>4, <1>5, <1>6, <1>7, <1>8, <1>9, <1>10, <1>11, <1>12
       DEF Next, HostStep

(* For any fleet and any number of restarts: a watchdog that gives up has  *)
(* shed a device for every failure in a row but the first, whatever the    *)
(* port, silent devices and the rebalance did in between; with no layers   *)
(* lent, a start on the host alone was launched and failed, or was refused *)
(* for the port.                                                           *)
THEOREM LocalRunIsNotSkipped == Spec => []LocalIsTriedLast
<1>1. Init => ShedInv
      BY DEF Init, ShedInv, StartPcs
<1>2. ShedInv => LocalIsTriedLast
      BY DEF ShedInv, LocalIsTriedLast
<1> QED
    BY <1>1, <1>2, HostInit, StepPlanTypes, StepRelease, StepShed, PTL DEF Spec
=============================================================================
