--------------------------- MODULE MeshModelHost ---------------------------
(***************************************************************************)
(* MeshModelHost (mesh_model_host.py): the process that hosts the model,   *)
(* the peripherals it lends layers to, and reconcile, which the desktop    *)
(* agent calls for ever on one thread.  A check takes minutes (it wakes    *)
(* devices, loads a model and waits for it), so it is several steps here,  *)
(* between which the fleet, the processes and the port change.             *)
(*                                                                         *)
(* Layers are counted, bytes are not: devices with room for the same       *)
(* number of layers are ranked by name.  Which device degrade_split calls  *)
(* the weakest depends on headroom recorded earlier and is a choice.       *)
(* Checks that hold without changing anything are stuttering steps.        *)
(***************************************************************************)
EXTENDS Integers, FiniteSets, FiniteSetsExt

CONSTANTS Devices,      \* peers, in the order of their names
          Room,         \* the most layers a device may have room for
          Budget,       \* layers that may leave the host (total - local_layers_min)
          Hot,          \* the offer of a thermally critical device
          StableRuns,   \* stable_runs
          MaxRestarts,  \* max_restarts
          Flaws,        \* what may be wrong with the devices: a split with one
                        \* never answers /health, or answers no completion
          NoSplit,      \* _pending_sig is None
          MaxFaults     \* bound on changes of the fleet and on failures

ASSUME HostAssumption ==
    /\ Devices \subseteq Nat /\ IsFiniteSet(Devices)
    /\ {Room, Budget, StableRuns} \subseteq Nat \ {0}
    /\ Flaws \subseteq [Devices -> {"none", "health", "probe"}]
    /\ {MaxRestarts, MaxFaults} \subseteq Nat

VARIABLES
    pc,         \* where reconcile or start stands
    todo,       \* devices still to be woken
    missed,     \* candidates that did not answer the pre-flight
    mode,       \* _state["mode"]
    assigned,   \* _state["assignments"], 0 for none; start's while it runs
    health,     \* _state["health"]
    probe,      \* _state["probe"]
    failures,   \* _failures
    pending,    \* _pending_sig
    runs,       \* _pending_runs, up to StableRuns
    pinned,     \* _refused
    cool,       \* the cooldown since _last_restart is over
    proc,       \* our child: none, running, stuck (cannot serve) or dead
    port,       \* another process on our port: free, mute (/health is not
                \* answered), other (it is), or late (it is since after the
                \* port was checked)
    offer,      \* what the plan reads of each live peer
    flaw,       \* what is wrong with each device
    asked,      \* history: the last request sent to each peripheral
    leftOn,     \* history: peripherals that were asked to start and left out
                \* without a request to stop
    localRun,   \* history: since the failure count was last 0, the model was
                \* "launched" without remote layers, such a start was only
                \* "refused" for its port, or "no"
    faults      \* faults so far

stateVars == <<mode, health, probe, failures>>
planVars  == <<pending, runs>>
worldVars == <<port, offer, flaw>>
releaseVars == <<asked, leftOn>>
vars == <<pc, todo, missed, assigned, pinned, cool, proc, localRun, faults,
          stateVars, planVars, worldVars, releaseVars>>

Nothing == [d \in Devices |-> 0]
Holders(split) == {d \in Devices : split[d] > 0}

Faults(n) == faults + n <= MaxFaults /\ faults' = faults + n
Fault == Faults(1)

Init ==
    /\ pc = "idle" /\ todo = {} /\ missed = {}
    /\ mode = "off" /\ assigned = Nothing /\ health = FALSE /\ probe = FALSE
    /\ failures = 0 /\ pending = NoSplit /\ runs = 0
    /\ pinned = {} /\ cool \in BOOLEAN
    /\ proc = "none" /\ port \in {"free", "mute", "other"}
    /\ offer \in [Devices -> 0 .. Room \cup {Hot}]
    /\ flaw \in Flaws
    /\ asked = [d \in Devices |-> "stop"] /\ leftOn = {}
    /\ localRun = "no"
    /\ faults = 0

-----------------------------------------------------------------------------
(* plan_layer_split: the roomiest devices first, until the budget is used. *)
Candidates(out) == {d \in Devices \ out : offer[d] \notin {0, Hot}}

Ahead(d, out) ==
    {e \in Candidates(out) : offer[e] > offer[d] \/ (offer[e] = offer[d] /\ e < d)}

Layers(d, out) ==
    IF d \in Candidates(out)
    THEN LET used == MapThenSumSet(LAMBDA e : offer[e], Ahead(d, out))
         IN  Max({0} \cup {n \in 1 .. offer[d] : used + n <= Budget})
    ELSE 0

(* Pins are taken out of a finished plan: their layers go to nobody else. *)
Plan(out) == [d \in Devices |-> IF d \in pinned THEN 0 ELSE Layers(d, out)]

-----------------------------------------------------------------------------
(* start, up to its loop over the peripherals. *)
BeginStart(split) ==
    /\ assigned' = split
    /\ todo' = Holders(split)
    /\ pc' = "wake"
    /\ health' = FALSE /\ probe' = FALSE

Start ==
    /\ pc = "idle" /\ mode = "off"
    /\ BeginStart(Plan({}))
    /\ UNCHANGED <<missed, mode, failures, pinned, cool, proc, localRun, faults,
                   planVars, worldVars, releaseVars>>

(* One turn of the loop: the device is asked and answers, or does not, or  *)
(* has no endpoint and is not asked.  One that is dropped is told nothing. *)
Wake ==
    /\ pc = "wake" /\ todo # {}
    /\ LET d == Min(todo) IN
       /\ todo' = todo \ {d}
       /\ \/ /\ asked' = [asked EXCEPT ![d] = "start"]
             /\ leftOn' = leftOn \ {d}
             /\ UNCHANGED <<assigned, pinned>>
          \/ /\ asked' = [asked EXCEPT ![d] = "start"]
             /\ leftOn' = leftOn \cup {d}
             /\ assigned' = [assigned EXCEPT ![d] = 0]
             /\ pinned' = pinned \cup {d}
          \/ /\ assigned' = [assigned EXCEPT ![d] = 0]
             /\ leftOn' = leftOn \cup {e \in {d} : asked[e] = "start"}
             /\ UNCHANGED <<asked, pinned>>
    /\ UNCHANGED <<pc, missed, cool, proc, localRun, faults, stateVars, planVars,
                   worldVars>>

(* start's _record. *)
Recorded(launched, h, p) ==
    /\ pc' = "idle"
    /\ health' = h /\ probe' = p
    /\ mode' = CASE assigned = Nothing -> "local"
                 [] assigned # Nothing /\ launched /\ ~h -> "split-unhealthy"
                 [] OTHER -> "split"
    /\ UNCHANGED <<todo, missed, assigned, pinned, cool, planVars, worldVars,
                   releaseVars>>

(* Faulty: a relaunch is forgiven whatever came of it. *)
RecordForgiving(launched, h, p) ==
    /\ Recorded(launched, h, p)
    /\ failures' = 0
    /\ localRun' = "no"

(* The record, and the failure count _relaunch keeps of it. *)
Record(launched, h, p) ==
    /\ Recorded(launched, h, p)
    /\ failures' = CASE mode = "off" -> failures
                     [] mode # "off" /\ h -> 0
                     [] OTHER -> failures + 1
    /\ localRun' = CASE failures' = 0 -> "no"
                     [] failures' # 0 /\ assigned = Nothing /\ pc # "wake" -> "launched"
                     [] failures' # 0 /\ assigned = Nothing /\ pc = "wake"
                        /\ localRun = "no" -> "refused"
                     [] OTHER -> localRun

(* Faulty: a port that is taken is not noticed. *)
CheckPortNever ==
    /\ pc = "wake" /\ todo = {}
    /\ pc' = "launch"
    /\ UNCHANGED <<todo, missed, assigned, pinned, cool, proc, localRun, faults,
                   stateVars, planVars, worldVars, releaseVars>>

(* _port_serving asks /health: a process that has the port and does not    *)
(* answer goes unnoticed.                                                  *)
PortServing == port \in {"other", "late"}

CheckPort ==
    /\ pc = "wake" /\ todo = {}
    /\ IF PortServing
       THEN Record(FALSE, FALSE, FALSE)
       ELSE /\ pc' = "launch"
            /\ UNCHANGED <<todo, missed, assigned, pinned, cool, localRun,
                           stateVars, planVars, worldVars, releaseVars>>
    /\ UNCHANGED <<proc, faults>>

Flawed(kind) == \E d \in Holders(assigned) : flaw[d] = kind

(* The child takes the port, unless another process took it first.  Its    *)
(* split serves unless it has a device that keeps it from answering.       *)
Launch ==
    /\ pc = "launch"
    /\ pc' = "verify"
    /\ proc' = CASE port # "free" -> "dead"
                 [] port = "free" /\ Flawed("health") -> "stuck"
                 [] OTHER -> "running"
    /\ UNCHANGED <<todo, missed, assigned, pinned, cool, localRun, faults,
                   stateVars, planVars, worldVars, releaseVars>>

LaunchFails ==
    /\ pc = "launch" /\ Fault
    /\ proc' = "dead"
    /\ Record(FALSE, FALSE, FALSE)

(* /health is answered by whoever has the port, and so is the probe. *)
Healthy == proc = "running" \/ PortServing
Completes == IF proc = "running" THEN ~Flawed("probe") ELSE PortServing

(* Health first, then one token; both may time out. *)
Verify ==
    /\ pc = "verify"
    /\ \/ Record(TRUE, Healthy, Completes) /\ Faults(0)
       \/ Healthy /\ Record(TRUE, FALSE, FALSE) /\ Fault
       \/ Completes /\ Record(TRUE, TRUE, FALSE) /\ Fault
    /\ UNCHANGED proc

-----------------------------------------------------------------------------
Alive == proc \in {"running", "stuck"}

(* launcher.stop(), and the other faults of the step.  An error is only    *)
(* logged, and leaves the child on the port with nobody to stop it.        *)
StopChild(others) ==
    /\ proc' = "none"
    /\ \/ Faults(others) /\ UNCHANGED port
       \/ /\ Alive
          /\ Faults(others + 1)
          /\ port' = IF proc = "running" THEN "other" ELSE "mute"
    /\ UNCHANGED <<offer, flaw>>

Tell(devices) ==
    asked' = [d \in Devices |-> IF d \in devices THEN "stop" ELSE asked[d]]

(* Woken for a plan that has changed since: it has no layers to lose and   *)
(* is not told.                                                            *)
WokenForNothing(split) ==
    {d \in Devices : asked[d] = "start" /\ assigned[d] = 0 /\ split[d] = 0}

(* Faulty: a device that loses its layers is not told. *)
RelaunchSilently(split, others) ==
    /\ StopChild(others)
    /\ cool' = FALSE
    /\ BeginStart(split)
    /\ missed' = {}
    /\ leftOn' = leftOn \cup WokenForNothing(split)
    /\ UNCHANGED <<asked, localRun>>

(* Stop the child, release what the new split does not keep, start again. *)
Relaunch(split, others) ==
    /\ StopChild(others)
    /\ cool' = FALSE
    /\ BeginStart(split)
    /\ missed' = {}
    /\ LET released == Holders(assigned) \ Holders(split)
       IN  /\ Tell(released)
           /\ leftOn' = (leftOn \ released) \cup WokenForNothing(split)
    /\ UNCHANGED localRun

Checking == pc = "idle" /\ mode \notin {"off", "failed"}
Conflict == ~Alive /\ PortServing   \* reported, and nothing else happens

(* Faulty: the first restart gives up layers and the others do not. *)
DegradedOnce(split) ==
    IF failures > 1 THEN {split}
    ELSE {[split EXCEPT ![d] = 0] : d \in Holders(split)} \cup
         (IF split = Nothing THEN {Nothing} ELSE {})

(* degrade_split: one device gives up its layers, if there is one. *)
Degraded(split) ==
    {[split EXCEPT ![d] = 0] : d \in Holders(split)} \cup
    (IF split = Nothing THEN {Nothing} ELSE {})

(* _watchdog_plan asks again for what the launch could not show. *)
Serves == proc = "running" /\ (probe \/ Completes)

(* The watchdog finds the model dead or unable to serve.  A check of a     *)
(* busy model may also time out, which is a fault.                         *)
NotServing == Checking /\ ~Conflict
TimedOut == IF Serves THEN 1 ELSE 0

Restart ==
    /\ NotServing
    /\ failures < MaxRestarts
    /\ \E split \in IF failures = 0 THEN {assigned} ELSE Degraded(assigned) :
          Relaunch(split, TimedOut)
    /\ UNCHANGED <<mode, failures, pinned, planVars>>

GiveUp ==
    /\ NotServing /\ Faults(TimedOut)
    /\ failures >= MaxRestarts
    /\ mode' = "failed"
    /\ UNCHANGED <<pc, todo, missed, assigned, health, probe, failures, pinned,
                   cool, proc, localRun, planVars, worldVars, releaseVars>>

(* Faulty: the count goes on only while nothing has to change. *)
SeenOfRunning(desired) == IF desired = assigned THEN runs + 1 ELSE 1

SeenRuns(desired) == IF desired = pending THEN runs + 1 ELSE 1

(* The rebalance: a plan that differs must differ StableRuns times in a    *)
(* row and wait for the cooldown.  Devices the plan dropped for heat are   *)
(* pinned whether or not the change is deferred.                           *)
Rebalance ==
    /\ Checking /\ Serves
    /\ failures' = 0 /\ localRun' = "no"
    /\ LET desired == Plan({})
           seen    == SeenRuns(desired)
           ready   == seen >= StableRuns /\ cool
       IN  IF desired = assigned
           THEN /\ pending' = NoSplit /\ runs' = 0
                /\ UNCHANGED <<pc, todo, pinned>>
           ELSE /\ pending' = desired /\ runs' = Min({seen, StableRuns})
                /\ pinned' = pinned \cup
                     {d \in Holders(assigned) : desired[d] = 0 /\ offer[d] = Hot}
                /\ IF ready
                   THEN /\ pc' = "preflight"
                        /\ todo' = Holders(desired) \ Holders(assigned)
                   ELSE UNCHANGED <<pc, todo>>
    /\ UNCHANGED <<missed, mode, assigned, health, probe, cool, proc, faults,
                   worldVars, releaseVars>>

(* _preflight wakes what is to be added before anything is stopped. *)
Preflight ==
    /\ pc = "preflight" /\ todo # {}
    /\ LET d == Min(todo) IN
       /\ todo' = todo \ {d}
       /\ \/ /\ asked' = [asked EXCEPT ![d] = "start"]
             /\ leftOn' = leftOn \ {d}
             /\ UNCHANGED missed
          \/ /\ asked' = [asked EXCEPT ![d] = "start"]
             /\ leftOn' = leftOn \cup {d}
             /\ missed' = missed \cup {d}
          \/ /\ missed' = missed \cup {d}     \* no endpoint
             /\ UNCHANGED releaseVars
    /\ UNCHANGED <<pc, assigned, pinned, cool, proc, localRun, faults, stateVars,
                   planVars, worldVars>>

(* Everyone answered: the plan is run.  Otherwise the fleet is planned     *)
(* again without the silent ones, and a plan that is what already runs     *)
(* costs no reload (_hold_unreachable).                                    *)
Conclude ==
    /\ pc = "preflight" /\ todo = {}
    /\ pinned' = pinned \cup missed
    /\ LET desired == IF missed = {} THEN pending
                      ELSE Plan(missed)
       IN  IF missed # {} /\ desired = assigned
           THEN /\ pc' = "idle"
                /\ missed' = {}
                /\ pending' = NoSplit /\ runs' = 0
                /\ leftOn' = leftOn \cup WokenForNothing(assigned)
                /\ UNCHANGED <<todo, assigned, health, probe, cool, proc, asked,
                               localRun, faults, worldVars>>
           ELSE /\ Relaunch(desired, 0)
                /\ UNCHANGED planVars
    /\ UNCHANGED <<mode, failures>>

(* stop: pins survive it. *)
Stop ==
    /\ pc = "idle" /\ mode # "off"
    /\ StopChild(0)
    /\ Tell(Holders(assigned))
    /\ leftOn' = leftOn \ Holders(assigned)
    /\ pending' = NoSplit /\ runs' = 0 /\ failures' = 0 /\ localRun' = "no"
    /\ mode' = "off" /\ assigned' = Nothing /\ health' = FALSE /\ probe' = FALSE
    /\ UNCHANGED <<pc, todo, missed, pinned, cool>>

-----------------------------------------------------------------------------
PinExpires ==
    /\ \E d \in pinned : pinned' = pinned \ {d}
    /\ UNCHANGED <<pc, todo, missed, assigned, cool, proc, localRun, faults,
                   stateVars, planVars, worldVars, releaseVars>>

CoolsDown ==
    /\ ~cool /\ cool' = TRUE
    /\ UNCHANGED <<pc, todo, missed, assigned, pinned, proc, localRun, faults,
                   stateVars, planVars, worldVars, releaseVars>>

OfferChanges ==
    /\ Fault
    /\ \E d \in Devices, o \in 0 .. Room \cup {Hot} :
          offer' = [offer EXCEPT ![d] = o]
    /\ offer' # offer
    /\ UNCHANGED <<pc, todo, missed, assigned, pinned, cool, proc, localRun, port,
                   flaw, stateVars, planVars, releaseVars>>

(* The child dies, or a peripheral it depends on does. *)
ChildFails ==
    /\ Fault
    /\ \/ Alive /\ proc' = "dead"
       \/ proc = "running" /\ assigned # Nothing /\ proc' = "stuck"
    /\ UNCHANGED <<pc, todo, missed, assigned, pinned, cool, localRun, stateVars,
                   planVars, worldVars, releaseVars>>

Serving == IF pc \in {"launch", "verify"} THEN "late" ELSE "other"

PortIsTaken ==
    /\ Fault
    /\ ~Alive /\ port = "free"
    /\ port' \in {"mute", Serving}
    /\ UNCHANGED <<pc, todo, missed, assigned, pinned, cool, proc, localRun, offer,
                   flaw, stateVars, planVars, releaseVars>>

(* A process that has the port and has loaded its model begins to answer. *)
PortAnswers ==
    /\ port = "mute" /\ port' = Serving
    /\ UNCHANGED <<pc, todo, missed, assigned, pinned, cool, proc, localRun, offer,
                   flaw, faults, stateVars, planVars, releaseVars>>

PortIsFreed ==
    /\ port # "free" /\ port' = "free"
    /\ UNCHANGED <<pc, todo, missed, assigned, pinned, cool, proc, localRun, offer,
                   flaw, faults, stateVars, planVars, releaseVars>>

HostStep ==
    \/ Start \/ Wake \/ CheckPort \/ Launch \/ LaunchFails \/ Verify
    \/ Restart \/ GiveUp \/ Rebalance \/ Preflight \/ Conclude

World ==
    \/ PinExpires \/ CoolsDown \/ OfferChanges \/ ChildFails
    \/ PortIsTaken \/ PortAnswers \/ PortIsFreed

Next == HostStep \/ Stop \/ World

Fairness == WF_vars(HostStep) /\ WF_vars(PinExpires) /\ WF_vars(CoolsDown)

Spec == Init /\ [][Next]_vars /\ Fairness

-----------------------------------------------------------------------------
(* A split is recorded as healthy on the word of our own child, or of a    *)
(* process that began to answer on the port after it was checked: a host   *)
(* model left behind by an earlier run, or by a stop that failed, never    *)
(* vouches for a split that did not load.                                  *)
VerifiedIsOurs ==
    [][~health /\ health' => proc = "running" \/ port = "late"]_vars

(* Between checks, the last request to a peripheral without layers is to   *)
(* stop: degrade, rebalance and stop tell every device they take layers    *)
(* from, however many checks it held them for.  Left on are only devices   *)
(* that start or a pre-flight asked and could not reach (for want of an    *)
(* endpoint, too), or that a plan changed after its pre-flight passes      *)
(* over; they are told nothing, although "a device that loses its layers   *)
(* must actually stop serving them" (_relaunch).                           *)
ReleasedIsTold ==
    pc = "idle" =>
        \A d \in Devices : asked[d] = "start" => assigned[d] > 0 \/ d \in leftOn

(* Each failure in a row but the first sheds a device, and neither a       *)
(* silent device nor a rebalance in between costs one of these attempts:   *)
(* the watchdog gives up with every layer on the host, or with so many     *)
(* devices that the restarts could not shed them all.  In the first case   *)
(* the model failed that way too (unless nothing is ever restarted): it    *)
(* was launched on the host alone, or its start was refused for the port,  *)
(* for a taken port does use up the attempt.                               *)
LocalIsTriedLast ==
    mode = "failed" =>
        IF assigned = Nothing
        THEN localRun # "no" \/ MaxRestarts = 0
        ELSE Cardinality(Holders(assigned)) + MaxRestarts <= Cardinality(Devices) + 1

(* A host that is on serves again and again, or has given up, or another   *)
(* process has its port, or its split answers /health and no completion:   *)
(* _relaunch takes the first for a recovery and clears the failure count,  *)
(* and the watchdog relaunches that split for ever.                        *)
Recovers ==
    []<>(Serves \/ mode \in {"off", "failed"} \/ port # "free" \/ Flawed("probe"))

(* A device that stays thermally critical does not hold layers for ever:   *)
(* the rebalance gets past its own deferrals, the cooldown and the         *)
(* watchdog's restarts of the old split, unless that split answers /health *)
(* and no completion: then the watchdog relaunches it at every check and   *)
(* the rebalance is never reached.                                         *)
HotIsRelieved ==
    \A d \in Devices :
        []<>(\/ offer[d] # Hot \/ assigned[d] = 0
             \/ mode = "failed" \/ port # "free" \/ Flawed("probe"))
=============================================================================
