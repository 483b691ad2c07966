------------------------ MODULE RoboticsHandlerProofs -----------------------
(***************************************************************************)
(* The emergency stop and the end of the velocity stream, for any number   *)
(* of commanding threads.                                                  *)
(***************************************************************************)
EXTENDS RoboticsHandler, TLAPS

Streaming == "base" \in moving /\ driver = "stream"

(* Why a stream that is gone left no velocity behind: it ends because its  *)
(* owner told it to and is still to publish the zero Twist, or because it  *)
(* lost its connection and has published one itself.                       *)
StreamEnds ==
    /\ owner \in {"zero", "launch"} => StreamGone
    /\ halted /\ stream \in {"wait", "publish", "stamp"} => owner = "join"
    /\ Streaming => stream # "lost"
    /\ Streaming /\ stream = "off" => owner \in {"join", "zero"}

(* The initial state is well typed and has no motion. *)
LEMMA InitiallyStill == Init => TypeOK /\ StopUnderWay
BY ThreadsDistinct DEF Init, TypeOK, StopUnderWay, Procs, Axes

(* Every step keeps the types of the latch, the threads and the stream. *)
LEMMA StepTypes == TypeOK /\ [Next]_vars => TypeOK'
<1> SUFFICES ASSUME TypeOK, [Next]_vars PROVE TypeOK'
    OBVIOUS
<1> USE DEF TypeOK, Procs, Axes, threads
<1>1. CASE UNCHANGED vars
      BY <1>1 DEF vars
<1>2. ASSUME NEW c \in Commanders, Handle(c) \/ Move(c) \/ Stamp(c)
      PROVE TypeOK'
  <2>1. /\ estop' = estop /\ UNCHANGED <<stream, halted, owner, again>>
        /\ fresh' \in BOOLEAN
        BY <1>2 DEF Handle, Move, Stamp
  <2>2. \E l \in Axes \cup {"idle", "joint", "stamp"} : Goto(c, l)
        BY <1>2 DEF Handle, Move, Stamp
  <2>3. /\ moving' \subseteq Axes /\ overran' \subseteq Axes
        /\ driver' \in {"none", "command", "stream"}
        BY <1>2 DEF Handle, Move, Stamp, PublishTwist, PublishMotion, PublishZero
  <2>4. /\ pc' \in [Procs -> Axes \cup {"idle", "joint", "stamp", "stop",
                                       "zero", "cancel"}]
        /\ \A p \in {Watchdog, Sensor} : pc'[p] \in {"idle", "stop", "zero", "cancel"}
    <3>1. PICK l \in Axes \cup {"idle", "joint", "stamp"} :
              pc' = [pc EXCEPT ![c] = l]
          BY <2>2 DEF Goto
    <3>2. c # Watchdog /\ c # Sensor /\ c \in Procs
          BY ThreadsDistinct
    <3> QED
        BY <3>1, <3>2
  <2> QED
      BY <2>1, <2>3, <2>4
<1>3. ASSUME NEW p \in Procs, CallStop(p) \/ HandleStop(p)
      PROVE TypeOK'
  <2>1. /\ estop' \in BOOLEAN
        /\ UNCHANGED <<fresh, stream, halted, owner, again>>
        BY <1>3 DEF CallStop, HandleStop
  <2>2. \E l \in {"idle", "stop", "zero", "cancel"} : Goto(p, l)
        BY <1>3 DEF CallStop, HandleStop
  <2>3. /\ moving' \subseteq Axes /\ overran' \subseteq Axes
        /\ driver' \in {"none", "command", "stream"}
        BY <1>3 DEF CallStop, HandleStop, PublishZero
  <2>4. PICK l \in {"idle", "stop", "zero", "cancel"} : pc' = [pc EXCEPT ![p] = l]
        BY <2>2 DEF Goto
  <2> QED
      BY <2>1, <2>3, <2>4
<1>4. CASE StreamNext
  <2>1. CASE StreamWakes
    <3>1. stream' \in {"off", "publish", "zero"}
          BY <2>1 DEF StreamWakes
    <3>2. halted' = halted \/ halted' = TRUE
          BY <2>1 DEF StreamWakes
    <3>3. UNCHANGED <<estop, moving, fresh, pc, owner, again, overran, driver>>
          BY <2>1 DEF StreamWakes
    <3> QED BY <3>1, <3>2, <3>3
  <2>2. CASE StreamPublishes
        BY <2>2 DEF StreamPublishes, PublishTwist, PublishMotion, PublishZero
  <2>3. CASE StreamStamps
        BY <2>3 DEF StreamStamps
  <2>4. CASE StreamStops
        BY <2>4 DEF StreamStops, PublishZero
  <2> QED
      BY <1>4, <2>1, <2>2, <2>3, <2>4 DEF StreamNext
<1>5. CASE OwnerNext
  <2>1. CASE SignalStream \/ JoinStream \/ JoinFails
        BY <2>1 DEF SignalStream, JoinStream, JoinFails
  <2>2. CASE ZeroAfterStream
        BY <2>2 DEF ZeroAfterStream, PublishZero
  <2>3. CASE LaunchStream \/ UpdateStream
        BY <2>3 DEF LaunchStream, UpdateStream
  <2> QED
      BY <1>5, <2>1, <2>2, <2>3 DEF OwnerNext
<1>6. CASE Reset \/ Expire \/ ArmArrives
  <2>1. /\ estop' \in BOOLEAN /\ fresh' \in BOOLEAN
        /\ moving' \subseteq Axes /\ overran' \subseteq Axes
        /\ UNCHANGED <<threads, driver>>
        BY <1>6 DEF Reset, Expire, ArmArrives
  <2> QED
      BY <2>1 DEF threads
<1> QED
    BY <1>1, <1>2, <1>3, <1>4, <1>5, <1>6 DEF Next

(* Every step keeps a stop on its way to what moves under the latch. *)
LEMMA StepKeepsStop == TypeOK /\ StopUnderWay /\ [Next]_vars => StopUnderWay'
<1> SUFFICES ASSUME TypeOK, StopUnderWay, [Next]_vars PROVE StopUnderWay'
    OBVIOUS
<1> USE DEF StopUnderWay
<1>1. CASE UNCHANGED vars
      BY <1>1 DEF vars, threads
<1>2. ASSUME NEW c \in Commanders, Handle(c) \/ Move(c) \/ Stamp(c)
      PROVE StopUnderWay'
  <2>1. \A p \in Procs : pc[p] \in {"zero", "cancel"} => pc'[p] = pc[p]
        BY <1>2 DEF Handle, Move, Stamp, Goto, TypeOK, Procs, Axes
  <2>2. /\ estop' = estop
        /\ estop => moving' \ overran' \subseteq moving \ overran
        BY <1>2 DEF Handle, Move, Stamp, PublishTwist, PublishMotion, PublishZero
  <2> QED
      BY <2>1, <2>2
<1>3. ASSUME NEW p \in Procs, CallStop(p)
      PROVE StopUnderWay'
  <2>1. \A q \in Procs : pc[q] \in {"zero", "cancel"} => pc'[q] = pc[q]
        BY <1>3 DEF CallStop, Goto, TypeOK
  <2> QED
      BY <1>3, <2>1 DEF CallStop
<1>4. ASSUME NEW p \in Procs, HandleStop(p)
      PROVE StopUnderWay'
  <2>1. CASE pc[p] = "stop"
    <3>1. pc'[p] = "zero"
          BY <1>4, <2>1 DEF HandleStop, Goto, TypeOK
    <3> QED
        BY <3>1
  <2>2. CASE pc[p] = "zero"
    <3>1. /\ pc'[p] = "cancel"
          /\ "base" \notin moving'
          BY <1>4, <2>2 DEF HandleStop, Goto, TypeOK, PublishZero
    <3> QED
        BY <3>1
  <2>3. CASE pc[p] = "cancel"
    <3>1. /\ "arm" \notin moving'
          /\ estop' = estop
          /\ "base" \in moving' \ overran' => "base" \in moving \ overran
          BY <1>4, <2>3 DEF HandleStop
    <3>2. \A q \in Procs : pc[q] = "zero" => pc'[q] = "zero"
          BY <1>4, <2>3 DEF HandleStop, Goto, TypeOK
    <3> QED
        BY <3>1, <3>2
  <2> QED
      BY <1>4, <2>1, <2>2, <2>3 DEF HandleStop
<1>5. CASE StreamNext
  <2>1. pc' = pc /\ estop' = estop
        BY <1>5 DEF StreamNext, StreamWakes, StreamPublishes, StreamStamps, StreamStops
  <2>2. estop => moving' \ overran' \subseteq moving \ overran
        BY <1>5 DEF StreamNext, StreamWakes, StreamPublishes, StreamStamps,
                    StreamStops, PublishTwist, PublishMotion, PublishZero
  <2> QED
      BY <2>1, <2>2
<1>6. CASE OwnerNext
  <2>1. pc' = pc /\ estop' = estop
        BY <1>6 DEF OwnerNext, SignalStream, JoinStream, JoinFails,
                    ZeroAfterStream, LaunchStream, UpdateStream, threads
  <2>2. moving' \ overran' \subseteq moving \ overran
        BY <1>6 DEF OwnerNext, SignalStream, JoinStream, JoinFails,
                    ZeroAfterStream, LaunchStream, UpdateStream, PublishZero
  <2> QED
      BY <2>1, <2>2
<1>7. CASE Reset
      BY <1>7 DEF Reset
<1>8. CASE Expire \/ ArmArrives
  <2>1. pc' = pc /\ estop' = estop
        BY <1>8 DEF Expire, ArmArrives, threads
  <2>2. moving' \ overran' \subseteq moving \ overran
        BY <1>8 DEF Expire, ArmArrives
  <2> QED
      BY <2>1, <2>2
<1> QED
    BY <1>1, <1>2, <1>3, <1>4, <1>5, <1>6, <1>7, <1>8 DEF Next

(* The latch, the threads and the stream keep their types. *)
THEOREM MotionTypes == Spec => []TypeOK
BY InitiallyStill, StepTypes, PTL DEF Spec

(* A completed emergency stop leaves the robot still, but for messages     *)
(* published after the latch: whatever stops, resets and commands of how   *)
(* many threads interleave with it.                                        *)
THEOREM CompletedStopIsStill == Spec => []StoppedMeansStill
<1>1. TypeOK /\ StopUnderWay => StoppedMeansStill
      BY DEF TypeOK, StopUnderWay, StoppedMeansStill, Stopping, Axes
<1> QED
    BY <1>1, InitiallyStill, StepTypes, StepKeepsStop, PTL DEF Spec

(* Every step keeps the stream's end in order. *)
LEMMA StepKeepsStream == TypeOK /\ StreamEnds /\ [Next]_vars => StreamEnds'
<1> SUFFICES ASSUME TypeOK, StreamEnds, [Next]_vars PROVE StreamEnds'
    OBVIOUS
<1> USE DEF StreamEnds, Streaming, StreamGone
<1>1. CASE UNCHANGED vars
      BY <1>1 DEF vars, threads
<1>2. ASSUME NEW c \in Commanders, Handle(c) \/ Move(c) \/ Stamp(c)
      PROVE StreamEnds'
  <2>1. /\ UNCHANGED <<stream, halted, owner>>
        /\ Streaming' => Streaming
        BY <1>2 DEF Handle, Move, Stamp, PublishTwist, PublishMotion, PublishZero
  <2> QED
      BY <2>1
<1>3. ASSUME NEW p \in Procs, CallStop(p) \/ HandleStop(p)
      PROVE StreamEnds'
  <2>1. /\ UNCHANGED <<stream, halted, owner>>
        /\ Streaming' => Streaming
        BY <1>3 DEF CallStop, HandleStop, PublishZero
  <2> QED
      BY <2>1
<1>4. CASE StreamWakes \/ StreamStamps
      BY <1>4 DEF StreamWakes, StreamStamps, TypeOK
<1>5. CASE StreamPublishes \/ StreamStops
      BY <1>5 DEF StreamPublishes, StreamStops, PublishZero, TypeOK
<1>6. CASE SignalStream \/ JoinStream \/ JoinFails
      BY <1>6 DEF SignalStream, JoinStream, JoinFails, TypeOK
<1>7. CASE ZeroAfterStream \/ LaunchStream \/ UpdateStream
      BY <1>7 DEF ZeroAfterStream, LaunchStream, UpdateStream, PublishZero,
                  threads, TypeOK
<1>8. CASE Reset \/ Expire \/ ArmArrives
      BY <1>8 DEF Reset, Expire, ArmArrives, threads
<1> QED
    BY <1>1, <1>2, <1>3, <1>4, <1>5, <1>6, <1>7, <1>8
       DEF Next, StreamNext, OwnerNext

(* The base keeps no velocity of a stream that is gone, unless the caller  *)
(* that ended it is about to publish the zero Twist: whether the stream    *)
(* was stopped, restarted or lost its connection, and although the join    *)
(* of stop_continuous_navigate may fail.                                   *)
THEOREM StreamLeavesNoMotion == Spec => []NoOrphanMotion
<1>1. Init => StreamEnds
      BY DEF Init, StreamEnds, Streaming, StreamGone
<1>2. StreamEnds => NoOrphanMotion
      BY DEF StreamEnds, NoOrphanMotion, Streaming, StreamGone
<1> QED
    BY <1>1, <1>2, InitiallyStill, StepTypes, StepKeepsStream, PTL DEF Spec
=============================================================================
