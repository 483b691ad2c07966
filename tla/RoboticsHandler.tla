-------------------------- MODULE RoboticsHandler --------------------------
(***************************************************************************)
(* RoboticsExecutionHandler (robotics_handler.py): motion commands, the    *)
(* emergency stop, the command watchdog, the sensor loop and the           *)
(* continuous velocity stream, each on its own thread.                     *)
(*                                                                         *)
(* moving holds the axes the last message left in motion: "base" after a   *)
(* Twist other than zero on /cmd_vel, "arm" while a trajectory goal runs.  *)
(* Gripper and head commands are momentary and only refresh the watchdog.  *)
(* fresh says that _last_command_time is within the watchdog's timeout.    *)
(* The robot is assumed to receive what is published, and the threads of   *)
(* start_watchdog and start_sensor_feedback to be running.                 *)
(***************************************************************************)

CONSTANTS Commanders,  \* threads that call handle
          Watchdog,    \* the thread of _watchdog_loop
          Sensor       \* the thread of _sensor_loop

Procs == Commanders \cup {Watchdog, Sensor}
Axes == {"base", "arm"}

ASSUME ThreadsDistinct ==
    Watchdog \notin Commanders /\ Sensor \notin Commanders /\ Watchdog # Sensor

VARIABLES
    estop,    \* _emergency_stop_active
    moving,   \* the axes in motion
    fresh,    \* the watchdog has not expired
    pc,       \* what each thread does next
    stream,   \* what the thread of _continuous_loop does next; "off" and
              \* "lost" when there is none, "lost" after a lost connection
    halted,   \* _continuous_stop_event
    owner,    \* what the caller of start/stop_continuous_navigate does next
    again,    \* that caller is restarting the stream
    overran,  \* history: axes set in motion under the emergency stop
    driver    \* history: who moved the base last

threads == <<pc, stream, halted, owner, again>>
vars == <<estop, moving, fresh, threads, overran, driver>>

Init ==
    /\ estop = FALSE
    /\ moving = {}
    /\ fresh = TRUE
    /\ pc = [p \in Procs |-> "idle"]
    /\ stream = "off"
    /\ halted = FALSE
    /\ owner = "idle"
    /\ again = FALSE
    /\ overran = {}
    /\ driver = "none"

Goto(p, l) == pc' = [pc EXCEPT ![p] = l]

-----------------------------------------------------------------------------
(* Messages. A motion message is dropped silently when it comes too soon   *)
(* after the last one on its topic; a zero Twist never is.                 *)
PublishMotion(axis, who) ==
    \/ /\ moving' = moving \cup {axis}
       /\ overran' = IF estop THEN overran \cup {axis} ELSE overran
       /\ driver' = IF axis = "base" THEN who ELSE driver
    \/ UNCHANGED <<moving, overran, driver>>

PublishZero ==
    /\ moving' = moving \ {"base"}
    /\ overran' = overran \ {"base"}
    /\ driver' = "none"

(* A Twist: zero or not. *)
PublishTwist(who) == PublishMotion("base", who) \/ PublishZero

-----------------------------------------------------------------------------
(* handle: a motion is refused while the emergency stop is active. The     *)
(* latch is read here, and the message published in a later step.          *)
Handle(c) ==
    /\ pc[c] = "idle"
    /\ ~estop
    /\ \E kind \in Axes \cup {"joint"} : Goto(c, kind)
    /\ UNCHANGED <<estop, moving, fresh, stream, halted, owner, again,
                   overran, driver>>

(* _handle_navigate and its siblings: refused without a connection, or for *)
(* a target, plan or trajectory that fails its checks; published otherwise.*)
Move(c) ==
    /\ pc[c] \in Axes \cup {"joint"}
    /\ \/ /\ Goto(c, "idle")
          /\ UNCHANGED <<moving, overran, driver>>
       \/ /\ Goto(c, "stamp")
          /\ \/ pc[c] = "joint" /\ UNCHANGED <<moving, overran, driver>>
             \/ pc[c] = "base" /\ PublishTwist("command")
             \/ pc[c] = "arm" /\ PublishMotion("arm", "command")
    /\ UNCHANGED <<estop, fresh, stream, halted, owner, again>>

(* _update_watchdog *)
Stamp(c) ==
    /\ pc[c] = "stamp"
    /\ fresh' = TRUE
    /\ Goto(c, "idle")
    /\ UNCHANGED <<estop, moving, stream, halted, owner, again, overran, driver>>

-----------------------------------------------------------------------------
(* Faulty: the watchdog's comparison is turned round. *)
StopWhileFresh(p) ==
    /\ pc[p] = "idle"
    /\ p = Watchdog => fresh
    /\ p \notin Commanders => ~estop
    /\ Goto(p, "stop")
    /\ UNCHANGED <<estop, moving, fresh, stream, halted, owner, again,
                   overran, driver>>

(* Who calls _handle_stop: a robot_stop action at any time; the watchdog   *)
(* and the sensor loop unless the stop is active already.                  *)
CallStop(p) ==
    /\ pc[p] = "idle"
    /\ p = Watchdog => ~fresh
    /\ p \notin Commanders => ~estop
    /\ Goto(p, "stop")
    /\ UNCHANGED <<estop, moving, fresh, stream, halted, owner, again,
                   overran, driver>>

(* Faulty: the latch is set last, after the base and the arm are stopped. *)
StopLatchAfter(p) ==
    \/ /\ pc[p] = "stop"
       /\ PublishZero
       /\ Goto(p, "cancel")
       /\ UNCHANGED <<estop, fresh, stream, halted, owner, again>>
    \/ /\ pc[p] = "cancel"
       /\ moving' = moving \ {"arm"}
       /\ overran' = overran \ {"arm"}
       /\ Goto(p, "zero")
       /\ UNCHANGED <<estop, fresh, stream, halted, owner, again, driver>>
    \/ /\ pc[p] = "zero"
       /\ estop' = TRUE
       /\ Goto(p, "idle")
       /\ UNCHANGED <<moving, fresh, stream, halted, owner, again, overran, driver>>

(* _handle_stop: latch, zero velocity, cancel the arm's goals. *)
HandleStop(p) ==
    \/ /\ pc[p] = "stop"
       /\ estop' = TRUE
       /\ Goto(p, "zero")
       /\ UNCHANGED <<moving, fresh, stream, halted, owner, again, overran, driver>>
    \/ /\ pc[p] = "zero"
       /\ PublishZero
       /\ Goto(p, "cancel")
       /\ UNCHANGED <<estop, fresh, stream, halted, owner, again>>
    \/ /\ pc[p] = "cancel"
       /\ moving' = moving \ {"arm"}
       /\ overran' = overran \ {"arm"}
       /\ Goto(p, "idle")
       /\ UNCHANGED <<estop, fresh, stream, halted, owner, again, driver>>

(* reset_emergency_stop, by an operator. *)
Reset ==
    /\ estop
    /\ estop' = FALSE
    /\ overran' = {}
    /\ UNCHANGED <<moving, fresh, threads, driver>>

-----------------------------------------------------------------------------
(* _continuous_loop. A lost connection ends the stream with a zero Twist.  *)
StreamWakes ==
    /\ stream = "wait"
    /\ \/ halted /\ stream' = "off" /\ UNCHANGED halted
       \/ ~halted /\ stream' = "publish" /\ UNCHANGED halted
       \/ ~halted /\ stream' = "zero" /\ halted' = TRUE
    /\ UNCHANGED <<estop, moving, fresh, pc, owner, again, overran, driver>>

StreamPublishes ==
    /\ stream = "publish"
    /\ stream' = "stamp"
    /\ PublishTwist("stream")
    /\ UNCHANGED <<estop, fresh, pc, halted, owner, again>>

StreamStamps ==
    /\ stream = "stamp"
    /\ fresh' = TRUE
    /\ stream' = "wait"
    /\ UNCHANGED <<estop, moving, pc, halted, owner, again, overran, driver>>

StreamStops ==
    /\ stream = "zero"
    /\ stream' = "lost"
    /\ PublishZero
    /\ UNCHANGED <<estop, fresh, pc, halted, owner, again>>

StreamNext == StreamWakes \/ StreamPublishes \/ StreamStamps \/ StreamStops

StreamGone == stream \in {"off", "lost"}

(* stop_continuous_navigate, and start_continuous_navigate, which begins   *)
(* with it. Neither looks at the emergency stop.                           *)
SignalStream ==
    /\ owner = "idle"
    /\ halted' = TRUE
    /\ again' \in BOOLEAN
    /\ owner' = IF StreamGone THEN "zero" ELSE "join"
    /\ UNCHANGED <<estop, moving, fresh, pc, stream, overran, driver>>

(* Faulty: the zero Twist is published while the loop is still running. *)
JoinNothing ==
    /\ owner = "join"
    /\ owner' = "zero"
    /\ UNCHANGED <<estop, moving, fresh, pc, stream, halted, again, overran, driver>>

(* The join is assumed not to time out: a publication takes less than 2 s. *)
JoinStream ==
    /\ owner = "join"
    /\ StreamGone
    /\ owner' = "zero"
    /\ UNCHANGED <<estop, moving, fresh, pc, stream, halted, again, overran, driver>>

(* A loop that loses its connection assigns None to _continuous_thread; if *)
(* that comes between the test and is_alive, the caller fails.             *)
JoinFails ==
    /\ owner = "join"
    /\ stream = "lost"
    /\ owner' = "idle"
    /\ again' = FALSE
    /\ UNCHANGED <<estop, moving, fresh, pc, stream, halted, overran, driver>>

ZeroAfterStream ==
    /\ owner = "zero"
    /\ PublishZero
    /\ owner' = IF again THEN "launch" ELSE "idle"
    /\ UNCHANGED <<estop, fresh, pc, stream, halted, again>>

LaunchStream ==
    /\ owner = "launch"
    /\ stream' = "wait"
    /\ halted' = FALSE
    /\ again' = FALSE
    /\ owner' = "idle"
    /\ UNCHANGED <<estop, moving, fresh, pc, overran, driver>>

(* update_continuous_navigate refreshes the watchdog. *)
UpdateStream ==
    /\ owner = "idle"
    /\ fresh' = TRUE
    /\ UNCHANGED <<estop, moving, threads, overran, driver>>

OwnerNext ==
    \/ SignalStream \/ JoinStream \/ JoinFails \/ ZeroAfterStream
    \/ LaunchStream \/ UpdateStream

-----------------------------------------------------------------------------
(* The watchdog's timeout passes; the arm reaches its goal. *)
Expire ==
    /\ fresh
    /\ fresh' = FALSE
    /\ UNCHANGED <<estop, moving, threads, overran, driver>>

ArmArrives ==
    /\ "arm" \in moving
    /\ moving' = moving \ {"arm"}
    /\ overran' = overran \ {"arm"}
    /\ UNCHANGED <<estop, fresh, threads, driver>>

Next ==
    \/ \E c \in Commanders : Handle(c) \/ Move(c) \/ Stamp(c)
    \/ \E p \in Procs : CallStop(p) \/ HandleStop(p)
    \/ StreamNext \/ OwnerNext
    \/ Reset \/ Expire \/ ArmArrives

Spec == Init /\ [][Next]_vars

(* The threads keep running, publishing never blocks, the clock runs. No   *)
(* one is obliged to command, to stop, to restart or to reset.             *)
FairSpec ==
    /\ Spec
    /\ \A c \in Commanders : WF_vars(Move(c)) /\ WF_vars(Stamp(c))
    /\ \A p \in Procs : WF_vars(HandleStop(p))
    /\ WF_vars(CallStop(Watchdog))
    /\ WF_vars(StreamNext)
    /\ WF_vars(JoinStream \/ JoinFails) /\ WF_vars(ZeroAfterStream) /\ WF_vars(LaunchStream)
    /\ WF_vars(Expire)

-----------------------------------------------------------------------------
TypeOK ==
    /\ estop \in BOOLEAN /\ fresh \in BOOLEAN
    /\ moving \subseteq Axes /\ overran \subseteq Axes
    /\ pc \in [Procs -> Axes \cup {"idle", "joint", "stamp", "stop", "zero", "cancel"}]
    /\ \A p \in {Watchdog, Sensor} : pc[p] \in {"idle", "stop", "zero", "cancel"}
    /\ stream \in {"off", "lost", "wait", "publish", "stamp", "zero"}
    /\ owner \in {"idle", "join", "zero", "launch"}
    /\ halted \in BOOLEAN /\ again \in BOOLEAN
    /\ driver \in {"none", "command", "stream"}

Stopping == \E p \in Procs : pc[p] \in {"zero", "cancel"}

(* What is in motion under the latch and did not overrun it has a stop     *)
(* still on its way to it.                                                 *)
StopUnderWay ==
    /\ estop /\ "base" \in moving \ overran => \E p \in Procs : pc[p] = "zero"
    /\ estop /\ "arm" \in moving \ overran =>
           \E p \in Procs : pc[p] \in {"zero", "cancel"}

(* Once an emergency stop has run to its end the robot is still, however   *)
(* the stops of several threads, resets and commands interleave, except    *)
(* for a message published after the latch was set: a command that had     *)
(* already passed handle's test, or the stream, which does not test.       *)
StoppedMeansStill == estop /\ ~Stopping => moving \subseteq overran

(* The base never keeps a velocity of a stream that is gone: whichever way *)
(* _continuous_loop ends, a zero Twist follows its last message.           *)
NoOrphanMotion ==
    ("base" \in moving /\ driver = "stream") =>
        ~StreamGone \/ owner \in {"join", "zero"}

(* The dead-man's switch: when commands, stream and updates cease, the     *)
(* watchdog brings the robot to rest, unless a message overran a stop. In  *)
(* that case it does not act, because the stop counts as active.           *)
Quiet == /\ \A c \in Commanders : pc[c] \notin Axes \cup {"joint", "stamp"}
         /\ StreamGone /\ owner = "idle" /\ ~fresh

DeadMan == <>[]Quiet => <>[](moving \subseteq overran)

(* What handle's comment says of the latch: all motion is refused while it *)
(* is active.                                                              *)
NoMotionUnderStop == [][estop /\ estop' => moving' \subseteq moving]_vars
=============================================================================
