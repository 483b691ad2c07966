# ShugoCore: TLA+ models, model checks and proofs

ShugoCore is an agent runtime written in Python. Models propose actions; a
deterministic core decides whether they may run, keeps the record of what ran and
moves hardware. This directory models the parts whose errors a test would hardly
find: the execution governor, the fallback controller, the engine's gated pipeline,
the Android lifecycle on top of them, the approval broker, the egress circuit
breaker, the episodic journal, the audit chain and its sinks, the robotics handler,
the mesh election, turns forwarded over the mesh and the split-model host. Each
module is written from the source under `src/`; `PROJECT.json` maps every definition
to its lines.

## 1. Inventory

| Component | State | Operations | Interacts with | What is hard | What makes it correct |
|---|---|---|---|---|---|
| Execution governor, `state_machine.py` | agent state, latch, task start, steps used, last progress | `begin_task`, `step`, `consume_step`, `end_task`, `pause`, `safe_state`, `halt`, `resume` | called by every engine thread, by the fallbacks and by operators | latches arrive in mid-task; every method looks at the state *or* the latch | a latch survives the task, takes hold after it and is released by an operator only; HALTED is final |
| Fallback controller, `fallbacks.py` | violation counts, claimed mode | `evaluate`, `report_violation`, `_fire`, `resume` | latches the governor; called by engine, monitors, workers | `_fire` and `resume` are several unlocked steps | an escalation is never lost to a concurrent resume |
| Decision engine, `decision_engine.py` | per call: stage, decision, plan, exception; shared trail and counters | `execute_task`, `_run_gated_task`, `_gate_decision`, `_execute_multi_step` | governor, fallbacks, consents, approvals, memory, execution layer | several threads, exceptions at every stage, waits between check and use | the governor is always given back; read-only tasks have no side effect; every task returns |
| Consent registry, `policy.py` | grants with expiry | grant, revoke, `has_grant` | gate of the engine | grants that end between check and use | no side effect without a grant |
| Approval broker, `policy.py` | pending records | `request_approval`, `_ask_operator`, `approve`, `deny` | engine, human channel, console | three parties race for a record | the first resolution wins, the default is denial, no record outlives its waiter |
| Circuit breaker, `security.py`, used in `execution_layer.py` | failures, opening time | `allow`, `record_success`, `record_failure` | every thread that sends to the host | outcomes arrive in any later state | open iff exhausted; an open circuit admits again |
| Episodic memory, `memory_system.py` | ring, journal file, sequence, in-flight flag | `record`, `drain`, `mark_consolidated`, `_compact_journal`, replay | consolidation threads, Tier 2 | crashes, failing disk and store, overlapping consolidations | no event is lost before Tier 2 holds it |
| Mesh election, `mesh_election.py` | table of peers, sequence, winner, disagreements | `observe_heartbeat`, `local_heartbeat`, `tick`, `drop_node` | heartbeats of other nodes | loss, repetition, restarts, lapses | leaders do not see each other; the fleet converges |
| Scratchpad, Tier 2 and Tier 3, `memory_system.py`, `pg_memory.py` | tokens, facts, rules | add, flush, store, check | engine, consolidation | token account at its bound | the count equals the contents |
| Audit chain and sinks, `audit.py` | file, last hash and sequence per chain object, sink queue, batch, counters | `append`, `verify`, `_load_existing`, `submit`, `_flush_once` | everything writes to it | torn writes, restarts, several chain objects, full queues, failing deliveries | verify fails only for damage; an acknowledged entry is lost only to a fault; losses of a mirror are counted |
| Task manager, `task_manager.py` | bounded queue, worker | submit, worker loop, stop | engine | full queue, stop with queued work | every accepted task is run or reported |
| Autonomy, continuous agent, `autonomy.py`, `continuous_agent.py` | cycle state, stop event | cycle, consolidate, start, stop | engine, memory, fallbacks | overlapping loops | one loop at a time |
| Human interaction, attention | bus, signals with freshness | publish, verdict | engine's gate | stale signals | absent never reads as attending |
| Robotics handler, `robotics_handler.py` | emergency-stop latch, last command's time, stream thread | `handle`, `_handle_stop`, `reset_emergency_stop`, continuous navigation, watchdog and sensor loops | engine, ROS | a stop against a command past its test, a stream that ends by itself, a watchdog and a sensor that stop too | once a stop is through, nothing moves; silence brings the robot to rest |
| Actuation sandbox | bounds | check | engine | none of the above | outside the models |
| Android lifecycle and monitor, `android_runtime.py` | runtime state, streak and report flags | `on_create`, `on_pause`, `on_resume`, `on_destroy`, `_monitor_loop` | fallbacks, governor | callbacks race tasks, operators and each other's latches | a pause holds; a refused resume is not one |
| Forwarded turns and delegation, `shugocore_agent.py` | waiters and results of turns, pending delegations | `_forward_turn`, `_answer_forwarded_turn`, `_mesh_delegate`, `_handle_delegated_action`, result handlers, retry | election's lease, mesh transport, speakers | lost frames, a lease that moves, time-outs against late answers | a turn is answered, and once |
| Mesh model host, `mesh_model_host.py`, planner in `mesh_rpc.py` | split, child process, pins, failure count, pending change | `start`, `stop`, `reconcile` | peripherals over the mesh, the port, the desktop agent's loop | minutes-long checks of a fleet that changes meanwhile | it serves again or gives up; devices without layers are released |
| Mobile nodes, `mobile_nodes.py` | registry, results | pair, compute | ROS topics | late results | each result goes to its request |
| Shells, servers, models, persona, tooling | configuration, text | HTTP, rendering, inference | everything | none of the above | outside the models |

### Which module models what

| Module | Stands for |
|---|---|
| `Governor` | `ExecutionGovernor`, one action per method. A clock is what the code asks of it: `overdue` (the deadline has passed), `progress` (never, recent, a stall ago). `stepsUsed` saturates one above the budget, where it is only compared. |
| `Fallbacks` (extends `Governor`) | `FallbackController`. `fire[p]` is the list of triggers process `p` is still firing; `NotifyGovernor` and `AssignMode` are the two halves of `_fire`, `ResumeGovernor`, `ClearViolations` and `ResumeMode` the three steps of `resume`. In `FbNext` any caller may use the governor at any time. |
| `Engine` (extends `Fallbacks`) | `execute_task` by a set of threads. `pc[t]` names the next call on shared state; `_check_deadline` and the transition after it are two steps because the lock is released between them. Proposals, invariants and approvals are choices. |
| `EngineHistory` | `Engine` with one history variable, for the read-only property. |
| `ApprovalBroker` | the waiter, the channel's worker thread and the console, per request. |
| `CircuitBreaker` | the breaker of one host and the callers in `_guarded_request`. |
| `EpisodicMemory` | ring, journal and `consolidate_now` by several callers; a store is one step per event type, as in `_consolidate_impl`. `journal` holds the lines that parse and `ending` says whether the file ends with a newline, in the middle of a line or with a line that lacks its newline: what is appended to one of the last two is spoiled. A write may fail, and the process may die, at any of these points. `drained` holds a batch as a set, since only the types and identities of its events matter; `NewerLines` and `Replays` are the replay loop's outcome, which a read error may cut short. `evicted`, `stored`, `unwritten`, `exposed`, `leftOut` and `gap` are history. |
| `MeshElection` | every node's coordinator and the links between nodes. Sequence numbers are compared for equality only, so they are kept modulo `SeqMod`. Frames and faults are external. |
| `AuditLog` | the abstract specification: a file of entries, appended to, whose links hold unless it was damaged. |
| `AuditChain` | chain objects over one file: `append` takes the chain's lock, writes in two halves and may fail at each; recovery adopts the last entry it can read. `Log == INSTANCE AuditLog WITH log <- lines, damaged <- faults > 0` is the refinement mapping. A hash is the identity of its entry. |
| `AuditTrail` (extends `AuditChain`) | the threaded sink: `submit` with its count, its two puts and the count of its drop as steps of their own, the worker's batches, deliveries that fail and may still have arrived. |
| `RoboticsHandler` | `handle` by commanding threads, `_handle_stop` by anyone, the watchdog, the sensor loop, and the continuous stream with the thread that starts and stops it. A velocity is moving or zero. `overran` and `driver` are history. |
| `AndroidRuntime` (extends `Governor`) | lifecycle callbacks and the device monitor; everybody else is `GovNext`. `callback` is the window between the runtime's own state and the governor's. |
| `ForwardedTurns` | turns at a node without the lease: `turn[t]` is the origin's thread, `worker[t]` the primary's thread, `net` the frames of each connection. `Route` sends a reply to the origin or, when that is not known to have a speaker, to another device. A node carries out one delegated action at a time, whoever sent it (the code has a thread per connection), and a delegation is sent and entered in the pending map in one step. `heard`, `timedOut` and `astray` are history. |
| `MeshModelHost` | the host's loop, one step per wait. `Plan` is the greedy planner with exclusions and pins. `port` tells a process that holds the port and does not answer `/health` from one that does; `flaw` is a device that keeps a split from answering `/health`, or from completing. History: `asked` is the last request sent to each peripheral, `leftOn` the ones asked to start and left out without a request to stop, `localRun` whether the model was launched without remote layers since the failure count was 0, or only refused for the port. |
| `MC*` | constants for TLC; `MCGuards` puts the broker and the breaker side by side, which share nothing. |
| `*Proofs` | theorems: `GovernorProofs`, `RoboticsHandlerProofs`, `MeshElectionProofs`, `MeshModelHostProofs` and `ForwardedTurnsProofs` about the module they are named after, `EngineProofs` about `Fallbacks`, `Engine` and `EngineHistory`, `GuardProofs` about `ApprovalBroker`, `CircuitBreaker` and `AndroidRuntime`, `JournalProofs` about `AuditChain`, `AuditTrail` and `EpisodicMemory`. |

Definitions introduced by "Faulty:" are broken variants of the definition that
follows them. No specification uses them: each is put in the place of the
original to confirm that a property notices the fault ("mutants" in
`PROJECT.json`).

`Engine` uses the broker and the breaker by their contract: `Approval(t)` returns
either verdict after finite time (which `RequestReturns` shows of the broker) and
a dispatch may fail.

## 2. Runs

Run with `tlc -config <cfg> <module>`.

| Run | What it checks |
|---|---|
| `engine_one` | One thread, a monitor that pauses and halts, an operator, plans of up to two steps, threshold 2. `QuietGovernorIsFree`, `PipelineFollowsMatrix`, `ReadOnlyTaskHasNoSideEffect`, `EscalationIsNotLost`, the types of the engine and of all it extends, and the refinement `GovSpec`: 2.0 million states. |
| `engine_live` | One thread, monitor and operator under fairness, severities that halt. `TaskReturns`, `LatchTakesHold` and the refinement `FbSpec`. |
| `android` | Every call of the governor at any time, the lifecycle and the monitor with the default severities. `PauseHolds`, `ForegroundIsNotHeld`, and the governor's own `LatchIsReleasedByResumeOnly`. |
| `guards` | Two requests: `FirstResolutionWins`, `NoRecordOutlivesItsWaiter`, `RequestReturns`. Beside them three callers of the breaker, threshold 3, with late successes and failures from every earlier state: `OpenIffExhausted`, `OpenCircuitCloses`. 0.18 million states. |
| `episodic` | Ring of 2, 3 events of 2 types, 2 consolidators, failing and torn appends, failing stores, compactions and replays, crashes anywhere, within an append too. `RingIsJournaled`, `OnlyExposedEventsAreLost`, `ReplayDropsNothing`: 1.8 million states. |
| `audit` | Two appenders, four entries, one fault, one restart, a queue of 1, batches of 2, one retry. `VerifyFailsForAReason`, `LossIsBounded`, `LossesAreCounted`, `MirrorFollowsChain`, the refinement `ImplementsLog`, and `SinkSettles`: 0.47 million states. Deadlock is off: the trail rests when its entries are used up. |
| `motion` | Two commanders, watchdog, sensor and a stream. `StoppedMeansStill`, `NoOrphanMotion`, `DeadMan`: 0.7 million states. |
| `mesh` | Two nodes of equal priority, each fit or not at the start, one frame per link, any fault at any time. `NoMutualLeaders`, `Converges`. |
| `turns` | Two turns at a phone beside a hub, one fault (a lease that moves, a broken connection, a failing speaker), two sends per reply. `ResultsAreCollected`, `AnswerIsHeard`, `SecondMouthHasACause`, `TurnEnds`: 1.3 million states. Deadlock is off: all turns end. |
| `host` | Two devices with room for 0 to 2 layers or too hot, a budget of 2, one flaw (device 2 keeps a split from answering `/health`, or device 1 from completing), two faults, `max_restarts` 3 and `stable_runs` 2 as in the code. `ReleasedIsTold`, `LocalIsTriedLast`, `VerifiedIsOurs`, `Recovers`, `HotIsRelieved`: 0.7 million states. |
| `engine_reentrancy` | Two threads: shows a statement of the repository violated; section 4. |
| `episodic_crash` | One consolidator, nothing fails but the process: shows a statement of the repository violated; section 4. |

Why the bounds are enough. A step budget of 1 reaches both sides of
`OverBudget`; thresholds 1 and 2 reach "first report" and "one below". Two threads
are the fewest that overlap, and the engine's threads interact through the
governor and the controller only, where a third adds no new order of two calls.
Two-step plans pass from one step to the next with either refused, invalid or
raising. Three events against a ring of two make eviction and a batch of more than
one type happen with a second batch after it. A fault is a loss, a repetition,
a lapse, a removal, a restart or a change of condition, on top of any initial
condition; two nodes already disagree in every way the rank
allows, and roles and any number of nodes are covered by the theorem. A sequence
modulus of 2 makes a restarted node's number meet the remembered one. A queue of
one is full as soon as it holds anything, so that two submitters meet at the limit,
and a batch of two is larger than the queue. A torn line needs one fault and one
restart; the theorem has any number of both. Two turns are the fewest that share the
pending map of a peer. Two devices with budget 2 make the planner fill one, share
between both and spill from one to the other; with three restarts they are as many as
the watchdog can shed.

Fairness. Engine: `WF` on every thread inside `execute_task` (nothing it calls
blocks for ever: an approval ends at its time-to-live, requests time out) and on a
monitor that has begun to fire; nobody is obliged to submit, report, resume or
grant. Broker: only the waiter, whose `event.wait(ttl)` ends; operator and console
may never answer. Breaker: callers keep sending, requests end, the clock runs.
Mesh: every node's loop heartbeats and ticks, and a connection delivers;
faults are bounded by `MaxFaults`, which is what "eventually" needs. Audit: a
thread inside `submit` and the sink's worker run on; nobody has to append. Robotics:
the watchdog's loop, a command or stop under way, the stream and the thread that
joins it; nobody has to command, update or reset. Turns: only the origin's thread,
whose wait is bounded; a primary, a worker or a link may stay silent for ever. Host:
the agent's loop calls `reconcile` again and again and each wait in it is bounded;
pins and the cooldown run out.

## 3. Proofs

Checked by `tlapm` for every value of the constants that satisfies the named
assumptions (budget, thresholds, capacities and limits are naturals, positive where the
code makes them so; priorities naturals, threads are reporting processes, node
identifiers positive, the threads of the robotics handler distinct, the tokens for
"none" different from what they stand beside). Every invariant, action property and
refinement the runs check is also a theorem. Two hypotheses occur, which are part of
their theorems and are what the code needs too: one chain object per file (`OneChain`, see
section 4 for the node that has two), and tasks that do not overlap (`OneTaskAtATime`,
which section 4 shows the code does not ensure).

* `GovernorProofs`. `GovInv` is the types and `LatchShown`. `LatchShown` is
  inductive with them because no transition of the matrix enters a latched mode
  (`AllowedIsTransient`). `HaltedIsTerminal` and `LatchIsReleasedByResumeOnly` are
  action properties proved from it, one case per method.
* `EngineProofs`, about `Fallbacks`, `Engine` and `EngineHistory`.
  - `FbSpec => GovSpec` by cases of `FbNext`, so the governor's theorems carry over.
    `FbInv` adds the controller's types and `EscalationIsNotLost`, which is inductive
    once one knows that the governor is latched when `notified` is set and that a count
    is cleared only by an operator past `ResumeGovernor`.
  - `Spec => FbSpec` and so `Spec => GovSpec`, for any number of threads: the engine
    never goes past the interfaces, and inherits what is proved of them
    (`EngineKeepsTheGuarantees`). `EngInv` says that a thread at a gate or a dispatch
    has an action planned and that only the governor's errors escalate.
  - `QuietGovernorIsFree` needs one more idea: each end of a task frees the governor
    although another may be in flight, so the last one to end leaves it free.
  - `PipelineFollowsMatrix` under `[]OneTaskAtATime`, and without a hypothesis for a
    single caller. `StageInv` says where the governor stands at each `pc` of a task in
    flight. Latches and resumes keep it: a latch leaves the state of a started task
    alone, and a resume finds no latched mode in it. So the runaway-loop refusal is a
    sign of overlapping tasks and of nothing else.
  - `ReadOnlyTaskHasNoSideEffect` needs `ReadOnlyInv`: a read-only thread is never past
    the mode's test with a side-effecting action.
* `GuardProofs`, about `ApprovalBroker`, `CircuitBreaker` and `AndroidRuntime`.
  `RecordOK` ties a request's record, the first resolution and the waiter's state
  together; both of the broker's properties follow. `OpenIffExhausted` is inductive
  with the types. `RtSpec => GovSpec`; `RtInv` adds to `PauseHolds` and
  `ForegroundIsNotHeld` what is known between the two steps of a callback: the runtime
  is paused, and its own latch is not there yet or not any more.
* `RoboticsHandlerProofs`. `StoppedMeansStill` is not inductive: it says nothing while
  a stop is under way. `StopUnderWay` adds that what moves under the latch and did
  not overrun it still has its zero or its cancellation coming. `StreamEnds` does the
  same for `NoOrphanMotion`: a stream ends because its owner told it to and is still to
  publish the zero, or because it lost its connection and has published it itself.
* `JournalProofs`, about `AuditChain`, `AuditTrail` and `EpisodicMemory`.
  - `Spec => Log!LogSpec`, the refinement. The invariant says that the holder of the
    lock is the only one between its entry and its write, that the tail and the
    sequence are those of the last line while nothing failed, and that an open line
    belongs to a writer. `VerifyFailsForAReason` follows by the same links;
    `LossIsBounded` needs `LossInv`: the acknowledged entries that are missing, and the one
    a torn line is about to cost, have each been paid for by a fault.
  - `TrailSpec => Spec`: the sink is outside the chain's lock and changes nothing of
    the chain, so all of the above holds behind it. `LossesAreCounted`, which allows
    for the submitters between their count and their put, is inductive once the ones that
    have made room and not put again are added; `MirrorFollowsChain` with what they are
    about to put.
  - `MemInv` for the episodic memory: ring and journal are in the order of their numbers
    (`InOrder`; the journal unless a replay was cut short); the copy of a
    ring's event, unless unwritten, is as near to the journal's end as the event is to
    the ring's (`Aligned`); a recorded
    event is settled (stored, evicted, unwritten, exposed or left out) or journaled, and
    what is journaled and not settled is in the ring or in the batch of a consolidation
    that runs (`NothingForgotten`). The last part is what a compaction relies on.
    `Replays` states the loop of `_replay_journal` by the lines it keeps and not by
    recursion, so that nothing needs induction over the journal.
* `MeshElectionProofs`. `ElectedOK`: a node's winner is the best of the candidates
  of its last tick. The rank is total and transitive, so two nodes that are each
  best among candidates including the other are equal. Nothing about the network
  is used: the result holds for any faults.
* `MeshModelHostProofs`. `ReleaseInv` follows a device from the request to start to
  the request to stop through the steps of a check: outside a pre-flight, who was asked
  to start has layers or is counted in `leftOn`. `ShedInv` says that each failure in a
  row but the first has cost a device its layers, and that a failure without remote
  layers was a launch on the host alone or a start refused for the port. A count at
  `MaxRestarts` then finds no device left, or so many at first that the restarts could
  not shed them all; nothing is assumed of how many there are.
* `ForwardedTurnsProofs`. `MouthInv`: the right to speak the reply to a turn is in one
  place (the origin's thread, the primary's worker, an uncollected refusal, a frame, a
  delegated action, a retry thread, or used up) and there once, unless the turn timed
  out, was routed to another device or went astray. A step moves the right or leaves it; none copies it.
  `SecondMouthHasACause` follows. `HeardInv`: until the first fault all nodes name the
  same primary, nobody refuses, and on the connection from the primary to the origin the
  request to speak is ahead of the outcome, or has been met. `AnswerIsHeard` follows from
  both.

Only model-checked: liveness under fairness (`TaskReturns`, `LatchTakesHold`,
`RequestReturns`, `OpenCircuitCloses`, `Converges`, `DeadMan`, `SinkSettles`,
`TurnEnds`, `Recovers`, `HotIsRelieved`), which the prover does not reach.

## 4. Divergences from what the repository says

With a run (details in `PROJECT.json`, "findings"):

* `engine_reentrancy`. Early returns step the governor to IDLE before the `finally`
  clause calls `end_task`; a second task begins in the gap. In the same gap `begin_task`
  does not see a PAUSED latch, which the task in flight hides from the state.
* `episodic_crash`. A batch is drained, newer events are recorded, and the process dies
  before Tier 2 has stored the batch. The journal then has more lines than the ring has
  room for; the replay pushes out the oldest, and the next compaction rewrites the
  journal without them (`memory_system.py:189`, against `:131-133`, "so a crash between
  the two is recoverable rather than silent loss").

Stated in a module and refuted by TLC when put in place of a run's properties:

* `HaltLatchIsTerminal` (`engine_one`). A halt latched under a task is replaced by a
  later pause, since `_latch` tests the state only (`state_machine.py:199`; `:70` says
  "terminal until process restart"). `continuous_agent.py:187` is such a pause: it
  reports the very exception of the halt.
* `NoSideEffectInSafeState` (`engine_one` with `human_presence_detected` among the
  reported kinds). The mode is read before the approval's wait and not after
  (`decision_engine.py:1289`; `state_machine.py:68` says that the engine "refuses all
  side-effecting actions").
* `NoEventIsLost` (`episodic`), in more ways than in `episodic_crash`. After a failed
  store, the next acknowledgement drops the failed batch's journal copy
  (`memory_system.py:249`, against `:1537`), and overlapping consolidations lose a batch
  in the same way (`exposed`). A short write, or a crash within one, leaves a torn line;
  the next append continues it, and a replay drops both (`:171-174`, `:190`;
  `unwritten`). A read error ends a replay, and the rest of the journal goes with the
  next compaction (`:194`; `leftOut`). `OnlyExposedEventsAreLost` shows that in the model
  every loss is one of these.
* `NoMotionUnderStop` (`motion`). A command that has passed `handle`'s test, and the
  stream, which has none, publish after the latch is set (`robotics_handler.py:122`:
  "refuse all motion while active").
* `OneMouth` (`turns`). The origin answers itself at its deadline and the primary's
  answer comes later (`shugocore_agent.py:2665`, against "one decision, one mouth").
* `VerifyFailsForAReason` with two chain objects on one file (`audit` with
  `Chains <- NodeAndEngine`, `ChainOf <- TwoChains`, no faults). A full_agent node
  opens its audit path twice (`android_node.py:156` and `:404`): the chain forks and
  verification fails although nothing was tampered with.
* `LocalIsTriedLast` (`host`) with `localRun = "launched"` in place of `localRun # "no"`.
  The last start, the one without remote layers, is refused because another process
  answers on the port (`mesh_model_host.py:626-633`); the refusal counts as a failure
  (`:836`) and the watchdog gives up (`:802`) although the model was never launched on the
  host alone (`tests/test_mesh_model_host.py:456-457`: "it gave up only after trying with no
  remote layers at all"). With three devices whose splits do not answer, three restarts
  shed two of them, and the host gives up with layers still remote (against `:775`,
  "until the model runs locally rather than not at all").
* `ReleasedIsTold` (`host`) without `leftOn`. A device that held layers and has no
  endpoint at the next start, or is asked again and does not come up, is left out and not
  told to stop (`:553-571`); one that was woken for a plan that then changed is not told
  either (`:815-817`: "a device that loses its layers must actually stop serving them").
* `Recovers` and `HotIsRelieved` (`host`) without the exception for `Flawed("probe")`.
  `_relaunch` clears the failure count when `/health` answers, though the probe failed
  (`:833`), so such a split is relaunched for ever, neither degraded nor given up; and as
  the watchdog returns before the rebalance is reached (`:805-807`), a device that has
  become too hot keeps its layers in it.

Visible in the models, without a property:

* `AttentionRefuses`: steps of a plan are gated without the attention state
  (`decision_engine.py:1350`).
* `AssignMode`: the controller claims `paused` after a governor that is halted has
  ignored the pause (`fallbacks.py:166-167`).
* `Allow`: a half-open circuit lets every caller through until the first outcome
  (`security.py:268`).
* `StoreGroup`: a batch stored but not acknowledged is stored again after a crash
  (`memory_system.py:377`).
* `Observed`: a restarted peer that reuses the remembered number is taken for a
  duplicate (`mesh_election.py:248`); two nodes that have not heard each other both
  lead.
* `NotifyGovernor`, `AssignMode`: a resume between the two leaves the controller in a
  mode that switches `evaluate` off under a free governor (`fallbacks.py:177`).
* `Resumed`, `CheckPower`: a resume of the app releases whatever is latched, and a low
  battery that was reported once is not reported again (`android_runtime.py:162`,
  `:207`); after an operator's resume the runtime still counts itself paused.
* `Delegate`, `Retry`: `_delegated_attempt` is never assigned, so each delegation
  starts at attempt 0 and the "bounded retry" has no bound (`shugocore_agent.py:3560`);
  the delegations of a peer overwrite each other, so a refusal may repeat another
  reply (`:3702`, `astray`).
* `MakeRoom`, `PutAgain`: two submitters at a full queue lose two entries and count
  one (`audit.py:128`).
* `Conclude`: after a failed pre-flight the new plan may use a device that was not
  asked, and a serving model is stopped for it (`mesh_model_host.py:762`, against the
  comment at `:754`).
* `StopChild`: an error of `launcher.stop()` is only logged (`:824-827`); the child then
  stays on the port and is taken for another process.
* `Route`: the reply to a turn whose origin is not known to have a speaker goes to
  another device, and the origin, which is told of an error, answers as well
  (`shugocore_agent.py:3480-3494`, `:2772-2776`).
* `AfterHalt`: a `FallbackHalt` raised while a governor error is escalated leaves
  `execute_task` as an exception (`decision_engine.py:1139`).
* `Record`: a launch refused because of the port, or that failed, is recorded as
  "split" (`mesh_model_host.py:606`, against "Intent is not a mode" at `:640`).
* `Rebalance`: a device shed by the watchdog is not pinned and comes back with the next
  rebalance.
* `Stop`: the desktop agent never calls it, so its child outlives it and is the next
  run's port conflict (`scripts/desktop_agent.py:793`).

Outside the models: `_delegated_from` belongs to the agent, so a local tick beside a
delegated action passes the lease gate on its permission (`shugocore_agent.py:3612`); a
`start` after a timed-out `stop` of the continuous agent leaves two loops
(`continuous_agent.py:121`); `TaskManager.stop` abandons queued tasks.

## 5. Not modelled

Proposal, normalisation, learning and the texts of records; SQL storage and retrieval;
the agent shell apart from forwarded turns, and the HTTP servers; the task manager and
the continuous agent, which appear as threads that call the engine; attention, whose
verdict is an input of the gate; the actuation sandbox, ROS and planner bindings; the
RPC process on a peripheral; model backends; deployment tooling; the front ends and the
mirrored copy of the Python modules under `platforms/`. Most of these are sequential
text, SQL, numerics or I/O, where a test says more than a model. 
Hazards seen in the source that no model reaches, besides those of section 4:

* the scratchpad's token count drifts (`memory_system.py:109`);
* a grant may expire while the approval is pending (`decision_engine.py:1298`); a
  deadline that passes during the action reports a done side effect as refused
  (`:1258`); overlapping tasks share `_task_trail` (`:1119`) and the proposer's
  back-off counters (`:689`);
* an idle engine counts as stalled at the next `evaluate` (`fallbacks.py:118`);
* a join that times out forgets a stream that still publishes
  (`robotics_handler.py:363`), and the zero sent on a lost connection is not repeated
  (`:380`);
* the agent's task gate is created lazily (`shugocore_agent.py:4169`), relayed telemetry
  re-observes peers with old numbers (`:3145`), and `_mesh_delegate` takes its map
  before its lock (`:3554`);
* a late result of `compute_request` stays in the table (`mobile_nodes.py:520`).

## 6. Open work

1. `ConsentRegistry` with expiry and the broker composed into the engine's gate, with
   `ApprovalBroker` refining the abstract verdict `Engine` uses.
2. `TaskManager` and the continuous agent as callers of `Engine`: an accepted task is
   run or reported.
3. The agent's feed of the election, and `MeshElection` composed with `ForwardedTurns`
   in place of `LeaseMoves`.
4. Proofs that go with 1 to 3; and `LossIsBounded` for two chain objects, with a bound
   that counts the forks.
