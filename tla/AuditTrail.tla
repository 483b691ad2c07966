----------------------------- MODULE AuditTrail -----------------------------
(***************************************************************************)
(* The audit chain with a threaded sink (audit.py, _BaseThreadedSink) that *)
(* mirrors it: appending threads submit to a bounded queue outside the     *)
(* chain's lock, and the sink's thread takes batches and delivers them     *)
(* with bounded retries.  queue.Queue is atomic per call, the counters per *)
(* section of their lock; submit makes up to five such steps.              *)
(***************************************************************************)
EXTENDS AuditChain

CONSTANTS QueueCap,   \* LOG_SINK_QUEUE_CAP
          BatchMax,   \* LOG_SINK_BATCH_MAX
          MaxRetries  \* LOG_SINK_MAX_RETRIES

ASSUME SinkAssumption ==
    QueueCap \in Nat \ {0} /\ BatchMax \in Nat \ {0} /\ MaxRetries \in Nat

VARIABLES
    queue,      \* _queue, as entry identities
    submit,     \* per thread: the next call of submit
    batch,      \* the batch of _flush_once
    worker,     \* what _flush_once does next
    attempt,    \* its attempt
    submitted, delivered, failed, dropped,  \* stats
    mirror      \* what the sink's store has received

stats == <<submitted, delivered, failed, dropped>>
sinkVars == <<queue, submit, batch, worker, attempt, stats, mirror>>
trailVars == <<vars, sinkVars>>

SinkInit ==
    /\ queue = << >> /\ batch = << >>
    /\ submit = [a \in Appenders |-> "count"]
    /\ worker = "fill" /\ attempt = 0
    /\ submitted = 0 /\ delivered = 0 /\ failed = 0 /\ dropped = 0
    /\ mirror = {}

TrailInit == Init /\ SinkInit

-----------------------------------------------------------------------------
Call(a, l) == submit' = [submit EXCEPT ![a] = l]

(* submit counts the entry and puts it with put_nowait; on a full queue it *)
(* counts a drop, makes room with get_nowait and puts again.  The counters *)
(* have their own lock, so threads interleave between any two of these     *)
(* calls, and each may find that the queue has changed in between.         *)
CountSubmitted(a) ==
    /\ pc[a] = "dispatch" /\ submit[a] = "count"
    /\ submitted' = submitted + 1
    /\ Call(a, "put")
    /\ UNCHANGED <<vars, queue, batch, worker, attempt, delivered, failed,
                   dropped, mirror>>

Put(a) ==
    /\ submit[a] = "put"
    /\ \/ /\ Len(queue) < QueueCap
          /\ queue' = Append(queue, entry[a].id)
          /\ Call(a, "count")
          /\ Dispatched(a)
       \/ /\ Len(queue) = QueueCap
          /\ Call(a, "drop")
          /\ UNCHANGED <<vars, queue>>
    /\ UNCHANGED <<batch, worker, attempt, stats, mirror>>

CountDropped(a) ==
    /\ submit[a] = "drop"
    /\ dropped' = dropped + 1
    /\ Call(a, "get")
    /\ UNCHANGED <<vars, queue, batch, worker, attempt, submitted, delivered,
                   failed, mirror>>

(* Faulty: the entry that makes room is counted as well. *)
MakeRoomCounting(a) ==
    /\ submit[a] = "get"
    /\ \/ /\ queue # << >>
          /\ queue' = Tail(queue)
          /\ dropped' = dropped + 1
          /\ Call(a, "again")
          /\ UNCHANGED vars
       \/ /\ queue = << >>
          /\ Call(a, "count")
          /\ Dispatched(a)
          /\ UNCHANGED <<queue, dropped>>
    /\ UNCHANGED <<batch, worker, attempt, submitted, delivered, failed, mirror>>

MakeRoom(a) ==
    /\ submit[a] = "get"
    /\ \/ /\ queue # << >>
          /\ queue' = Tail(queue)
          /\ Call(a, "again")
          /\ UNCHANGED vars
       \/ /\ queue = << >>
          /\ Call(a, "count")
          /\ Dispatched(a)
          /\ UNCHANGED queue
    /\ UNCHANGED <<batch, worker, attempt, stats, mirror>>

PutAgain(a) ==
    /\ submit[a] = "again"
    /\ queue' = IF Len(queue) < QueueCap THEN Append(queue, entry[a].id) ELSE queue
    /\ Call(a, "count")
    /\ Dispatched(a)
    /\ UNCHANGED <<batch, worker, attempt, stats, mirror>>

Submit(a) ==
    CountSubmitted(a) \/ Put(a) \/ CountDropped(a) \/ MakeRoom(a) \/ PutAgain(a)

-----------------------------------------------------------------------------
(* _flush_once: fill the batch, then deliver it. *)
Fill ==
    /\ worker = "fill"
    /\ queue # << >> /\ Len(batch) < BatchMax
    /\ batch' = Append(batch, Head(queue))
    /\ queue' = Tail(queue)
    /\ UNCHANGED <<vars, submit, worker, attempt, stats, mirror>>

Filled ==
    /\ worker = "fill"
    /\ batch # << >>
    /\ queue = << >> \/ Len(batch) = BatchMax
    /\ worker' = "deliver"
    /\ attempt' = 0
    /\ UNCHANGED <<vars, queue, submit, batch, stats, mirror>>

InBatch == {batch[i] : i \in 1..Len(batch)}

DeliverySucceeds ==
    /\ worker = "deliver"
    /\ mirror' = mirror \cup InBatch
    /\ delivered' = delivered + Len(batch)
    /\ batch' = << >>
    /\ worker' = "fill"
    /\ UNCHANGED <<vars, queue, submit, attempt, submitted, failed, dropped>>

(* Faulty: the attempts start over instead of giving the batch up. *)
DeliveryFailsAgain ==
    /\ worker = "deliver"
    /\ mirror' \in {mirror, mirror \cup InBatch}
    /\ attempt' = IF attempt < MaxRetries THEN attempt + 1 ELSE 0
    /\ UNCHANGED <<vars, queue, submit, worker, failed, batch,
                   submitted, delivered, dropped>>

(* A delivery that failed may still have arrived. *)
DeliveryFails ==
    /\ worker = "deliver"
    /\ mirror' \in {mirror, mirror \cup InBatch}
    /\ \/ /\ attempt < MaxRetries
          /\ attempt' = attempt + 1
          /\ UNCHANGED <<worker, failed, batch>>
       \/ /\ attempt = MaxRetries
          /\ failed' = failed + Len(batch)
          /\ batch' = << >>
          /\ worker' = "fill"
          /\ UNCHANGED attempt
    /\ UNCHANGED <<vars, queue, submit, submitted, delivered, dropped>>

Flush == Fill \/ Filled \/ DeliverySucceeds \/ DeliveryFails

(* A restart empties the queue and the counters; the mirror remains. *)
RestartTrail ==
    /\ Restarts
    /\ queue' = << >> /\ batch' = << >>
    /\ submit' = [a \in Appenders |-> "count"]
    /\ worker' = "fill" /\ attempt' = 0
    /\ submitted' = 0 /\ delivered' = 0 /\ failed' = 0 /\ dropped' = 0
    /\ UNCHANGED mirror

TrailNext ==
    \/ RestartTrail
    \/ \E a \in Appenders : Append1(a) /\ UNCHANGED sinkVars
    \/ \E a \in Appenders : Submit(a)
    \/ Flush

TrailSpec == TrailInit /\ [][TrailNext]_trailVars

(* The threads run on once they have the file or the queue; nobody is      *)
(* obliged to append.                                                      *)
FairTrailSpec ==
    /\ TrailSpec
    /\ \A a \in Appenders : WF_trailVars(Submit(a))
    /\ WF_trailVars(Flush)

-----------------------------------------------------------------------------
(* sink_stats accounts for every entry submitted but those whose submit is *)
(* still between its counters and the queue, up to one uncounted loss per  *)
(* drop: a submitter that made room and lost it to another one loses its   *)
(* own entry as well, and counts once.                                     *)
Accounted == delivered + failed + dropped + Len(queue) + Len(batch)
Submitting == {a \in Appenders : submit[a] \in {"put", "drop"}}
LossesAreCounted ==
    /\ Accounted + Cardinality(Submitting) <= submitted
    /\ submitted <= Accounted + dropped + Cardinality(Submitting)

(* Whatever the mirror holds or is about to receive was written to the     *)
(* chain's file before: a mirror is never ahead of the chain, not over     *)
(* restarts either.                                                        *)
MirrorFollowsChain ==
    mirror \cup InBatch \cup {queue[i] : i \in 1..Len(queue)} \subseteq acked

(* However deliveries fail, the queue and the batch are emptied once no    *)
(* entry comes any more.                                                   *)
SinkSettles == <>[](queue = << >> /\ batch = << >>)
=============================================================================
