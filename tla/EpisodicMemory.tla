--------------------------- MODULE EpisodicMemory ---------------------------
(***************************************************************************)
(* Tier 1 of memory_system.py and the consolidation that empties it: the   *)
(* ring buffer, its write-ahead journal, drain and mark_consolidated, and  *)
(* MemoryManager.consolidate_now, which the maintenance worker, the        *)
(* autonomy loops and shutdown all call.  A batch is stored in Tier 2 one  *)
(* fact per event type; the process may crash between any two steps and    *)
(* restarts by replaying the journal.                                      *)
(***************************************************************************)
EXTENDS Naturals, FiniteSets, SequencesExt

CONSTANTS
    Capacity,       \* max_events of the ring
    MaxEvents,      \* bound on the events recorded
    EventTypes,
    Consolidators,  \* threads that call consolidate_now
    Faults          \* which of "append", "compact", "store", "replay" may fail

ASSUME CapacityAssumption == Capacity \in Nat \ {0}

ASSUME MaxEventsAssumption == MaxEvents \in Nat

VARIABLES
    ring,      \* _events
    journal,   \* the lines of the journal file that parse
    ending,    \* how the file ends: with a "newline", with "part" of a line,
               \* or with a whole "line" that lacks its newline
    lastSeq,   \* _seq
    inFlight,  \* _batch_in_flight
    running,   \* per consolidator: between drain and mark_consolidated
    drained,   \* per consolidator: events of its batch not stored yet
    nextId,    \* history: identity of the next event
    evicted,   \* history: events the sliding window let go of
    stored,    \* history: events Tier 2 has stored
    unwritten, \* history: events whose line was not written, was torn or was
               \* continued by another, and not rewritten since
    exposed,   \* history: events of a batch whose consolidation failed or
               \* overlapped another
    leftOut,   \* history: events a replay found in the journal and did not
               \* put back into the ring
    gap        \* history: a replay was cut short, and the journal has not
               \* been rewritten since

fileVars == <<journal, ending, unwritten, gap>>
memVars == <<ring, fileVars, lastSeq, inFlight, running, drained, nextId,
             evicted, stored, exposed, leftOut>>

IdsOf(es) == {e.id : e \in es}

MemInit ==
    /\ ring = << >>
    /\ journal = << >> /\ ending = "newline"
    /\ lastSeq = 0
    /\ inFlight = FALSE
    /\ running = [c \in Consolidators |-> FALSE]
    /\ drained = [c \in Consolidators |-> {}]
    /\ nextId = 1
    /\ evicted = {} /\ stored = {}
    /\ unwritten = {} /\ exposed = {} /\ leftOut = {}
    /\ gap = FALSE

-----------------------------------------------------------------------------
(* A deque with maxlen keeps the newest events. *)
Newest(s, n) == IF Len(s) <= n THEN s ELSE SubSeq(s, Len(s) - n + 1, Len(s))

Event(ty) == [id |-> nextId, seq |-> lastSeq + 1, type |-> ty]

(* What is written after an unterminated line continues it, and the line   *)
(* does not parse: a whole one is lost with what continues it.             *)
Spoiled(e) ==
    /\ journal' = IF ending = "line" THEN Front(journal) ELSE journal
    /\ unwritten' = unwritten \cup {e.id} \cup
                      (IF ending = "line" THEN {Last(journal).id} ELSE {})

(* _append_journal.  A failing write leaves nothing, part of the line, or  *)
(* all of it but the newline; the error is only logged.                    *)
AppendJournal(e) ==
    \/ /\ ending = "newline"
       /\ journal' = Append(journal, e)
       /\ ending' = "newline" \/ ("append" \in Faults /\ ending' = "line")
       /\ UNCHANGED unwritten
    \/ ending # "newline" /\ ending' = "newline" /\ Spoiled(e)
    \/ "append" \in Faults /\ ending' = "part" /\ Spoiled(e)
    \/ /\ "append" \in Faults
       /\ unwritten' = unwritten \cup {e.id}
       /\ UNCHANGED <<journal, ending>>

(* record: journal first, then the ring, then eviction by age, which may   *)
(* take any number of the oldest events.                                   *)
Record(ty) ==
    /\ nextId <= MaxEvents
    /\ AppendJournal(Event(ty))
    /\ \E n \in 1..Capacity : ring' = Newest(Append(ring, Event(ty)), n)
    /\ lastSeq' = lastSeq + 1
    /\ nextId' = nextId + 1
    /\ evicted' = evicted \cup ((IdsOf(ToSet(ring)) \cup {nextId}) \ IdsOf(ToSet(ring')))
    /\ UNCHANGED <<inFlight, running, drained, stored, exposed, leftOut, gap>>

(* _compact_journal: the journal becomes the given ring, atomically; a     *)
(* failure leaves it as it was.                                            *)
Compact(r) ==
    \/ /\ journal' = r /\ ending' = "newline"
       /\ unwritten' = unwritten \ IdsOf(ToSet(r))
       /\ gap' = FALSE
    \/ "compact" \in Faults /\ UNCHANGED fileVars

(* The batch c has just drained, and every batch it overlaps. *)
Overlapped(c) ==
    IF \E d \in Consolidators : running[d]
    THEN UNION {IdsOf(drained'[d]) : d \in Consolidators} ELSE {}

(* Faulty: drain compacts the journal after it has cleared the ring. *)
DrainThenCompact(c) ==
    /\ ~running[c]
    /\ Compact(<< >>)
    /\ drained' = [drained EXCEPT ![c] = ToSet(ring)]
    /\ ring' = << >>
    /\ inFlight' = (ring # << >>)
    /\ running' = [running EXCEPT ![c] = TRUE]
    /\ exposed' = exposed \cup Overlapped(c)
    /\ UNCHANGED <<lastSeq, nextId, evicted, stored, leftOut>>

Drain(c) ==
    /\ ~running[c]
    /\ IF inFlight THEN UNCHANGED fileVars ELSE Compact(ring)
    /\ drained' = [drained EXCEPT ![c] = ToSet(ring)]
    /\ ring' = << >>
    /\ inFlight' = (ring # << >>)
    /\ running' = [running EXCEPT ![c] = TRUE]
    /\ exposed' = exposed \cup Overlapped(c)
    /\ UNCHANGED <<lastSeq, nextId, evicted, stored, leftOut>>

(* _consolidate_impl: one fact per event type, inserted unconditionally;   *)
(* store_fact may raise, which leaves consolidate_now without              *)
(* mark_consolidated.                                                      *)
StoreGroup(c) ==
    /\ running[c]
    /\ \E f \in drained[c] :
         LET group == {e \in drained[c] : e.type = f.type}
         IN /\ stored' = stored \cup IdsOf(group)
            /\ drained' = [drained EXCEPT ![c] = @ \ group]
    /\ UNCHANGED <<ring, fileVars, lastSeq, inFlight, running, nextId, evicted,
                   exposed, leftOut>>

StoreFails(c) ==
    /\ running[c]
    /\ "store" \in Faults
    /\ running' = [running EXCEPT ![c] = FALSE]
    /\ drained' = [drained EXCEPT ![c] = {}]
    /\ exposed' = exposed \cup IdsOf(drained[c])
    /\ UNCHANGED <<ring, fileVars, lastSeq, inFlight, nextId, evicted, stored,
                   leftOut>>

(* Faulty: the acknowledgement truncates the journal. *)
MarkAndTruncate(c) ==
    /\ running[c]
    /\ drained[c] = {}
    /\ inFlight' = FALSE
    /\ Compact(<< >>)
    /\ running' = [running EXCEPT ![c] = FALSE]
    /\ UNCHANGED <<ring, lastSeq, drained, nextId, evicted, stored, exposed,
                   leftOut>>

MarkConsolidated(c) ==
    /\ running[c]
    /\ drained[c] = {}
    /\ inFlight' = FALSE
    /\ Compact(ring)
    /\ running' = [running EXCEPT ![c] = FALSE]
    /\ UNCHANGED <<ring, lastSeq, drained, nextId, evicted, stored, exposed,
                   leftOut>>

(* _replay_journal keeps a line whose sequence number exceeds all before:  *)
(* the places of the lines it keeps, and the events it reads, which are    *)
(* the lines at these places in their order.                               *)
NewerLines(lines) ==
    {i \in DOMAIN lines :
       /\ lines[i].seq > 0
       /\ \A j \in 1..(i - 1) : lines[j].seq < lines[i].seq}

Enumerations(S) ==
    {k \in [1..Cardinality(S) -> S] :
       \A n \in DOMAIN k : Cardinality({i \in S : i <= k[n]}) = n}

Replays(lines) ==
    {[n \in DOMAIN k |-> lines[k[n]]] : k \in Enumerations(NewerLines(lines))}

LastSeqOf(s) == IF s = << >> THEN 0 ELSE s[Len(s)].seq

(* A read error ends the replay; what was read before it stays. *)
ReadsUpTo(n) == n = Len(journal') \/ "replay" \in Faults

(* The process may die while it appends, which leaves a torn line too. *)
DiesWriting ==
    \/ UNCHANGED <<journal, ending, unwritten, nextId>>
    \/ /\ nextId <= MaxEvents /\ "append" \in Faults
       /\ \E ty \in EventTypes : AppendJournal(Event(ty))
       /\ nextId' = nextId + 1

(* Faulty: the sequence starts again at each start of the process. *)
CrashAndRecount ==
    /\ DiesWriting
    /\ \E r \in Replays(journal') : ring' = Newest(r, Capacity)
    /\ lastSeq' = 0
    /\ inFlight' = FALSE
    /\ running' = [c \in Consolidators |-> FALSE]
    /\ drained' = [c \in Consolidators |-> {}]
    /\ leftOut' = leftOut \cup (IdsOf(ToSet(journal')) \ IdsOf(ToSet(ring')))
    /\ UNCHANGED <<gap, evicted, stored, exposed>>

(* The process dies and starts again: only the journal and Tier 2 remain.  *)
(* Lines that are not newer, not read or without room stay in the journal  *)
(* and out of the ring.                                                    *)
CrashAndRestart ==
    /\ DiesWriting
    /\ \E n \in 0..Len(journal') :
         /\ ReadsUpTo(n)
         /\ gap' = (gap \/ n < Len(journal'))
         /\ \E r \in Replays(SubSeq(journal', 1, n)) :
              /\ ring' = Newest(r, Capacity)
              /\ lastSeq' = LastSeqOf(r)
    /\ inFlight' = FALSE
    /\ running' = [c \in Consolidators |-> FALSE]
    /\ drained' = [c \in Consolidators |-> {}]
    /\ leftOut' = leftOut \cup (IdsOf(ToSet(journal')) \ IdsOf(ToSet(ring')))
    /\ UNCHANGED <<evicted, stored, exposed>>

MemNext ==
    \/ \E ty \in EventTypes : Record(ty)
    \/ \E c \in Consolidators :
         Drain(c) \/ StoreGroup(c) \/ StoreFails(c) \/ MarkConsolidated(c)
    \/ CrashAndRestart

MemSpec == MemInit /\ [][MemNext]_memVars

-----------------------------------------------------------------------------
Recorded == 1..(nextId - 1)

(* The events a crash at this point would lose: Tier 2 has not stored      *)
(* them, they have not slid out of the window, no journal line holds them. *)
Lost == Recorded \ (stored \cup evicted \cup IdsOf(ToSet(journal)))

(* "A drained batch keeps its journal copy until consolidation             *)
(* acknowledges that Tier 2 stored it, so a crash between the two is       *)
(* recoverable" (EpisodicMemory): no event is lost.                        *)
NoEventIsLost == Lost = {}

(* What the journal does guarantee, with crashes between any two steps and *)
(* within a write, torn lines and compactions that fail: an event is lost  *)
(* only if its line was not written or was spoiled by another one, if the  *)
(* consolidation of its batch failed or overlapped another, or if a replay *)
(* left it out of the ring, for want of room or by a read error.           *)
OnlyExposedEventsAreLost == Lost \subseteq unwritten \cup exposed \cup leftOut

(* Whatever consolidations overlap, fail or are cut short by a crash, an   *)
(* event still in the ring has its copy in the journal, unless a torn line *)
(* took it, and among the newest lines: a replay of the whole file finds   *)
(* room for it, and what it leaves out had left the ring before.  After a  *)
(* replay that was cut short the copy may stand anywhere.                  *)
RingIsJournaled ==
    IdsOf(ToSet(ring)) \subseteq
        unwritten \cup IdsOf(ToSet(IF gap THEN journal ELSE Newest(journal, Capacity)))

(* The journal is in sequence order, so a replay, which drops a line that  *)
(* is not newer than the ones before, drops none; except that after a      *)
(* replay that was cut short numbers are used twice, until the journal is  *)
(* rewritten.                                                              *)
ReplayDropsNothing == gap \/ NewerLines(journal) = DOMAIN journal
=============================================================================
