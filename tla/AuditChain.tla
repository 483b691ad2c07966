----------------------------- MODULE AuditChain -----------------------------
(***************************************************************************)
(* The hash-chained audit file of audit.py: appends by several threads     *)
(* through one or more AuditChain objects, writes that are torn or fail,   *)
(* and restarts that adopt the tail of the file.  A full_agent Android     *)
(* node opens two chains on one file, its own and its engine's.            *)
(*                                                                         *)
(* A line reaches the file in two parts, so an interrupted write leaves    *)
(* an unterminated line: part of an entry, or all of it but the newline.   *)
(* Whatever is written next continues that very line.                      *)
(***************************************************************************)
EXTENDS Naturals, Sequences, FiniteSets

CONSTANTS Appenders,   \* threads that call append
          Chains,      \* AuditChain objects on the file
          ChainOf,     \* the object each thread uses
          Nobody,      \* no thread
          MaxEntries,  \* bound: entries made
          MaxFaults,   \* bound: interrupted or failing writes
          MaxRestarts  \* bound: restarts

ASSUME ChainAssumption ==
    ChainOf \in [Appenders -> Chains] /\ Nobody \notin Appenders
ASSUME BoundAssumption ==
    MaxEntries \in Nat /\ MaxFaults \in Nat /\ MaxRestarts \in Nat

VARIABLES
    lines,    \* the terminated lines of the file
    open,     \* the unterminated last line, or NoLine
    sole,     \* the thread whose data alone is in it, or Nobody
    seq,      \* _seq of each chain
    tail,     \* _tail of each chain
    lock,     \* the holder of each chain's _lock, or Nobody
    pc,       \* what each thread does next
    entry,    \* the entry each thread is appending
    made,     \* entries made so far
    acked,    \* history: entries whose append succeeded
    faults,   \* history: writes interrupted or failed once begun, and
              \* files that could not be read
    restarts  \* history: restarts

file == <<lines, open, sole>>
history == <<made, acked, faults, restarts>>
vars == <<file, seq, tail, lock, pc, entry, history>>

Log == INSTANCE AuditLog WITH log <- lines, damaged <- faults > 0

Malformed == Log!Malformed
Genesis == Log!Genesis
NoLine == [seq |-> 0, prev |-> 0, id |-> 1]

(* What a reader gets, and what verify_audit_file says of it. *)
View == IF open = NoLine THEN lines ELSE Append(lines, open)
Verified == Log!Verify(View)

Init ==
    /\ lines = << >> /\ open = NoLine /\ sole = Nobody
    /\ seq = [c \in Chains |-> 0]
    /\ tail = [c \in Chains |-> Genesis]
    /\ lock = [c \in Chains |-> Nobody]
    /\ pc = [a \in Appenders |-> "idle"]
    /\ entry = [a \in Appenders |-> Malformed]
    /\ made = 0 /\ acked = {} /\ faults = 0 /\ restarts = 0

Goto(a, l) == pc' = [pc EXCEPT ![a] = l]
Release(a) == lock' = [lock EXCEPT ![ChainOf[a]] = Nobody]

-----------------------------------------------------------------------------
(* append takes the lock and makes the entry: _make_entry. *)
MakeEntry(a) ==
    LET c == ChainOf[a] IN
    /\ pc[a] = "idle"
    /\ lock[c] = Nobody
    /\ made < MaxEntries
    /\ made' = made + 1
    /\ entry' = [entry EXCEPT ![a] =
                   [seq |-> seq[c] + 1, prev |-> tail[c], id |-> made + 1]]
    /\ lock' = [lock EXCEPT ![c] = a]
    /\ Goto(a, "write")
    /\ UNCHANGED <<file, seq, tail, acked, faults, restarts>>

(* The first part of the line, or all of it but the newline. *)
WriteBegins(a) ==
    /\ pc[a] = "write"
    /\ \/ /\ open = NoLine
          /\ open' \in {Malformed, entry[a]}
          /\ sole' = a
       \/ /\ open # NoLine
          /\ open' = Malformed
          /\ sole' = Nobody
    /\ Goto(a, "written")
    /\ UNCHANGED <<lines, seq, tail, lock, entry, history>>

(* Faulty: a line that continues another one is not terminated. *)
EndLineOpen(a) ==
    /\ lines' = IF sole = a THEN Append(lines, entry[a]) ELSE lines
    /\ open' = IF sole = a THEN NoLine ELSE Malformed
    /\ sole' = Nobody

EndLine(a) ==
    /\ lines' = Append(lines, IF sole = a THEN entry[a] ELSE Malformed)
    /\ open' = NoLine
    /\ sole' = Nobody

(* The rest of the line; seq and tail advance to the entry that was made,  *)
(* whatever became of its line.                                            *)
WriteEnds(a) ==
    LET c == ChainOf[a] IN
    /\ pc[a] = "written"
    /\ EndLine(a)
    /\ seq' = [seq EXCEPT ![c] = entry[a].seq]
    /\ tail' = [tail EXCEPT ![c] = entry[a].id]
    /\ acked' = acked \cup {entry[a].id}
    /\ Release(a)
    /\ Goto(a, "dispatch")
    /\ UNCHANGED <<entry, made, faults, restarts>>

(* Faulty: the error is swallowed and the entry goes to the sinks. *)
OpenFailsSilently(a) ==
    /\ pc[a] = "write"
    /\ Release(a)
    /\ Goto(a, "dispatch")
    /\ UNCHANGED <<file, seq, tail, entry, history>>

(* append raises: the file does not open, the write is torn, or the file   *)
(* fails to close after the line was written. seq and tail stay.           *)
OpenFails(a) ==
    /\ pc[a] = "write"
    /\ Release(a)
    /\ Goto(a, "idle")
    /\ UNCHANGED <<file, seq, tail, entry, history>>

(* Faulty: a failed append takes the last line it finds back. *)
WriteFailsAndRepairs(a) ==
    /\ pc[a] = "written"
    /\ faults < MaxFaults
    /\ faults' = faults + 1
    /\ lines' = IF lines = << >> THEN lines ELSE SubSeq(lines, 1, Len(lines) - 1)
    /\ open' = NoLine
    /\ sole' = Nobody
    /\ Release(a)
    /\ Goto(a, "idle")
    /\ UNCHANGED <<seq, tail, entry, made, acked, restarts>>

WriteFails(a) ==
    /\ pc[a] = "written"
    /\ faults < MaxFaults
    /\ faults' = faults + 1
    /\ \/ sole' = Nobody /\ UNCHANGED <<lines, open>>
       \/ EndLine(a)
    /\ Release(a)
    /\ Goto(a, "idle")
    /\ UNCHANGED <<seq, tail, entry, made, acked, restarts>>

(* append hands the entry to the sinks outside the lock and returns. *)
Dispatched(a) ==
    /\ pc[a] = "dispatch"
    /\ Goto(a, "idle")
    /\ UNCHANGED <<file, seq, tail, lock, entry, history>>

-----------------------------------------------------------------------------
(* _load_existing: the last line that parses, or the start of a new chain. *)
NoEntry == [seq |-> 0, prev |-> 0, id |-> Genesis]

WellFormed == {i \in 1..Len(View) : View[i] # Malformed}

(* Faulty: the first line that parses. *)
FirstEntry ==
    IF WellFormed = {} THEN NoEntry
    ELSE View[CHOOSE i \in WellFormed : \A j \in WellFormed : i <= j]

LastEntry ==
    IF WellFormed = {} THEN NoEntry
    ELSE View[CHOOSE i \in WellFormed : \A j \in WellFormed : j <= i]

Writing == \E a \in Appenders : pc[a] = "written"

(* The process ends at any point and starts again. A file that cannot be   *)
(* read then is taken for a new one.                                       *)
Restart(adopted) ==
    /\ restarts < MaxRestarts
    /\ restarts' = restarts + 1
    /\ \/ ~Writing /\ adopted = LastEntry /\ faults' = faults
       \/ /\ Writing \/ adopted # LastEntry
          /\ faults < MaxFaults
          /\ faults' = faults + 1
    /\ sole' = Nobody
    /\ seq' = [c \in Chains |-> adopted.seq]
    /\ tail' = [c \in Chains |-> adopted.id]
    /\ lock' = [c \in Chains |-> Nobody]
    /\ pc' = [a \in Appenders |-> "idle"]
    /\ entry' = [a \in Appenders |-> Malformed]
    /\ UNCHANGED <<lines, open, made, acked>>

Append1(a) ==
    \/ MakeEntry(a) \/ WriteBegins(a) \/ WriteEnds(a)
    \/ OpenFails(a) \/ WriteFails(a)

Restarts == \E adopted \in {LastEntry, NoEntry} : Restart(adopted)

Next == Restarts \/ \E a \in Appenders : Append1(a) \/ Dispatched(a)

Spec == Init /\ [][Next]_vars

-----------------------------------------------------------------------------
TypeOK ==
    /\ lines \in Seq(Log!Lines)
    /\ open \in Log!Lines \cup {NoLine}
    /\ sole \in Appenders \cup {Nobody}
    /\ seq \in [Chains -> Nat]
    /\ tail \in [Chains -> Nat]
    /\ lock \in [Chains -> Appenders \cup {Nobody}]
    /\ pc \in [Appenders -> {"idle", "write", "written", "dispatch"}]
    /\ entry \in [Appenders -> Log!Lines]
    /\ \A a \in Appenders : pc[a] \in {"write", "written"} => entry[a] \in Log!Entries
    /\ made \in Nat /\ acked \subseteq Nat
    /\ faults \in Nat /\ restarts \in Nat

(* The threads share one AuditChain object, as in every deployment but the *)
(* full_agent node.                                                        *)
OneChain == \A a, b \in Appenders : ChainOf[a] = ChainOf[b]

(* The file is an append-only log, and one hash chain until a write is     *)
(* interrupted: over concurrent appends, failed ones and restarts.         *)
ImplementsLog == Log!LogSpec

(* verify, which can_audit consults without the chain's lock, fails on a   *)
(* file that is there and can be read only after an interrupted write or   *)
(* while it reads an unfinished line.                                      *)
VerifyFailsForAReason == Verified \/ faults > 0 \/ Writing

(* An interrupted write costs at most one entry whose append succeeded:    *)
(* the one that continued its line.                                        *)
Stored == {lines[i].id : i \in 1..Len(lines)}
LossIsBounded == Cardinality(acked \ Stored) <= faults
=============================================================================
