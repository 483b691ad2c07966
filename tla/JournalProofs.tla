--------------------------- MODULE JournalProofs ----------------------------
(***************************************************************************)
(* The two logs the agent keeps on disk.  Threads that share one           *)
(* AuditChain object keep an append-only hash chain and lose no more than  *)
(* they must, for any number of threads, entries, faults and restarts;     *)
(* with a threaded sink behind the chain, all of that still holds, the     *)
(* sink accounts for what it drops and its mirror is never ahead of the    *)
(* file.  The episodic memory's journal loses only what a torn line, a     *)
(* failed or overlapping consolidation or a short replay exposed, and a    *)
(* replay of the whole file drops nothing that parses.                     *)
(***************************************************************************)
EXTENDS AuditTrail, EpisodicMemory, FiniteSetTheorems, TLAPS

LastHash == IF Len(lines) = 0 THEN Genesis ELSE lines[Len(lines)].id

(* The lock's holder, and it alone, is between making and storing. *)
LockHeld ==
    \A a \in Appenders :
        pc[a] \in {"write", "written"} => lock[ChainOf[a]] = a

(* Until a write is interrupted, seq and tail describe the last line, and  *)
(* the entry being stored continues it.                                    *)
Intact ==
    faults = 0 =>
        /\ Log!Verify(lines)
        /\ \A a \in Appenders : /\ seq[ChainOf[a]] = Len(lines)
                                /\ tail[ChainOf[a]] = LastHash
        /\ \A a \in Appenders :
               pc[a] \in {"write", "written"} =>
                   /\ entry[a].seq = Len(lines) + 1
                   /\ entry[a].prev = LastHash
        /\ \A a \in Appenders :
               pc[a] = "written" => sole = a /\ open \in {Malformed, entry[a]}
        /\ ~Writing => open = NoLine

Inv == TypeOK /\ LockHeld /\ Intact

(* NoLine and NoEntry stand for no line of the file. *)
LEMMA LineFacts ==
    /\ NoLine \notin Log!Lines
    /\ Malformed \in Log!Lines /\ Malformed \notin Log!Entries
    /\ Log!Entries \subseteq Log!Lines
BY DEF NoLine, Malformed, Log!Lines, Log!Entries, Log!Malformed

(* An empty file is an intact chain. *)
LEMMA InitiallyIntact == Init => Inv
<1> SUFFICES ASSUME Init PROVE Inv
    OBVIOUS
<1>1. TypeOK
      BY LineFacts DEF Init, TypeOK, Genesis, Log!Genesis
<1>2. LockHeld
      BY DEF Init, LockHeld
<1>3. Intact
      BY ChainAssumption DEF Init, Intact, Log!Verify, LastHash, Writing
<1> QED
    BY <1>1, <1>2, <1>3 DEF Inv

(* A set of line numbers that is not empty has a last one. *)
LEMMA LastNumber ==
    ASSUME NEW n \in Nat, NEW T \in SUBSET (1..n), T # {}
    PROVE  \E k \in T : \A j \in T : j <= k
<1> DEFINE U == {n - k : k \in T}
<1>1. U \subseteq Nat /\ U # {}
  <2>1. \A k \in T : n - k \in Nat
        OBVIOUS
  <2>2. \E k \in T : n - k \in U
        OBVIOUS
  <2> QED
      BY <2>1, <2>2
<1>2. \E x \in U : \A y \in U : ~(<<y, x>> \in OpToRel(<, Nat))
      BY <1>1, WFMin, NatLessThanWellFounded
<1>3. PICK x \in U : \A y \in U : ~(y < x)
      BY <1>1, <1>2 DEF OpToRel
<1>4. PICK k \in T : x = n - k
      BY <1>3
<1>5. \A j \in T : ~(n - j < n - k)
      BY <1>3, <1>4
<1> QED
    BY <1>4, <1>5

(* Reading back a typed file gives a typed entry. *)
LEMMA LastEntryType ==
    ASSUME TypeOK
    PROVE  LastEntry.seq \in Nat /\ LastEntry.id \in Nat
<1>1. CASE WellFormed = {}
      BY <1>1 DEF LastEntry, NoEntry, Genesis, Log!Genesis
<1>2. CASE WellFormed # {}
  <2>1. View \in Seq(Log!Lines \cup {NoLine})
        BY DEF TypeOK, View
  <2>2. \A i \in 1..Len(View) : View[i] \in Log!Lines \cup {NoLine}
        BY <2>1
  <2>3. \A e \in Log!Lines \cup {NoLine} : e.seq \in Nat /\ e.id \in Nat
        BY DEF Log!Lines, Log!Entries, Log!Malformed, NoLine
  <2> DEFINE i == CHOOSE k \in WellFormed : \A j \in WellFormed : j <= k
  <2>4. \E k \in WellFormed : \A j \in WellFormed : j <= k
    <3>1. Len(View) \in Nat /\ WellFormed \in SUBSET (1..Len(View))
          BY <2>1 DEF WellFormed
    <3> QED
        BY <1>2, <3>1, LastNumber
  <2>5. i \in WellFormed
        BY <2>4
  <2> QED
      BY <1>2, <2>2, <2>3, <2>5 DEF LastEntry, WellFormed
<1> QED
    BY <1>1, <1>2

(* Every step keeps the types. *)
LEMMA StepTypes == TypeOK /\ [Next]_vars => TypeOK'
<1> SUFFICES ASSUME TypeOK, [Next]_vars PROVE TypeOK'
    OBVIOUS
<1> USE DEF TypeOK
<1>1. CASE UNCHANGED vars
      BY <1>1 DEF vars, file, history
<1>2. ASSUME NEW a \in Appenders, MakeEntry(a)
      PROVE TypeOK'
  <2>1. ChainOf[a] \in Chains
        BY ChainAssumption
  <2> DEFINE new == [seq |-> seq[ChainOf[a]] + 1, prev |-> tail[ChainOf[a]],
                     id |-> made + 1]
  <2>2. new \in Log!Entries
        BY <2>1 DEF Log!Entries
  <2>3. /\ entry' = [entry EXCEPT ![a] = new]
        /\ lock' = [lock EXCEPT ![ChainOf[a]] = a]
        /\ pc' = [pc EXCEPT ![a] = "write"]
        /\ made' = made + 1
        /\ UNCHANGED <<file, seq, tail, acked, faults, restarts>>
        BY <1>2 DEF MakeEntry, Goto
  <2> HIDE DEF new
  <2> QED
      BY <2>1, <2>2, <2>3, LineFacts DEF file
<1>3. ASSUME NEW a \in Appenders, WriteBegins(a)
      PROVE TypeOK'
      BY <1>3, LineFacts DEF WriteBegins, Goto, history
<1>4. ASSUME NEW a \in Appenders, WriteEnds(a)
      PROVE TypeOK'
  <2>1. ChainOf[a] \in Chains /\ entry[a] \in Log!Entries
        BY <1>4, ChainAssumption DEF WriteEnds
  <2>2. entry[a].seq \in Nat /\ entry[a].id \in Nat
        BY <2>1 DEF Log!Entries
  <2>3. lines' \in Seq(Log!Lines) /\ open' = NoLine /\ sole' = Nobody
        BY <1>4, <2>1, LineFacts DEF WriteEnds, EndLine
  <2> QED
      BY <1>4, <2>1, <2>2, <2>3 DEF WriteEnds, Release, Goto
<1>5. ASSUME NEW a \in Appenders, OpenFails(a) \/ Dispatched(a)
      PROVE TypeOK'
      BY <1>5, ChainAssumption
         DEF OpenFails, Dispatched, Release, Goto, file, history
<1>6. ASSUME NEW a \in Appenders, WriteFails(a)
      PROVE TypeOK'
  <2>1. ChainOf[a] \in Chains /\ entry[a] \in Log!Lines
        BY ChainAssumption
  <2>3. /\ lines' \in Seq(Log!Lines)
        /\ open' \in Log!Lines \cup {NoLine}
        /\ sole' = Nobody
    <3>1. CASE EndLine(a)
          BY <2>1, <3>1, LineFacts DEF EndLine
    <3>2. CASE sole' = Nobody /\ UNCHANGED <<lines, open>>
          BY <3>2
    <3> QED
        BY <1>6, <3>1, <3>2 DEF WriteFails
  <2>4. /\ faults' \in Nat
        /\ lock' = [lock EXCEPT ![ChainOf[a]] = Nobody]
        /\ pc' = [pc EXCEPT ![a] = "idle"]
        /\ UNCHANGED <<seq, tail, entry, made, acked, restarts>>
        BY <1>6 DEF WriteFails, Release, Goto
  <2> QED
      BY <2>1, <2>3, <2>4
<1>7. ASSUME NEW adopted \in {LastEntry, NoEntry}, Restart(adopted)
      PROVE TypeOK'
  <2>1. adopted.seq \in Nat /\ adopted.id \in Nat
        BY LastEntryType DEF NoEntry, Genesis, Log!Genesis
  <2>2. faults' \in Nat /\ restarts' \in Nat
        BY <1>7 DEF Restart
  <2> QED
      BY <1>7, <2>1, <2>2, LineFacts DEF Restart
<1> QED
    BY <1>1, <1>2, <1>3, <1>4, <1>5, <1>6, <1>7 DEF Next, Restarts, Append1

(* Every step leaves the lock with the thread that stores. *)
LEMMA StepLock ==
    ASSUME OneChain, TypeOK, LockHeld, [Next]_vars
    PROVE  LockHeld'
<1> USE DEF LockHeld, TypeOK
<1>1. CASE UNCHANGED vars
      BY <1>1 DEF vars
<1>2. ASSUME NEW a \in Appenders, MakeEntry(a)
      PROVE LockHeld'
      BY <1>2, ChainAssumption DEF MakeEntry, Goto, OneChain
<1>3. ASSUME NEW a \in Appenders, WriteBegins(a) \/ Dispatched(a)
      PROVE LockHeld'
      BY <1>3 DEF WriteBegins, Dispatched, Goto
<1>4. ASSUME NEW a \in Appenders, WriteEnds(a) \/ OpenFails(a) \/ WriteFails(a)
      PROVE LockHeld'
  <2>1. /\ pc[a] \in {"write", "written"}
        /\ \E l \in {"idle", "dispatch"} : pc' = [pc EXCEPT ![a] = l]
        BY <1>4 DEF WriteEnds, OpenFails, WriteFails, Goto
  <2>2. \A b \in Appenders : b # a => pc'[b] \notin {"write", "written"}
        BY <2>1 DEF OneChain
  <2>3. pc'[a] \notin {"write", "written"}
        BY <2>1
  <2> QED
      BY <2>2, <2>3
<1>5. ASSUME NEW adopted \in {LastEntry, NoEntry}, Restart(adopted)
      PROVE LockHeld'
      BY <1>5 DEF Restart
<1> QED
    BY <1>1, <1>2, <1>3, <1>4, <1>5 DEF Next, Restarts, Append1

(* One thread at a time makes and stores an entry. *)
LEMMA OneStorer ==
    ASSUME OneChain, LockHeld,
           NEW a \in Appenders, pc[a] \in {"write", "written"},
           NEW b \in Appenders, pc[b] \in {"write", "written"}
    PROVE  a = b
BY DEF OneChain, LockHeld

(* Reading an intact file back gives its last line. *)
LEMMA IntactTail ==
    ASSUME TypeOK, Intact, faults = 0, ~Writing
    PROVE  LastEntry.seq = Len(lines) /\ LastEntry.id = LastHash
<1>1. View = lines /\ lines \in Seq(Log!Lines) /\ Len(lines) \in Nat
      BY DEF View, Intact, TypeOK
<1>2. \A i \in 1..Len(lines) : lines[i] # Malformed /\ lines[i].seq = i
      BY DEF Intact, Log!Verify, Malformed
<1>3. WellFormed = 1..Len(lines)
      BY <1>1, <1>2 DEF WellFormed
<1>4. CASE Len(lines) = 0
      BY <1>1, <1>3, <1>4 DEF LastEntry, NoEntry, LastHash
<1>5. CASE Len(lines) > 0
  <2> DEFINE k == CHOOSE i \in WellFormed : \A j \in WellFormed : j <= i
  <2>1. Len(lines) \in WellFormed /\ \A j \in WellFormed : j <= Len(lines)
        BY <1>1, <1>3, <1>5
  <2>2. k \in WellFormed /\ \A j \in WellFormed : j <= k
        BY <2>1
  <2>3. k = Len(lines)
        BY <1>1, <1>3, <2>1, <2>2
  <2> QED
      BY <1>1, <1>2, <1>3, <1>5, <2>1, <2>3 DEF LastEntry, LastHash
<1> QED
    BY <1>1, <1>4, <1>5

(* The entry an undisturbed append stores is the next one of the chain. *)
LEMMA StoredEntryFits ==
    ASSUME TypeOK, Intact, faults = 0,
           NEW a \in Appenders, pc[a] = "written", EndLine(a)
    PROVE  /\ lines' = Append(lines, entry[a])
           /\ entry[a] \in Log!Entries
           /\ entry[a].seq = Len(lines) + 1
           /\ entry[a].prev = LastHash
BY DEF TypeOK, Intact, EndLine

(* Every step keeps the chain intact until a write is interrupted. *)
LEMMA StepIntact ==
    ASSUME OneChain, Inv, [Next]_vars
    PROVE  Intact'
<1> USE DEF Inv
<1> SUFFICES ASSUME faults' = 0 PROVE Intact'
    BY DEF Intact
<1>1. CASE UNCHANGED vars
      BY <1>1 DEF vars, file, history, Intact, LastHash, Writing
<1>2. ASSUME NEW a \in Appenders, MakeEntry(a)
      PROVE Intact'
  <2>1. /\ pc' = [pc EXCEPT ![a] = "write"] /\ pc[a] = "idle"
        /\ entry' = [entry EXCEPT ![a] =
              [seq |-> seq[ChainOf[a]] + 1, prev |-> tail[ChainOf[a]],
               id |-> made + 1]]
        /\ UNCHANGED <<lines, open, sole, seq, tail, faults>>
        BY <1>2 DEF MakeEntry, Goto, file
  <2>2. \A b \in Appenders :
            b # a => pc'[b] = pc[b] /\ entry'[b] = entry[b]
        BY <2>1 DEF TypeOK
  <2>3. /\ pc'[a] = "write"
        /\ entry'[a].seq = Len(lines) + 1 /\ entry'[a].prev = LastHash
        BY <2>1 DEF TypeOK, Intact
  <2>4. LastHash' = LastHash /\ Writing' = Writing
        BY <2>1, <2>2, <2>3 DEF LastHash, Writing
  <2> QED
      BY <2>1, <2>2, <2>3, <2>4 DEF Intact
<1>3. ASSUME NEW a \in Appenders, WriteBegins(a)
      PROVE Intact'
  <2>1. /\ pc' = [pc EXCEPT ![a] = "written"] /\ pc[a] = "write"
        /\ UNCHANGED <<lines, seq, tail, entry, faults>>
        BY <1>3 DEF WriteBegins, Goto, history
  <2>2. ~Writing /\ open = NoLine
        BY <2>1, OneStorer DEF Writing, Intact
  <2>3. open' \in {Malformed, entry[a]} /\ sole' = a
        BY <1>3, <2>2 DEF WriteBegins
  <2>4. pc'[a] = "written" /\ \A b \in Appenders : b # a => pc'[b] = pc[b]
        BY <2>1 DEF TypeOK
  <2>5. LastHash' = LastHash /\ Writing'
        BY <2>1, <2>4 DEF LastHash, Writing
  <2> QED
      BY <2>1, <2>2, <2>3, <2>4, <2>5 DEF Intact, Writing
<1>4. ASSUME NEW a \in Appenders, WriteEnds(a)
      PROVE Intact'
  <2>1. /\ pc[a] = "written" /\ pc' = [pc EXCEPT ![a] = "dispatch"]
        /\ seq' = [seq EXCEPT ![ChainOf[a]] = entry[a].seq]
        /\ tail' = [tail EXCEPT ![ChainOf[a]] = entry[a].id]
        /\ open' = NoLine
        /\ EndLine(a)
        /\ UNCHANGED <<entry, faults>>
        BY <1>4 DEF WriteEnds, EndLine, Goto
  <2>2. /\ lines' = Append(lines, entry[a])
        /\ entry[a] \in Log!Entries
        /\ entry[a].seq = Len(lines) + 1
        /\ entry[a].prev = LastHash
        BY <2>1, StoredEntryFits
  <2>3. /\ Len(lines) \in Nat /\ Len(lines') = Len(lines) + 1
        /\ lines'[Len(lines')] = entry[a]
        /\ \A i \in 1..Len(lines) : lines'[i] = lines[i]
        BY <2>2 DEF TypeOK
  <2>4. LastHash' = entry[a].id
        BY <2>3 DEF LastHash
  <2>5. \A b \in Appenders : seq'[ChainOf[b]] = Len(lines') /\ tail'[ChainOf[b]] = LastHash'
        BY <2>1, <2>2, <2>3, <2>4, ChainAssumption DEF OneChain, TypeOK
  <2>6. \A b \in Appenders : pc'[b] \notin {"write", "written"}
        BY <2>1, OneStorer DEF TypeOK
  <2>7. Log!Verify(lines')
    <3>1. \A i \in 1..Len(lines) :
              /\ lines[i] # Log!Malformed /\ lines[i].seq = i
              /\ lines[i].prev = Log!HashBefore(lines, i)
          BY <2>1 DEF Intact, Log!Verify
    <3>2. \A i \in 1..Len(lines) :
              Log!HashBefore(lines', i) = Log!HashBefore(lines, i)
          BY <2>3 DEF Log!HashBefore
    <3>3. /\ Log!HashBefore(lines', Len(lines')) = LastHash
          BY <2>3 DEF Log!HashBefore, LastHash, Genesis
    <3>4. entry[a] # Log!Malformed
          BY <2>2, LineFacts DEF Malformed
    <3> QED
        BY <2>2, <2>3, <3>1, <3>2, <3>3, <3>4 DEF Log!Verify
  <2> QED
      BY <2>1, <2>5, <2>6, <2>7 DEF Intact
<1>5. ASSUME NEW a \in Appenders, OpenFails(a) \/ Dispatched(a)
      PROVE Intact'
  <2>1. /\ pc[a] # "written" /\ pc' = [pc EXCEPT ![a] = "idle"]
        /\ UNCHANGED <<lines, open, sole, seq, tail, entry, faults>>
        BY <1>5 DEF OpenFails, Dispatched, Goto, file, history
  <2>2. /\ pc'[a] = "idle"
        /\ \A b \in Appenders : b # a => pc'[b] = pc[b]
        BY <2>1 DEF TypeOK
  <2>3. LastHash' = LastHash /\ Writing' = Writing
        BY <2>1, <2>2 DEF LastHash, Writing
  <2> QED
      BY <2>1, <2>2, <2>3 DEF Intact
<1>6. ASSUME NEW a \in Appenders, WriteFails(a)
      PROVE Intact'
      BY <1>6 DEF WriteFails, TypeOK
<1>7. ASSUME NEW adopted \in {LastEntry, NoEntry}, Restart(adopted)
      PROVE Intact'
  <2>1. ~Writing /\ adopted = LastEntry /\ faults = 0
        BY <1>7 DEF Restart, TypeOK
  <2>2. /\ adopted.seq = Len(lines) /\ adopted.id = LastHash
        BY <2>1, IntactTail
  <2>3. /\ seq' = [c \in Chains |-> adopted.seq]
        /\ tail' = [c \in Chains |-> adopted.id]
        /\ pc' = [b \in Appenders |-> "idle"]
        /\ UNCHANGED <<lines, open>>
        BY <1>7 DEF Restart
  <2>4. LastHash' = LastHash
        BY <2>3 DEF LastHash
  <2> QED
      BY <2>1, <2>2, <2>3, <2>4, ChainAssumption DEF Intact, Writing
<1> QED
    BY <1>1, <1>2, <1>3, <1>4, <1>5, <1>6, <1>7 DEF Next, Restarts, Append1

(* A step that ends a line extends the file by one line. *)
LEMMA EndedLineExtends ==
    ASSUME TypeOK, NEW a \in Appenders, EndLine(a)
    PROVE  Log!Extends(lines', lines) /\ lines'[Len(lines')] \in Log!Lines
<1> DEFINE last == IF sole = a THEN entry[a] ELSE Malformed
<1>1. last \in Log!Lines
      BY LineFacts DEF TypeOK
<1>2. lines' = Append(lines, last)
      BY DEF EndLine
<1> HIDE DEF last
<1>3. /\ Len(lines') = Len(lines) + 1
      /\ lines'[Len(lines')] = last
      BY <1>1, <1>2 DEF TypeOK
<1> QED
    BY <1>1, <1>2, <1>3 DEF Log!Extends

(* Every step of the chain is a step of the log or leaves it alone. *)
LEMMA StepOfLog ==
    ASSUME OneChain, Inv, [Next]_vars
    PROVE  [Log!LogNext]_(Log!logVars)
<1> USE DEF Inv
<1>1. CASE UNCHANGED <<lines, faults>>
      BY <1>1 DEF Log!logVars
<1>2. ASSUME NEW a \in Appenders, WriteEnds(a)
      PROVE Log!LogNext
  <2>1. /\ pc[a] = "written" /\ EndLine(a) /\ faults' = faults
        BY <1>2 DEF WriteEnds
  <2>2. CASE faults = 0
    <3>1. /\ lines' = Append(lines, entry[a])
          /\ entry[a] \in Log!Entries
          /\ entry[a].seq = Len(lines) + 1
          /\ entry[a].prev = LastHash
          BY <2>1, <2>2, StoredEntryFits
    <3>2. /\ Len(lines) \in Nat /\ Len(lines') = Len(lines) + 1
          /\ lines'[Len(lines')] = entry[a]
          /\ \A i \in 1..Len(lines) : lines'[i] = lines[i]
          BY <3>1 DEF TypeOK
    <3>3. Log!HashBefore(lines', Len(lines')) = LastHash
          BY <3>2 DEF Log!HashBefore, LastHash, Genesis
    <3>4. Log!Extends(lines', lines)
          BY <2>1, EndedLineExtends
    <3> QED
        BY <2>1, <2>2, <3>1, <3>2, <3>3, <3>4 DEF Log!LogNext, Log!Record
  <2>3. CASE faults > 0
    <3>1. Log!Extends(lines', lines) /\ lines'[Len(lines')] \in Log!Lines
          BY <2>1, EndedLineExtends
    <3> QED
        BY <2>1, <2>3, <3>1 DEF Log!LogNext, Log!Damage
  <2> QED
      BY <2>2, <2>3 DEF TypeOK
<1>3. ASSUME NEW a \in Appenders, WriteFails(a)
      PROVE Log!LogNext
  <2>1. (faults > 0)'
        BY <1>3 DEF WriteFails, TypeOK
  <2>2. CASE UNCHANGED lines
        BY <2>1, <2>2 DEF Log!LogNext, Log!Damage
  <2>3. CASE EndLine(a)
    <3>1. Log!Extends(lines', lines) /\ lines'[Len(lines')] \in Log!Lines
          BY <2>3, EndedLineExtends
    <3> QED
        BY <2>1, <3>1 DEF Log!LogNext, Log!Damage
  <2> QED
      BY <1>3, <2>2, <2>3 DEF WriteFails
<1>4. ASSUME NEW adopted \in {LastEntry, NoEntry}, Restart(adopted)
      PROVE [Log!LogNext]_(Log!logVars)
  <2>1. CASE faults' = faults
        BY <1>4, <2>1 DEF Restart, Log!logVars
  <2>2. CASE faults' = faults + 1
    <3>1. (faults > 0)'
          BY <2>2 DEF TypeOK
    <3> QED
        BY <1>4, <3>1 DEF Restart, Log!LogNext, Log!Damage
  <2> QED
      BY <1>4, <2>1, <2>2 DEF Restart
<1>5. ASSUME NEW a \in Appenders,
             MakeEntry(a) \/ WriteBegins(a) \/ OpenFails(a) \/ Dispatched(a)
      PROVE UNCHANGED <<lines, faults>>
      BY <1>5 DEF MakeEntry, WriteBegins, OpenFails, Dispatched, file, history
<1>6. CASE UNCHANGED vars
      BY <1>1, <1>6 DEF vars, file, history
<1> QED
    BY <1>1, <1>2, <1>3, <1>4, <1>5, <1>6 DEF Next, Restarts, Append1

(* The chain's state keeps its types, whoever shares the file. *)
THEOREM ChainTypes == Spec => []TypeOK
BY InitiallyIntact, StepTypes, PTL DEF Spec, Inv

(* The invariant behind the two theorems below. *)
LEMMA ChainInvariant == ASSUME OneChain PROVE Spec => []Inv
<1>1. Inv /\ [Next]_vars => Inv'
      BY StepTypes, StepLock, StepIntact DEF Inv
<1> QED
    BY <1>1, InitiallyIntact, PTL DEF Spec

(* Threads that share one AuditChain object implement the append-only hash *)
(* chain, whatever fails and however often the process restarts.           *)
THEOREM ChainImplementsLog == ASSUME OneChain PROVE Spec => ImplementsLog
<1>1. Init => Log!LogInit
      BY DEF Init, Log!LogInit
<1>2. Inv /\ [Next]_vars => [Log!LogNext]_(Log!logVars)
      BY StepOfLog
<1> QED
    BY <1>1, <1>2, ChainInvariant, PTL DEF Spec, ImplementsLog, Log!LogSpec

(* verify gives no false alarm but while a line is being written. *)
THEOREM NoFalseAlarm == ASSUME OneChain PROVE Spec => []VerifyFailsForAReason
<1>1. Inv => VerifyFailsForAReason
  <2> SUFFICES ASSUME Inv, faults = 0, ~Writing PROVE Verified
      BY DEF VerifyFailsForAReason, Inv, TypeOK
  <2>1. View = lines /\ Log!Verify(lines)
        BY DEF Inv, Intact, View
  <2> QED
      BY <2>1 DEF Verified
<1> QED
    BY <1>1, ChainInvariant, PTL

-----------------------------------------------------------------------------
(* Losses.  A torn line is one that nobody will complete as it was begun:  *)
(* the next append that succeeds goes down with it.                        *)
Torn == open # NoLine /\ \A a \in Appenders : pc[a] = "written" => sole # a

(* The entries lost so far and the one a torn line is about to cost have   *)
(* each been paid for by an interrupted write.                             *)
LossInv ==
    /\ IsFiniteSet(acked)
    /\ \A a \in Appenders : pc[a] = "written" => open # NoLine
    /\ Cardinality(acked \ Stored) + (IF Torn THEN 1 ELSE 0) <= faults

(* What is lost is a finite set, and shrinks when more is stored. *)
LEMMA LostIsFinite ==
    ASSUME NEW A, NEW B, NEW C, IsFiniteSet(A), B \subseteq C
    PROVE  /\ IsFiniteSet(A \ B) /\ Cardinality(A \ B) \in Nat
           /\ IsFiniteSet(A \ C) /\ Cardinality(A \ C) \in Nat
           /\ Cardinality(A \ C) <= Cardinality(A \ B)
<1>1. IsFiniteSet(A \ B) /\ IsFiniteSet(A \ C)
      BY FS_Difference
<1>2. A \ C \in SUBSET (A \ B)
      OBVIOUS
<1> QED
    BY <1>1, <1>2, FS_Subset, FS_CardinalityType

(* One more member adds at most one. *)
LEMMA OneMoreAtMost ==
    ASSUME NEW S, NEW x, IsFiniteSet(S), NEW T \in SUBSET (S \cup {x})
    PROVE  /\ Cardinality(S) \in Nat /\ Cardinality(T) \in Nat
           /\ Cardinality(T) <= Cardinality(S) + 1
<1> DEFINE U == S \cup {x}
<1>1. /\ IsFiniteSet(U)
      /\ Cardinality(U) = IF x \in S THEN Cardinality(S) ELSE Cardinality(S) + 1
      BY FS_AddElement
<1> HIDE DEF U
<1>2. IsFiniteSet(T) /\ Cardinality(T) <= Cardinality(U)
      BY <1>1, FS_Subset DEF U
<1>3. Cardinality(S) \in Nat /\ Cardinality(T) \in Nat /\ Cardinality(U) \in Nat
      BY <1>1, <1>2, FS_CardinalityType
<1> QED
    BY <1>1, <1>2, <1>3

(* A line that ends is stored under its own identity. *)
LEMMA EndedLineIsStored ==
    ASSUME TypeOK, NEW a \in Appenders, EndLine(a)
    PROVE  /\ Stored \subseteq Stored'
           /\ sole = a => entry[a].id \in Stored'
<1> DEFINE last == IF sole = a THEN entry[a] ELSE Malformed
<1>1. lines' = Append(lines, last) /\ lines \in Seq(Log!Lines)
      BY DEF EndLine, TypeOK
<1> HIDE DEF last
<1>2. /\ Len(lines') = Len(lines) + 1 /\ Len(lines) \in Nat
      /\ \A i \in 1..Len(lines) : lines'[i] = lines[i]
      /\ lines'[Len(lines) + 1] = last
      BY <1>1
<1>3. last.id \in Stored'
      BY <1>2 DEF Stored
<1>4. Stored \subseteq Stored'
      BY <1>2 DEF Stored
<1> QED
    BY <1>3, <1>4 DEF last

(* Every step pays for what it loses. *)
LEMMA StepLoss ==
    ASSUME OneChain, TypeOK, LockHeld, LossInv, [Next]_vars
    PROVE  LossInv'
<1> USE DEF LossInv
<1>0. /\ IsFiniteSet(acked \ Stored) /\ Cardinality(acked \ Stored) \in Nat
      /\ faults \in Nat
      BY LostIsFinite DEF TypeOK
<1>1. CASE UNCHANGED vars
      BY <1>1 DEF vars, file, history, Torn, Stored
<1>2. ASSUME NEW a \in Appenders, MakeEntry(a) \/ OpenFails(a) \/ Dispatched(a)
      PROVE LossInv'
  <2>1. /\ UNCHANGED <<file, acked, faults>>
        /\ \A b \in Appenders : pc'[b] = "written" <=> pc[b] = "written"
        BY <1>2 DEF MakeEntry, OpenFails, Dispatched, Goto, TypeOK, history
  <2> QED
      BY <2>1 DEF file, Torn, Stored
<1>3. ASSUME NEW a \in Appenders, WriteBegins(a)
      PROVE LossInv'
  <2>1. /\ UNCHANGED <<lines, acked, faults>> /\ pc[a] = "write"
        /\ pc' = [pc EXCEPT ![a] = "written"]
        BY <1>3 DEF WriteBegins, Goto, history
  <2>2. \A b \in Appenders : pc[b] # "written"
        BY <2>1, OneStorer
  <2>3. open' # NoLine
        BY <1>3, LineFacts DEF WriteBegins, TypeOK
  <2>4. open = NoLine => sole' = a
        BY <1>3 DEF WriteBegins
  <2>5. Torn' => Torn
        BY <2>1, <2>2, <2>4 DEF Torn, TypeOK
  <2> QED
      BY <1>0, <2>1, <2>3, <2>5 DEF Stored
<1>4. ASSUME NEW a \in Appenders, WriteEnds(a)
      PROVE LossInv'
  <2>1. /\ pc[a] = "written" /\ pc' = [pc EXCEPT ![a] = "dispatch"]
        /\ EndLine(a) /\ open' = NoLine
        /\ acked' = acked \cup {entry[a].id} /\ faults' = faults
        BY <1>4 DEF WriteEnds, EndLine, Goto
  <2>2. \A b \in Appenders : pc'[b] # "written"
        BY <2>1, OneStorer DEF TypeOK
  <2>3. ~Torn' /\ IsFiniteSet(acked')
        BY <2>1, FS_AddElement DEF Torn
  <2>4. Stored \subseteq Stored' /\ (sole = a => entry[a].id \in Stored')
        BY <2>1, EndedLineIsStored
  <2>5. CASE sole = a
    <3>1. acked' \ Stored' = acked \ Stored'
          BY <2>1, <2>4, <2>5
    <3>2. /\ Cardinality(acked \ Stored') \in Nat
          /\ Cardinality(acked \ Stored') <= Cardinality(acked \ Stored)
          BY <2>4, LostIsFinite
    <3>3. Cardinality(acked' \ Stored') <= faults'
          BY <1>0, <2>1, <3>1, <3>2
    <3> QED
        BY <2>2, <2>3, <3>1, <3>2, <3>3
  <2>6. CASE sole # a
    <3>1. Torn
      <4>1. \A b \in Appenders : pc[b] = "written" => b = a
            BY <2>1, OneStorer
      <4> QED
          BY <2>1, <2>6, <4>1 DEF Torn
    <3>2. acked' \ Stored' \in SUBSET ((acked \ Stored) \cup {entry[a].id})
          BY <2>1, <2>4
    <3>3. /\ Cardinality(acked' \ Stored') \in Nat
          /\ Cardinality(acked' \ Stored') <= Cardinality(acked \ Stored) + 1
          BY <1>0, <3>2, OneMoreAtMost
    <3> QED
        BY <1>0, <2>1, <2>2, <2>3, <3>1, <3>3
  <2> QED
      BY <2>5, <2>6
<1>5. ASSUME NEW a \in Appenders, WriteFails(a)
      PROVE LossInv'
  <2>1. /\ pc[a] = "written" /\ pc' = [pc EXCEPT ![a] = "idle"]
        /\ acked' = acked /\ faults' = faults + 1
        /\ UNCHANGED <<lines, open>> \/ EndLine(a)
        BY <1>5 DEF WriteFails, Goto
  <2>2. \A b \in Appenders : pc'[b] # "written"
        BY <2>1, OneStorer DEF TypeOK
  <2>3. Stored \subseteq Stored'
        BY <2>1, EndedLineIsStored DEF Stored
  <2>4. /\ Cardinality(acked \ Stored') \in Nat
        /\ Cardinality(acked \ Stored') <= Cardinality(acked \ Stored)
        BY <2>3, LostIsFinite
  <2> QED
      BY <1>0, <2>1, <2>2, <2>4
<1>6. ASSUME NEW adopted \in {LastEntry, NoEntry}, Restart(adopted)
      PROVE LossInv'
  <2>1. /\ UNCHANGED <<lines, open, acked>> /\ Stored' = Stored
        /\ \A b \in Appenders : pc'[b] # "written"
        /\ (~Writing /\ faults' = faults) \/ faults' = faults + 1
        BY <1>6 DEF Restart, Stored
  <2>2. CASE ~Writing /\ faults' = faults
    <3>1. Torn' => Torn
          BY <2>1, <2>2 DEF Torn, Writing
    <3> QED
        BY <1>0, <2>1, <2>2, <3>1
  <2>3. CASE faults' = faults + 1
        BY <1>0, <2>1, <2>3
  <2> QED
      BY <2>1, <2>2, <2>3
<1> QED
    BY <1>1, <1>2, <1>3, <1>4, <1>5, <1>6 DEF Next, Restarts, Append1

(* An interrupted write costs at most one acknowledged entry, for any      *)
(* number of threads, entries and restarts: a torn line takes the next     *)
(* append down with it and no other.                                       *)
THEOREM LossesAreFew == ASSUME OneChain PROVE Spec => []LossIsBounded
<1>1. Init => LossInv
  <2> SUFFICES ASSUME Init PROVE LossInv
      OBVIOUS
  <2>1. acked \ Stored = {} /\ acked = {} /\ ~Torn /\ faults = 0
        BY DEF Init, Torn
  <2> QED
      BY <2>1, FS_EmptySet DEF LossInv, Init
<1>2. Inv /\ LossInv /\ [Next]_vars => LossInv'
      BY StepLoss DEF Inv
<1>3. Inv /\ LossInv => LossIsBounded
  <2> SUFFICES ASSUME Inv, LossInv PROVE LossIsBounded
      OBVIOUS
  <2>1. Cardinality(acked \ Stored) \in Nat /\ faults \in Nat
        BY LostIsFinite DEF LossInv, Inv, TypeOK
  <2> QED
      BY <2>1 DEF LossInv, LossIsBounded
<1> QED
    BY <1>1, <1>2, <1>3, ChainInvariant, PTL DEF Spec

-----------------------------------------------------------------------------
(* The sink.  Submitters that have counted a drop and not yet made room,   *)
(* and those that have made room and not yet used it.                      *)
Dropping == {a \in Appenders : submit[a] = "get"}
Owing    == {a \in Appenders : submit[a] = "again"}

(* What is not accounted for is owed by a submitter or lost by one; each   *)
(* stands behind a drop that was counted.                                  *)
CountInv ==
    /\ IsFiniteSet(Dropping) /\ IsFiniteSet(Owing) /\ IsFiniteSet(Submitting)
    /\ Accounted + Cardinality(Owing) + Cardinality(Submitting) <= submitted
    /\ submitted + Cardinality(Dropping)
         <= Accounted + dropped + Cardinality(Submitting)

(* An entry on its way to the queue has been stored. *)
MirrorInv ==
    /\ \A a \in Appenders : submit[a] # "count" => pc[a] = "dispatch"
    /\ \A a \in Appenders : pc[a] = "dispatch" => entry[a].id \in acked
    /\ MirrorFollowsChain

SinkTypes ==
    /\ queue \in Seq(Nat) /\ batch \in Seq(Nat)
    /\ submit \in [Appenders -> {"count", "put", "drop", "get", "again"}]
    /\ submitted \in Nat /\ delivered \in Nat /\ failed \in Nat /\ dropped \in Nat

(* A step of the trail is a step of the chain or leaves it alone. *)
LEMMA TrailStepIsChainStep == [TrailNext]_trailVars => [Next]_vars
<1>1. RestartTrail => Next
      BY DEF RestartTrail, Next
<1>2. \A a \in Appenders : Submit(a) => Dispatched(a) \/ UNCHANGED vars
      BY DEF Submit, CountSubmitted, Put, CountDropped, MakeRoom, PutAgain
<1>3. Flush => UNCHANGED vars
      BY DEF Flush, Fill, Filled, DeliverySucceeds, DeliveryFails
<1>4. UNCHANGED trailVars => UNCHANGED vars
      BY DEF trailVars
<1> QED
    BY <1>1, <1>2, <1>3, <1>4 DEF TrailNext, Next

(* What the chain does alone it does with a sink behind it. *)
THEOREM TrailImplementsChain == TrailSpec => Spec
BY TrailStepIsChainStep, PTL DEF TrailSpec, TrailInit, Spec

(* So the threads that share one chain keep it as above when a sink        *)
(* delays them between two appends.                                        *)
THEOREM TrailKeepsTheChain ==
    ASSUME OneChain
    PROVE  TrailSpec => ImplementsLog /\ [](VerifyFailsForAReason /\ LossIsBounded)
BY TrailImplementsChain, ChainImplementsLog, NoFalseAlarm, LossesAreFew, PTL

EntriesOf(q) == {q[i] : i \in 1..Len(q)}

(* What queue.Queue's calls do to a sequence of entries. *)
LEMMA QueueFacts ==
    ASSUME NEW q \in Seq(Nat), NEW e \in Nat
    PROVE  /\ Append(q, e) \in Seq(Nat) /\ Len(Append(q, e)) = Len(q) + 1
           /\ EntriesOf(Append(q, e)) \subseteq EntriesOf(q) \cup {e}
           /\ q # << >> =>
                /\ Tail(q) \in Seq(Nat) /\ Len(Tail(q)) = Len(q) - 1
                /\ Head(q) \in Nat /\ Head(q) \in EntriesOf(q)
                /\ EntriesOf(Tail(q)) \subseteq EntriesOf(q)
<1>1. Append(q, e) \in Seq(Nat) /\ Len(Append(q, e)) = Len(q) + 1
      OBVIOUS
<1>2. \A i \in 1..(Len(q) + 1) : Append(q, e)[i] = IF i <= Len(q) THEN q[i] ELSE e
      OBVIOUS
<1>3. EntriesOf(Append(q, e)) \subseteq EntriesOf(q) \cup {e}
      BY <1>1, <1>2 DEF EntriesOf
<1>4. ASSUME q # << >>
      PROVE  /\ Tail(q) \in Seq(Nat) /\ Len(Tail(q)) = Len(q) - 1
             /\ Head(q) \in Nat /\ Head(q) \in EntriesOf(q)
             /\ EntriesOf(Tail(q)) \subseteq EntriesOf(q)
  <2>1. /\ Len(q) \in Nat /\ Len(q) >= 1 /\ Head(q) = q[1]
        /\ Tail(q) \in Seq(Nat) /\ Len(Tail(q)) = Len(q) - 1
        /\ \A i \in 1..(Len(q) - 1) : Tail(q)[i] = q[i + 1]
        BY <1>4
  <2> QED
      BY <2>1 DEF EntriesOf
<1> QED
    BY <1>1, <1>3, <1>4

(* Every step keeps the types of the sink. *)
LEMMA StepSinkTypes ==
    ASSUME TypeOK, SinkTypes, [TrailNext]_trailVars
    PROVE  SinkTypes'
<1> USE DEF SinkTypes
<1>1. CASE UNCHANGED sinkVars
      BY <1>1 DEF sinkVars, stats
<1>2. CASE RestartTrail
      BY <1>2 DEF RestartTrail
<1>3. ASSUME NEW a \in Appenders, Submit(a)
      PROVE SinkTypes'
  <2>1. entry[a].id \in Nat
        BY DEF TypeOK, Log!Lines, Log!Entries, Log!Malformed
  <2>2. queue' \in Seq(Nat) /\ UNCHANGED <<batch, delivered, failed>>
    <3>1. \/ queue' = queue \/ queue' = Append(queue, entry[a].id)
          \/ queue # << >> /\ queue' = Tail(queue)
          BY <1>3 DEF Submit, CountSubmitted, Put, CountDropped, MakeRoom, PutAgain, vars
    <3>2. queue' \in Seq(Nat)
      <4>1. /\ Append(queue, entry[a].id) \in Seq(Nat)
            /\ queue # << >> => Tail(queue) \in Seq(Nat)
            BY <2>1, QueueFacts
      <4> QED
          BY <3>1, <4>1, Zenon
    <3> QED
        BY <1>3, <3>2 DEF Submit, CountSubmitted, Put, CountDropped, MakeRoom, PutAgain, stats
  <2>3. submit' \in [Appenders -> {"count", "put", "drop", "get", "again"}]
    <3>1. \E l \in {"count", "put", "drop", "get", "again"} :
            submit' = [submit EXCEPT ![a] = l]
          BY <1>3 DEF Submit, CountSubmitted, Put, CountDropped, MakeRoom, PutAgain, Call
    <3> QED
        BY <3>1
  <2>4. submitted' \in Nat /\ dropped' \in Nat
    <3>1. /\ submitted' \in {submitted, submitted + 1}
          /\ dropped' \in {dropped, dropped + 1}
          BY <1>3 DEF Submit, CountSubmitted, Put, CountDropped, MakeRoom, PutAgain, stats
    <3> QED
        BY <3>1
  <2> QED
      BY <2>2, <2>3, <2>4
<1>4. CASE Flush
  <2>1. CASE Fill
    <3>1. Head(queue) \in Nat /\ Tail(queue) \in Seq(Nat)
          BY <2>1, QueueFacts DEF Fill
    <3> QED
        BY <2>1, <3>1, QueueFacts DEF Fill, stats
  <2>2. CASE Filled
        BY <2>2 DEF Filled, stats
  <2>3. CASE DeliverySucceeds
        BY <2>3 DEF DeliverySucceeds
  <2>4. CASE DeliveryFails
    <3>1. UNCHANGED <<queue, submit, submitted, delivered, dropped>>
          BY <2>4 DEF DeliveryFails
    <3>2. (batch' = batch /\ failed' = failed)
          \/ (batch' = << >> /\ failed' = failed + Len(batch))
          BY <2>4 DEF DeliveryFails
    <3>3. batch' \in Seq(Nat)
      <4>1. << >> \in Seq(Nat)
            OBVIOUS
      <4> QED
          BY <3>2, <4>1, Zenon
    <3>4. failed' \in Nat
      <4>1. Len(batch) \in Nat
            OBVIOUS
      <4> QED
          BY <3>2, <4>1
    <3> QED
        BY <3>1, <3>3, <3>4
  <2> QED
      BY <1>4, <2>1, <2>2, <2>3, <2>4 DEF Flush
<1> QED
    BY <1>1, <1>2, <1>3, <1>4 DEF TrailNext, trailVars

(* What one call of submit does to the numbers of submitters under way. *)
LEMMA CallCounts ==
    ASSUME SinkTypes, IsFiniteSet(Dropping), IsFiniteSet(Owing),
           IsFiniteSet(Submitting), NEW a \in Appenders,
           NEW l \in {"count", "put", "drop", "get", "again"}, Call(a, l)
    PROVE  LET D == Cardinality(Dropping)
               O == Cardinality(Owing)
               W == Cardinality(Submitting)
           IN /\ D \in Nat /\ O \in Nat /\ W \in Nat
              /\ IsFiniteSet(Dropping)' /\ IsFiniteSet(Owing)'
              /\ IsFiniteSet(Submitting)'
              /\ D' = (IF submit[a] = "get" THEN D - 1 ELSE D)
                        + (IF l = "get" THEN 1 ELSE 0)
              /\ O' = (IF submit[a] = "again" THEN O - 1 ELSE O)
                        + (IF l = "again" THEN 1 ELSE 0)
              /\ W' = (IF submit[a] \in {"put", "drop"} THEN W - 1 ELSE W)
                        + (IF l \in {"put", "drop"} THEN 1 ELSE 0)
<1>1. submit' = [submit EXCEPT ![a] = l]
      BY DEF Call
<1>2. Dropping' = IF l = "get" THEN (Dropping \ {a}) \cup {a} ELSE Dropping \ {a}
      BY <1>1 DEF SinkTypes, Dropping
<1>3. Owing' = IF l = "again" THEN (Owing \ {a}) \cup {a} ELSE Owing \ {a}
      BY <1>1 DEF SinkTypes, Owing
<1>4. Submitting' = IF l \in {"put", "drop"} THEN (Submitting \ {a}) \cup {a}
                                             ELSE Submitting \ {a}
      BY <1>1 DEF SinkTypes, Submitting
<1>5. /\ a \in Dropping <=> submit[a] = "get"
      /\ a \in Owing <=> submit[a] = "again"
      /\ a \in Submitting <=> submit[a] \in {"put", "drop"}
      BY DEF Dropping, Owing, Submitting
<1>6. ASSUME NEW S, IsFiniteSet(S)
      PROVE  LET n == IF a \in S THEN Cardinality(S) - 1 ELSE Cardinality(S)
             IN /\ Cardinality(S) \in Nat
                /\ IsFiniteSet(S \ {a}) /\ Cardinality(S \ {a}) = n
                /\ IsFiniteSet((S \ {a}) \cup {a})
                /\ Cardinality((S \ {a}) \cup {a}) = n + 1
  <2> DEFINE T == S \ {a}
  <2>1. /\ Cardinality(S) \in Nat /\ IsFiniteSet(T)
        /\ Cardinality(T) = IF a \in S THEN Cardinality(S) - 1 ELSE Cardinality(S)
        BY <1>6, FS_RemoveElement, FS_CardinalityType
  <2>2. a \notin T OBVIOUS
  <2> HIDE DEF T
  <2>3. IsFiniteSet(T \cup {a}) /\ Cardinality(T \cup {a}) = Cardinality(T) + 1
        BY <2>1, <2>2, FS_AddElement
  <2>4. QED BY <2>1, <2>3 DEF T
<1>7. /\ Cardinality(Dropping) \in Nat /\ IsFiniteSet(Dropping')
      /\ Cardinality(Dropping') =
           (IF submit[a] = "get" THEN Cardinality(Dropping) - 1
                                 ELSE Cardinality(Dropping))
             + (IF l = "get" THEN 1 ELSE 0)
  <2>1. CASE l = "get" BY <1>2, <1>5, <1>6, <2>1
  <2>2. CASE l # "get"
    <3>1. Dropping' = Dropping \ {a} BY <1>2, <2>2
    <3>2. /\ Cardinality(Dropping) \in Nat /\ IsFiniteSet(Dropping \ {a})
          /\ Cardinality(Dropping \ {a}) =
               IF a \in Dropping THEN Cardinality(Dropping) - 1 ELSE Cardinality(Dropping)
          BY <1>6
    <3>3. QED BY <1>5, <2>2, <3>1, <3>2
  <2>3. QED BY <2>1, <2>2
<1>8. /\ Cardinality(Owing) \in Nat /\ IsFiniteSet(Owing')
      /\ Cardinality(Owing') =
           (IF submit[a] = "again" THEN Cardinality(Owing) - 1
                                   ELSE Cardinality(Owing))
             + (IF l = "again" THEN 1 ELSE 0)
  <2>1. CASE l = "again" BY <1>3, <1>5, <1>6, <2>1
  <2>2. CASE l # "again"
    <3>1. Owing' = Owing \ {a} BY <1>3, <2>2
    <3>2. /\ Cardinality(Owing) \in Nat /\ IsFiniteSet(Owing \ {a})
          /\ Cardinality(Owing \ {a}) =
               IF a \in Owing THEN Cardinality(Owing) - 1 ELSE Cardinality(Owing)
          BY <1>6
    <3>3. QED BY <1>5, <2>2, <3>1, <3>2
  <2>3. QED BY <2>1, <2>2
<1>9. /\ Cardinality(Submitting) \in Nat /\ IsFiniteSet(Submitting')
      /\ Cardinality(Submitting') =
           (IF submit[a] \in {"put", "drop"} THEN Cardinality(Submitting) - 1
                                             ELSE Cardinality(Submitting))
             + (IF l \in {"put", "drop"} THEN 1 ELSE 0)
  <2>1. CASE l \in {"put", "drop"} BY <1>4, <1>5, <1>6, <2>1
  <2>2. CASE l \notin {"put", "drop"}
    <3>1. Submitting' = Submitting \ {a} BY <1>4, <2>2
    <3>2. /\ Cardinality(Submitting) \in Nat /\ IsFiniteSet(Submitting \ {a})
          /\ Cardinality(Submitting \ {a}) =
               IF a \in Submitting THEN Cardinality(Submitting) - 1 ELSE Cardinality(Submitting)
          BY <1>6
    <3>3. QED BY <1>5, <2>2, <3>1, <3>2
  <2>3. QED BY <2>1, <2>2
<1> QED
    BY <1>7, <1>8, <1>9

(* Every step counts what it drops. *)
LEMMA StepCount ==
    ASSUME TypeOK, SinkTypes, CountInv, [TrailNext]_trailVars
    PROVE  CountInv'
<1> DEFINE D == Cardinality(Dropping)
           O == Cardinality(Owing)
           W == Cardinality(Submitting)
           Finite == /\ IsFiniteSet(Dropping) /\ IsFiniteSet(Owing)
                     /\ IsFiniteSet(Submitting)
<1>0. /\ D \in Nat /\ O \in Nat /\ W \in Nat /\ Finite
      /\ Accounted + O + W <= submitted
      /\ submitted + D <= Accounted + dropped + W
      BY FS_CardinalityType DEF CountInv
<1>a. /\ Accounted \in Nat /\ submitted \in Nat /\ dropped \in Nat
      /\ Len(queue) \in Nat /\ Len(batch) \in Nat /\ delivered \in Nat
      /\ failed \in Nat
      BY DEF SinkTypes, Accounted
<1>b. ASSUME Finite', (Accounted + O + W <= submitted)',
             (submitted + D <= Accounted + dropped + W)'
      PROVE  CountInv'
      BY <1>b DEF CountInv
<1>1. CASE UNCHANGED sinkVars
      BY <1>1 DEF sinkVars, stats, CountInv, Accounted, Dropping, Owing, Submitting
<1>2. CASE RestartTrail
  <2>1. Dropping' = {} /\ Owing' = {} /\ Submitting' = {}
        BY <1>2 DEF RestartTrail, Dropping, Owing, Submitting
  <2>2. Accounted' = 0 /\ submitted' = 0 /\ dropped' = 0
        BY <1>2 DEF RestartTrail, Accounted
  <2> QED
      BY <2>1, <2>2, FS_EmptySet DEF CountInv
<1>3. ASSUME NEW a \in Appenders, CountSubmitted(a)
      PROVE CountInv'
  <2>1. /\ submit[a] = "count" /\ Call(a, "put")
        /\ submitted' = submitted + 1 /\ dropped' = dropped
        BY <1>3 DEF CountSubmitted
  <2>2. Accounted' = Accounted BY <1>3 DEF CountSubmitted, Accounted
  <2>3. D' = D /\ O' = O /\ W' = W + 1 /\ Finite' BY <1>0, <2>1, CallCounts
  <2> HIDE DEF D, O, W, Finite
  <2>4. (Accounted + O + W <= submitted)' BY <1>0, <1>a, <2>1, <2>2, <2>3
  <2>5. (submitted + D <= Accounted + dropped + W)'
        BY <1>0, <1>a, <2>1, <2>2, <2>3
  <2> QED
      BY <1>b, <2>3, <2>4, <2>5
<1>4. ASSUME NEW a \in Appenders, Put(a)
      PROVE CountInv'
  <2>0. submit[a] = "put" /\ submitted' = submitted /\ dropped' = dropped
        BY <1>4 DEF Put, stats
  <2>1. CASE queue' = Append(queue, entry[a].id) /\ Call(a, "count")
    <3>1. Len(queue') = Len(queue) + 1
      <4>1. entry[a].id \in Nat
            BY DEF TypeOK, Log!Lines, Log!Entries, Log!Malformed
      <4> QED
          BY <2>1, <4>1, QueueFacts DEF SinkTypes
    <3>2. Accounted' = Accounted + 1
          BY <1>4, <1>a, <3>1 DEF Put, Accounted, stats
    <3>3. D' = D /\ O' = O /\ W' = W - 1 /\ Finite' BY <1>0, <2>0, <2>1, CallCounts
    <3> HIDE DEF D, O, W, Finite
    <3>4. (Accounted + O + W <= submitted)' BY <1>0, <1>a, <2>0, <3>2, <3>3
    <3>5. (submitted + D <= Accounted + dropped + W)'
          BY <1>0, <1>a, <2>0, <3>2, <3>3
    <3> QED
        BY <1>b, <3>3, <3>4, <3>5
  <2>2. CASE Call(a, "drop") /\ UNCHANGED queue
    <3>1. Accounted' = Accounted BY <1>4, <2>2 DEF Put, Accounted, stats
    <3>2. D' = D /\ O' = O /\ W' = W /\ Finite' BY <1>0, <2>0, <2>2, CallCounts
    <3> HIDE DEF D, O, W, Finite
    <3> QED
        BY <1>0, <1>b, <2>0, <3>1, <3>2
  <2> QED
      BY <1>4, <2>1, <2>2 DEF Put
<1>5. ASSUME NEW a \in Appenders, CountDropped(a)
      PROVE CountInv'
  <2>1. /\ submit[a] = "drop" /\ Call(a, "get")
        /\ dropped' = dropped + 1 /\ submitted' = submitted
        BY <1>5 DEF CountDropped
  <2>2. Accounted' = Accounted + 1
        BY <1>5, <1>a DEF CountDropped, Accounted
  <2>3. D' = D + 1 /\ O' = O /\ W' = W - 1 /\ Finite' BY <1>0, <2>1, CallCounts
  <2> HIDE DEF D, O, W, Finite
  <2>4. (Accounted + O + W <= submitted)' BY <1>0, <1>a, <2>1, <2>2, <2>3
  <2>5. (submitted + D <= Accounted + dropped + W)'
        BY <1>0, <1>a, <2>1, <2>2, <2>3
  <2> QED
      BY <1>b, <2>3, <2>4, <2>5
<1>6. ASSUME NEW a \in Appenders, MakeRoom(a)
      PROVE CountInv'
  <2>0. submit[a] = "get" /\ submitted' = submitted /\ dropped' = dropped
        BY <1>6 DEF MakeRoom, stats
  <2>1. CASE queue # << >> /\ queue' = Tail(queue) /\ Call(a, "again")
    <3>1. Len(queue') = Len(queue) - 1 BY <2>1, QueueFacts DEF SinkTypes
    <3>2. Accounted' = Accounted - 1
          BY <1>6, <1>a, <3>1 DEF MakeRoom, Accounted, stats
    <3>3. D' = D - 1 /\ O' = O + 1 /\ W' = W /\ Finite'
          BY <1>0, <2>0, <2>1, CallCounts
    <3> HIDE DEF D, O, W, Finite
    <3>4. (Accounted + O + W <= submitted)' BY <1>0, <1>a, <2>0, <3>2, <3>3
    <3>5. (submitted + D <= Accounted + dropped + W)'
          BY <1>0, <1>a, <2>0, <3>2, <3>3
    <3> QED
        BY <1>b, <3>3, <3>4, <3>5
  <2>2. CASE Call(a, "count") /\ UNCHANGED queue
    <3>1. Accounted' = Accounted BY <1>6, <2>2 DEF MakeRoom, Accounted, stats
    <3>2. D' = D - 1 /\ O' = O /\ W' = W /\ Finite'
          BY <1>0, <2>0, <2>2, CallCounts
    <3> HIDE DEF D, O, W, Finite
    <3>3. (submitted + D <= Accounted + dropped + W)'
          BY <1>0, <1>a, <2>0, <3>1, <3>2
    <3> QED
        BY <1>0, <1>b, <2>0, <3>1, <3>2, <3>3
  <2> QED
      BY <1>6, <2>1, <2>2 DEF MakeRoom
<1>7. ASSUME NEW a \in Appenders, PutAgain(a)
      PROVE CountInv'
  <2>0. /\ submit[a] = "again" /\ submitted' = submitted /\ dropped' = dropped
        /\ Call(a, "count")
        BY <1>7 DEF PutAgain, stats
  <2>1. /\ Accounted' \in Nat
        /\ Accounted <= Accounted' /\ Accounted' <= Accounted + 1
    <3>1. entry[a].id \in Nat
          BY DEF TypeOK, Log!Lines, Log!Entries, Log!Malformed
    <3>2. Len(queue') = Len(queue) \/ Len(queue') = Len(queue) + 1
          BY <1>7, <3>1, QueueFacts DEF PutAgain, SinkTypes
    <3>3. UNCHANGED <<delivered, failed, dropped, batch>>
          BY <1>7 DEF PutAgain, stats
    <3> QED
        BY <1>a, <3>2, <3>3 DEF Accounted
  <2>2. D' = D /\ O' = O - 1 /\ W' = W /\ Finite' BY <1>0, <2>0, CallCounts
  <2> HIDE DEF D, O, W, Finite
  <2>3. PICK x \in Nat : Accounted' = x /\ Accounted <= x /\ x <= Accounted + 1
        BY <2>1
  <2>4. (Accounted + O + W <= submitted)' BY <1>0, <1>a, <2>0, <2>2, <2>3
  <2>5. (submitted + D <= Accounted + dropped + W)'
        BY <1>0, <1>a, <2>0, <2>2, <2>3
  <2> QED
      BY <1>b, <2>2, <2>4, <2>5
<1>8. CASE Flush
  <2>1. Accounted' = Accounted /\ UNCHANGED <<submit, submitted, dropped>>
    <3>1. CASE Fill
      <4>1. Head(queue) \in Nat BY <3>1, QueueFacts DEF Fill, SinkTypes
      <4>2. Len(batch') = Len(batch) + 1 /\ Len(queue') = Len(queue) - 1
            BY <3>1, <4>1, QueueFacts DEF Fill, SinkTypes
      <4> QED
          BY <1>a, <3>1, <4>2 DEF Fill, stats, Accounted
    <3>2. CASE Filled
          BY <3>2 DEF Filled, stats, Accounted
    <3>3. CASE DeliverySucceeds
          BY <1>a, <3>3 DEF DeliverySucceeds, Accounted
    <3>4. CASE DeliveryFails
          BY <1>a, <3>4 DEF DeliveryFails, Accounted
    <3> QED
        BY <1>8, <3>1, <3>2, <3>3, <3>4 DEF Flush
  <2>2. Dropping' = Dropping /\ Owing' = Owing /\ Submitting' = Submitting
        BY <2>1 DEF Dropping, Owing, Submitting
  <2> QED
      BY <2>1, <2>2 DEF CountInv
<1> QED
    BY <1>1, <1>2, <1>3, <1>4, <1>5, <1>6, <1>7, <1>8
    DEF TrailNext, trailVars, Submit

(* sink_stats loses count of at most one entry per counted drop, beside    *)
(* the entries of the threads inside submit, for any number of threads and *)
(* any queue.                                                              *)
THEOREM LossesAreAccounted == TrailSpec => []LossesAreCounted
<1>1. TrailInit => SinkTypes /\ CountInv
  <2> SUFFICES ASSUME TrailInit PROVE SinkTypes /\ CountInv
      OBVIOUS
  <2>1. /\ Dropping = {} /\ Owing = {} /\ Submitting = {}
        /\ Accounted = 0 /\ SinkTypes
        BY DEF TrailInit, SinkInit, Dropping, Owing, Submitting, Accounted, SinkTypes
  <2> QED
      BY <2>1, FS_EmptySet DEF CountInv, TrailInit, SinkInit
<1>2. SinkTypes /\ CountInv => LossesAreCounted
  <2> SUFFICES ASSUME SinkTypes, CountInv PROVE LossesAreCounted
      OBVIOUS
  <2>1. /\ Cardinality(Dropping) \in Nat /\ Cardinality(Owing) \in Nat
        /\ Cardinality(Submitting) \in Nat
        BY FS_CardinalityType DEF CountInv
  <2>2. Accounted \in Nat /\ submitted \in Nat /\ dropped \in Nat
        BY DEF Accounted, SinkTypes
  <2> QED
      BY <2>1, <2>2 DEF CountInv, LossesAreCounted
<1>3. TypeOK /\ SinkTypes /\ CountInv /\ [TrailNext]_trailVars
          => (SinkTypes /\ CountInv)'
      BY StepSinkTypes, StepCount
<1> QED
    BY <1>1, <1>2, <1>3, TrailImplementsChain, ChainTypes, PTL DEF TrailSpec

(* Every step forwards only what has been stored. *)
LEMMA StepMirror ==
    ASSUME TypeOK, SinkTypes, MirrorInv, [TrailNext]_trailVars
    PROVE  MirrorInv'
<1> DEFINE Stamped == \A a \in Appenders :
               /\ submit[a] # "count" => pc[a] = "dispatch"
               /\ pc[a] = "dispatch" => entry[a].id \in acked
           Held == mirror \cup EntriesOf(batch) \cup EntriesOf(queue)
<1>0. Stamped /\ Held \subseteq acked
      BY DEF MirrorInv, MirrorFollowsChain, InBatch, EntriesOf
<1> SUFFICES Stamped' /\ Held' \subseteq acked'
    BY DEF MirrorInv, MirrorFollowsChain, InBatch, EntriesOf
<1>1. CASE UNCHANGED trailVars
      BY <1>0, <1>1 DEF trailVars, vars, sinkVars, history
<1>2. CASE RestartTrail
  <2>1. /\ UNCHANGED <<mirror, acked>>
        /\ submit' = [a \in Appenders |-> "count"] /\ pc' = [a \in Appenders |-> "idle"]
        /\ queue' = << >> /\ batch' = << >>
        BY <1>2 DEF RestartTrail, Restarts, Restart
  <2>2. EntriesOf(<< >>) = {}
        BY DEF EntriesOf
  <2> QED
      BY <1>0, <2>1, <2>2
<1>3. ASSUME NEW a \in Appenders, Append1(a), UNCHANGED sinkVars
      PROVE  Stamped' /\ Held' \subseteq acked'
  <2>1. /\ pc[a] # "dispatch" /\ acked \subseteq acked'
        /\ pc'[a] = "dispatch" => entry'[a].id \in acked'
        /\ \A b \in Appenders : b # a => pc'[b] = pc[b] /\ entry'[b] = entry[b]
        BY <1>3 DEF Append1, MakeEntry, WriteBegins, WriteEnds, OpenFails,
                    WriteFails, Goto, history, TypeOK
  <2>2. Held' \subseteq acked'
        BY <1>0, <1>3, <2>1 DEF sinkVars
  <2>3. Stamped'
        BY <1>0, <1>3, <2>1 DEF sinkVars
  <2> QED
      BY <2>2, <2>3
<1>4. ASSUME NEW a \in Appenders, Submit(a)
      PROVE  Stamped' /\ Held' \subseteq acked'
  <2>1. pc[a] = "dispatch" /\ entry[a].id \in acked /\ entry[a].id \in Nat
    <3>1. pc[a] = "dispatch"
          BY <1>0, <1>4 DEF Submit, CountSubmitted, Put, CountDropped, MakeRoom, PutAgain
    <3>2. entry[a].id \in Nat
          BY DEF TypeOK, Log!Lines, Log!Entries, Log!Malformed
    <3> QED
        BY <1>0, <3>1, <3>2
  <2>2. UNCHANGED <<acked, entry, mirror, batch>>
        BY <1>4 DEF Submit, CountSubmitted, Put, CountDropped, MakeRoom, PutAgain, Dispatched, vars, history
  <2>3. \/ queue' = queue \/ queue' = Append(queue, entry[a].id)
        \/ queue # << >> /\ queue' = Tail(queue)
        BY <1>4 DEF Submit, CountSubmitted, Put, CountDropped, MakeRoom, PutAgain, vars
  <2>4. EntriesOf(queue') \subseteq EntriesOf(queue) \cup {entry[a].id}
        BY <2>1, <2>3, QueueFacts DEF SinkTypes
  <2>5. /\ submit'[a] # "count" => pc'[a] = "dispatch"
        /\ \A b \in Appenders : b # a => pc'[b] = pc[b] /\ submit'[b] = submit[b]
        BY <1>4, <2>1
        DEF Submit, CountSubmitted, Put, CountDropped, MakeRoom, PutAgain, Dispatched, Goto, Call, vars,
            TypeOK, SinkTypes
  <2>6. Held' \subseteq acked'
        BY <1>0, <2>1, <2>2, <2>4
  <2>7. Stamped'
        BY <1>0, <2>1, <2>2, <2>5
  <2> QED
      BY <2>6, <2>7
<1>5. CASE Flush
  <2>1. UNCHANGED <<acked, entry, pc, submit>>
        BY <1>5 DEF Flush, Fill, Filled, DeliverySucceeds, DeliveryFails, vars, history
  <2>2. InBatch = EntriesOf(batch) /\ EntriesOf(<< >>) = {}
        BY DEF InBatch, EntriesOf
  <2>3. Held' \subseteq Held
    <3>1. CASE Fill
      <4>1. /\ EntriesOf(queue') \subseteq EntriesOf(queue)
            /\ EntriesOf(batch') \subseteq EntriesOf(batch) \cup EntriesOf(queue)
            BY <3>1, QueueFacts DEF Fill, SinkTypes
      <4> QED
          BY <3>1, <4>1 DEF Fill
    <3>2. CASE Filled
          BY <3>2 DEF Filled
    <3>3. CASE DeliverySucceeds
          BY <2>2, <3>3 DEF DeliverySucceeds
    <3>4. CASE DeliveryFails
          BY <2>2, <3>4 DEF DeliveryFails
    <3> QED
        BY <1>5, <3>1, <3>2, <3>3, <3>4 DEF Flush
  <2> QED
      BY <1>0, <2>1, <2>3
<1> QED
    BY <1>1, <1>2, <1>3, <1>4, <1>5 DEF TrailNext

(* The mirror is never ahead of the chain, however many chain objects,     *)
(* threads, failed deliveries and restarts there are.                      *)
THEOREM MirrorIsNeverAhead == TrailSpec => []MirrorFollowsChain
<1>1. TrailInit => SinkTypes /\ MirrorInv
      BY DEF TrailInit, Init, SinkInit, SinkTypes, MirrorInv, MirrorFollowsChain, InBatch
<1>2. MirrorInv => MirrorFollowsChain
      BY DEF MirrorInv
<1>3. TypeOK /\ SinkTypes /\ MirrorInv /\ [TrailNext]_trailVars
          => (SinkTypes /\ MirrorInv)'
      BY StepSinkTypes, StepMirror
<1> QED
    BY <1>1, <1>2, <1>3, TrailImplementsChain, ChainTypes, PTL DEF TrailSpec

-----------------------------------------------------------------------------
(* The episodic memory. *)

Events == [id : Nat \ {0}, seq : Nat \ {0}, type : EventTypes]

MemTypeOK ==
    /\ ring \in Seq(Events) /\ journal \in Seq(Events)
    /\ ending \in {"newline", "part", "line"} /\ gap \in BOOLEAN
    /\ lastSeq \in Nat /\ nextId \in Nat \ {0}
    /\ running \in [Consolidators -> BOOLEAN]
    /\ drained \in [Consolidators -> SUBSET Events]

(* Events stand in the order in which they were recorded, and none is      *)
(* newer than the counter: what lets the replay read the counter off the   *)
(* journal.                                                                *)
InOrder(s, top) ==
    \A i \in DOMAIN s : /\ s[i].seq <= top
                        /\ \A j \in 1..(i - 1) : s[j].seq < s[i].seq

(* A copy of an event of the ring is as near to the journal's end as the   *)
(* event is to the ring's: what a torn line, an append or an eviction does *)
(* to the one it does at least to the other.                               *)
Aligned ==
    \A i \in DOMAIN ring :
        \/ ring[i].id \in unwritten
        \/ \E j \in DOMAIN journal :
             /\ journal[j] = ring[i]
             /\ gap \/ Len(journal) - j <= Len(ring) - i

(* Where an event may be that the journal no longer needs to hold. *)
Settled == stored \cup evicted \cup unwritten \cup exposed \cup leftOut

(* Every recorded event is settled or journaled; what is journaled and not *)
(* settled is in the ring or in the batch of a running consolidation; and  *)
(* batches of consolidations that overlap are exposed.  The second part is *)
(* what a compaction relies on, which keeps the ring only.                 *)
NothingForgotten ==
    /\ Recorded \subseteq Settled \cup IdsOf(ToSet(journal))
    /\ \A n \in IdsOf(ToSet(journal)) :
         \/ n \in Settled \cup IdsOf(ToSet(ring))
         \/ \E c \in Consolidators : n \in IdsOf(drained[c])
    /\ \A c \in Consolidators :
         /\ ~running[c] => drained[c] = {}
         /\ \A d \in Consolidators :
              c # d /\ running[c] /\ running[d] => IdsOf(drained[c]) \subseteq exposed

MemInv ==
    /\ MemTypeOK
    /\ ending = "line" => journal # << >>
    /\ Len(ring) <= Capacity
    /\ InOrder(ring, lastSeq)
    /\ gap \/ InOrder(journal, lastSeq)
    /\ Aligned
    /\ NothingForgotten

(* Sequence numbers are positive. *)
LEMMA SeqIsPositive ==
    ASSUME NEW s \in Seq(Events), NEW i \in 1..Len(s)
    PROVE  s[i].seq \in Nat \ {0}
<1>1. s[i] \in Events OBVIOUS
<1>2. QED BY <1>1 DEF Events

(* A deque of bounded length holds a suffix of what was appended. *)
LEMMA NewestIsSuffix ==
    ASSUME NEW s \in Seq(Events), NEW n \in Nat, NEW top \in Nat
    PROVE  /\ Newest(s, n) \in Seq(Events)
           /\ Len(Newest(s, n)) <= n /\ Len(Newest(s, n)) <= Len(s)
           /\ n > 0 /\ Len(s) > 0 => Len(Newest(s, n)) > 0
           /\ \A i \in DOMAIN Newest(s, n) :
                LET j == i + (Len(s) - Len(Newest(s, n)))
                IN  j \in DOMAIN s /\ Newest(s, n)[i] = s[j]
           /\ \A j \in DOMAIN s : Len(s) - j < n =>
                /\ j - (Len(s) - Len(Newest(s, n))) \in DOMAIN Newest(s, n)
                /\ Newest(s, n)[j - (Len(s) - Len(Newest(s, n)))] = s[j]
           /\ ToSet(Newest(s, n)) \subseteq ToSet(s)
           /\ InOrder(s, top) => InOrder(Newest(s, n), top)
<1>1. CASE Len(s) <= n
  <2>1. Newest(s, n) = s /\ Len(s) \in Nat BY <1>1 DEF Newest
  <2>2. \A i \in DOMAIN s : i \in Nat /\ i + (Len(s) - Len(s)) = i
                             /\ i - (Len(s) - Len(s)) = i
        BY <2>1
  <2>3. QED BY <1>1, <2>1, <2>2
<1>2. CASE ~(Len(s) <= n)
  <2> DEFINE k == Len(s) - n
             t == Newest(s, n)
  <2>1. k \in Nat /\ Len(s) \in Nat /\ k <= Len(s) BY <1>2
  <2>2. t = SubSeq(s, k + 1, Len(s)) BY <1>2 DEF Newest
  <2> HIDE DEF t
  <2>0. Len(s) - (Len(s) - k) = k /\ n = Len(s) - k BY <2>1
  <2> HIDE DEF k
  <2>3. t \in Seq(Events) /\ Len(t) = Len(s) - k BY <2>1, <2>2
  <2>4. \A i \in DOMAIN t : t[i] = s[i + k] /\ i + k \in DOMAIN s
        BY <2>1, <2>2, <2>3
  <2>a. \A j \in DOMAIN s : Len(s) - j < n => j - k \in DOMAIN t /\ t[j - k] = s[j]
    <3> SUFFICES ASSUME NEW j \in DOMAIN s, Len(s) - j < n
                 PROVE  j - k \in DOMAIN t /\ t[j - k] = s[j]
        OBVIOUS
    <3>1. j - k \in DOMAIN t /\ (j - k) + k = j BY <2>0, <2>1, <2>3
    <3>2. QED BY <2>4, <3>1
  <2>5. ToSet(t) \subseteq ToSet(s) BY <2>4 DEF ToSet
  <2>6. ASSUME InOrder(s, top) PROVE InOrder(t, top)
    <3> SUFFICES ASSUME NEW i \in DOMAIN t
                 PROVE  /\ t[i].seq <= top
                        /\ \A j \in 1..(i - 1) : t[j].seq < t[i].seq
        BY DEF InOrder
    <3>1. i \in Nat /\ i \in 1..Len(t) BY <2>3
    <3>2. t[i].seq <= top BY <2>4, <2>6 DEF InOrder
    <3>3. ASSUME NEW j \in 1..(i - 1) PROVE t[j].seq < t[i].seq
      <4>1. j \in DOMAIN t BY <2>3, <3>1
      <4>2. j + k \in 1..((i + k) - 1) BY <2>1, <3>1
      <4>3. t[j] = s[j + k] /\ t[i] = s[i + k] /\ i + k \in DOMAIN s
            BY <2>4, <4>1
      <4>4. \A x \in 1..((i + k) - 1) : s[x].seq < s[i + k].seq
            BY <2>6, <4>3 DEF InOrder
      <4>5. s[j + k].seq < s[i + k].seq BY <4>2, <4>4, Zenon
      <4>6. QED BY <4>3, <4>5, Zenon
    <3>4. QED BY <3>2, <3>3
  <2>7. Len(s) - Len(t) = k /\ Len(t) <= n /\ Len(t) <= Len(s) /\ (n > 0 => Len(t) > 0)
        BY <2>0, <2>1, <2>3
  <2>8. QED BY <2>3, <2>4, <2>a, <2>5, <2>6, <2>7 DEF t
<1>3. QED BY <1>1, <1>2

(* Appending the next event adds it and keeps the order. *)
LEMMA AppendedIsNewest ==
    ASSUME NEW s \in Seq(Events), NEW e \in Events, NEW top \in Nat,
           e.seq = top + 1
    PROVE  /\ Append(s, e) \in Seq(Events)
           /\ ToSet(Append(s, e)) = ToSet(s) \cup {e}
           /\ InOrder(s, top) => InOrder(Append(s, e), top + 1)
<1> DEFINE t == Append(s, e)
<1>1. /\ t \in Seq(Events) /\ Len(t) = Len(s) + 1 /\ Len(s) \in Nat
      /\ \A i \in 1..Len(s) : t[i] = s[i]
      /\ t[Len(s) + 1] = e
      OBVIOUS
<1> HIDE DEF t
<1>2. DOMAIN t = DOMAIN s \cup {Len(s) + 1} /\ DOMAIN s = 1..Len(s)
      BY <1>1
<1>3. ToSet(t) = ToSet(s) \cup {e} BY <1>1, <1>2 DEF ToSet
<1>4. ASSUME InOrder(s, top) PROVE InOrder(t, top + 1)
  <2> SUFFICES ASSUME NEW i \in DOMAIN t
               PROVE  /\ t[i].seq <= top + 1
                      /\ \A j \in 1..(i - 1) : t[j].seq < t[i].seq
      BY DEF InOrder
  <2>1. \A j \in 1..Len(s) : s[j].seq \in Nat BY SeqIsPositive
  <2>2. CASE i \in DOMAIN s
    <3>1. t[i] = s[i] /\ \A j \in 1..(i - 1) : t[j] = s[j] /\ j \in 1..Len(s)
          BY <1>1, <1>2, <2>2
    <3>2. /\ s[i].seq <= top
          /\ \A j \in 1..(i - 1) : s[j].seq < s[i].seq
          BY <1>4, <2>2 DEF InOrder
    <3>3. s[i].seq \in Nat BY <1>2, <2>1, <2>2
    <3>4. QED BY <3>1, <3>2, <3>3
  <2>3. CASE i = Len(s) + 1
    <3>1. t[i] = e /\ \A j \in 1..(i - 1) : t[j] = s[j] /\ j \in DOMAIN s
          BY <1>1, <1>2, <2>3
    <3>2. \A j \in DOMAIN s : s[j].seq <= top BY <1>4 DEF InOrder
    <3>3. \A j \in DOMAIN s : s[j].seq < top + 1 BY <1>2, <2>1, <3>2
    <3>4. QED BY <3>1, <3>3
  <2>4. QED BY <1>2, <2>2, <2>3
<1>5. QED BY <1>1, <1>3, <1>4 DEF t

(* In a sequence in order every line is newer than the ones before. *)
LEMMA OrderedIsNewer ==
    ASSUME NEW s \in Seq(Events), NEW top, InOrder(s, top)
    PROVE  NewerLines(s) = DOMAIN s
<1>1. \A i \in DOMAIN s : s[i].seq > 0
  <2>1. \A i \in DOMAIN s : s[i].seq \in Nat \ {0} BY SeqIsPositive
  <2>2. QED BY <2>1
<1>2. \A i \in DOMAIN s : \A j \in 1..(i - 1) : s[j].seq < s[i].seq
      BY DEF InOrder
<1>3. QED BY <1>1, <1>2, Zenon DEF NewerLines

(* What a replay reads: lines of the journal in the order of their         *)
(* numbers, and all of them if each is newer than the ones before.         *)
LEMMA ReplayIsOrdered ==
    ASSUME NEW s \in Seq(Events), NEW r \in Replays(s)
    PROVE  /\ r \in Seq(Events) /\ ToSet(r) \subseteq ToSet(s)
           /\ LastSeqOf(r) \in Nat /\ InOrder(r, LastSeqOf(r))
           /\ NewerLines(s) = DOMAIN s => r = s
<1> DEFINE S == NewerLines(s)
           N == Cardinality(S)
<1>1. S \subseteq 1..Len(s) /\ Len(s) \in Nat BY DEF NewerLines
<1>2. IsFiniteSet(S)
  <2>1. IsFiniteSet(1..Len(s)) BY <1>1, FS_Interval
  <2>2. QED BY <1>1, <2>1, FS_Subset
<1>3. N \in Nat BY <1>2, FS_CardinalityType
<1>4. PICK k \in Enumerations(S) : r = [n \in DOMAIN k |-> s[k[n]]]
      BY DEF Replays
<1>5. /\ k \in [1..N -> S]
      /\ \A n \in 1..N : Cardinality({i \in S : i <= k[n]}) = n
      BY <1>4 DEF Enumerations
<1>6. \A i \in S : s[i] \in Events /\ s[i].seq \in Nat \ {0} /\ i \in Nat
      BY <1>1, SeqIsPositive
<1> HIDE DEF N
<1>7. \A m, n \in 1..N : m < n => k[m] < k[n]
  <2> SUFFICES ASSUME NEW m \in 1..N, NEW n \in 1..N, m < n, ~(k[m] < k[n])
               PROVE  FALSE
      OBVIOUS
  <2>1. k[m] \in Nat /\ k[n] \in Nat BY <1>5, <1>6
  <2>2. \A i \in S : i \in Nat /\ (i <= k[n] => i <= k[m]) BY <1>6, <2>1
  <2> DEFINE A == {i \in S : i <= k[n]}
             B == {i \in S : i <= k[m]}
  <2>3. A \subseteq B BY <2>2
  <2>4. IsFiniteSet(B) BY <1>2, FS_Subset
  <2>5. Cardinality(A) <= Cardinality(B) BY <2>3, <2>4, FS_Subset
  <2>6. Cardinality(A) = n /\ Cardinality(B) = m BY <1>5
  <2> HIDE DEF A, B
  <2>7. QED BY <2>5, <2>6
<1>8. /\ r \in Seq(Events) /\ Len(r) = N /\ DOMAIN r = 1..N
      /\ \A n \in 1..N : r[n] = s[k[n]] /\ k[n] \in S
  <2>1. r = [n \in 1..N |-> s[k[n]]] BY <1>4, <1>5
  <2>2. \A n \in 1..N : s[k[n]] \in Events BY <1>5, <1>6
  <2>3. r \in [1..N -> Events] BY <2>1, <2>2
  <2>4. r \in Seq(Events) BY <1>3, <2>3
  <2>5. QED BY <1>3, <1>5, <2>1, <2>4
<1>9. ToSet(r) \subseteq ToSet(s)
  <2>1. \A n \in 1..N : k[n] \in DOMAIN s BY <1>1, <1>8
  <2>2. QED BY <1>8, <2>1 DEF ToSet
<1>10. \A n \in 1..N : \A m \in 1..(n - 1) : r[m].seq < r[n].seq
  <2> SUFFICES ASSUME NEW n \in 1..N, NEW m \in 1..(n - 1)
               PROVE  r[m].seq < r[n].seq
      OBVIOUS
  <2>1. m \in 1..N /\ m < n BY <1>3
  <2>2. k[m] < k[n] /\ k[m] \in S /\ k[n] \in S BY <1>7, <1>8, <2>1
  <2>3. k[m] \in 1..(k[n] - 1) BY <1>1, <2>2
  <2>4. \A j \in 1..(k[n] - 1) : s[j].seq < s[k[n]].seq BY <2>2 DEF NewerLines
  <2>5. s[k[m]].seq < s[k[n]].seq BY <2>3, <2>4, Zenon
  <2>6. QED BY <1>8, <2>1, <2>5
<1>11. LastSeqOf(r) \in Nat /\ \A n \in 1..N : r[n].seq <= LastSeqOf(r)
  <2>1. \A n \in 1..N : r[n].seq \in Nat BY <1>6, <1>8
  <2>2. CASE N = 0 
    <3>1. r = << >> BY <1>8, <2>2
    <3>2. QED BY <2>2, <3>1 DEF LastSeqOf
  <2>3. CASE N # 0
    <3>1. N \in 1..N /\ LastSeqOf(r) = r[N].seq BY <1>3, <1>8, <2>3 DEF LastSeqOf
    <3>2. \A n \in 1..N : n = N \/ n \in 1..(N - 1) BY <1>3
    <3>3. \A n \in 1..(N - 1) : r[n].seq < r[N].seq BY <1>10, <3>1
    <3>4. QED BY <2>1, <3>1, <3>2, <3>3
  <2>4. QED BY <2>2, <2>3
<1>12. ASSUME S = DOMAIN s PROVE r = s
  <2>1. S = 1..Len(s) BY <1>12
  <2>2. N = Len(s)
    <3>1. Cardinality(1..Len(s)) = IF 1 > Len(s) THEN 0 ELSE Len(s) - 1 + 1
          BY <1>1, FS_Interval
    <3>2. QED BY <1>1, <2>1, <3>1 DEF N
  <2>3. ASSUME NEW n \in 1..N PROVE k[n] = n
    <3>1. k[n] \in 1..Len(s) /\ k[n] \in Int /\ k[n] >= 1 BY <1>1, <1>8, <2>1
    <3>2. {i \in S : i <= k[n]} = 1..k[n] BY <1>1, <2>1, <3>1
    <3>3. Cardinality(1..k[n]) = IF 1 > k[n] THEN 0 ELSE k[n] - 1 + 1
          BY <3>1, FS_Interval
    <3>4. Cardinality({i \in S : i <= k[n]}) = n BY <1>5
    <3>5. Cardinality(1..k[n]) = n BY <3>2, <3>4
    <3>6. QED BY <3>1, <3>3, <3>5
  <2>4. QED BY <1>8, <2>2, <2>3
<1>13. QED BY <1>8, <1>9, <1>10, <1>11, <1>12 DEF InOrder

(* Identities of events: of none, of one more, of fewer, of two parts. *)
LEMMA IdsFacts ==
    /\ IdsOf({}) = {} /\ IdsOf(ToSet(<< >>)) = {}
    /\ \A es, e : IdsOf(es \cup {e}) = IdsOf(es) \cup {e.id}
    /\ \A es, fs : es \subseteq fs => IdsOf(es) \subseteq IdsOf(fs)
    /\ \A es, fs : IdsOf(es) \subseteq IdsOf(fs) \cup IdsOf(es \ fs)
BY DEF IdsOf, ToSet

(* The identities of a sequence are those at its places. *)
LEMMA IdAt ==
    ASSUME NEW s
    PROVE  /\ \A i \in DOMAIN s : s[i].id \in IdsOf(ToSet(s))
           /\ \A n \in IdsOf(ToSet(s)) : \E i \in DOMAIN s : n = s[i].id
BY DEF IdsOf, ToSet

(* What an append does to the journal, whole, torn or failed: the new line *)
(* comes last or is not written, an old line keeps its place or is spoiled.*)
LEMMA AppendFacts ==
    ASSUME MemInv, NEW ty \in EventTypes, AppendJournal(Event(ty))
    PROVE  /\ Event(ty) \in Events
           /\ journal' \in Seq(Events) /\ ending' \in {"newline", "part", "line"}
           /\ ending' = "line" => journal' # << >>
           /\ gap \/ InOrder(journal', lastSeq + 1)
           /\ unwritten \subseteq unwritten'
           /\ Len(journal') <= Len(journal) + 1
           /\ \A j \in DOMAIN journal :
                \/ journal[j].id \in unwritten'
                \/ j \in DOMAIN journal' /\ journal'[j] = journal[j]
           /\ \/ nextId \in unwritten'
              \/ Len(journal') > 0 /\ journal'[Len(journal')] = Event(ty)
           /\ IdsOf(ToSet(journal')) \subseteq IdsOf(ToSet(journal)) \cup {nextId}
           /\ IdsOf(ToSet(journal)) \subseteq IdsOf(ToSet(journal')) \cup unwritten'
           /\ nextId \in IdsOf(ToSet(journal')) \cup unwritten'
<1> DEFINE e == Event(ty)
<1>1. /\ journal \in Seq(Events) /\ lastSeq \in Nat /\ nextId \in Nat \ {0}
      /\ ending \in {"newline", "part", "line"}
      /\ ending = "line" => journal # << >>
      /\ gap \/ InOrder(journal, lastSeq)
      BY DEF MemInv, MemTypeOK
<1>2. e \in Events /\ e.seq = lastSeq + 1 /\ e.id = nextId
      BY <1>1 DEF Events, Event
<1>3. /\ ending' \in {"newline", "part", "line"}
      /\ \/ /\ journal' = Append(journal, e) /\ unwritten' = unwritten
         \/ /\ journal' = journal /\ unwritten' = unwritten \cup {e.id}
            /\ ending' = "line" => ending = "line"
         \/ /\ ending = "line" /\ journal' = Front(journal) /\ ending' # "line"
            /\ unwritten' = unwritten \cup {e.id} \cup {Last(journal).id}
  <2>1. CASE ending = "line" BY <1>1, <2>1, Zenon DEF AppendJournal, Spoiled
  <2>2. CASE ending # "line" BY <1>1, <2>2, Zenon DEF AppendJournal, Spoiled
  <2>3. QED BY <2>1, <2>2
<1> HIDE DEF e
<1>4. ASSUME NEW s \in Seq(Events), gap \/ InOrder(s, lastSeq)
      PROVE  gap \/ InOrder(s, lastSeq + 1)
  <2>1. \A i \in DOMAIN s : s[i].seq \in Nat BY SeqIsPositive
  <2>2. QED BY <1>1, <1>4, <2>1 DEF InOrder
<1>5. CASE journal' = Append(journal, e) /\ unwritten' = unwritten
  <2>1. /\ Append(journal, e) \in Seq(Events)
        /\ ToSet(Append(journal, e)) = ToSet(journal) \cup {e}
        /\ gap \/ InOrder(Append(journal, e), lastSeq + 1)
        BY <1>1, <1>2, AppendedIsNewest
  <2>2. /\ Len(journal') = Len(journal) + 1 /\ Len(journal) \in Nat
        /\ \A j \in DOMAIN journal : j \in DOMAIN journal' /\ journal'[j] = journal[j]
        /\ journal'[Len(journal')] = e
        BY <1>1, <1>2, <1>5
  <2>3. IdsOf(ToSet(journal')) = IdsOf(ToSet(journal)) \cup {nextId}
        BY <1>2, <1>5, <2>1, IdsFacts
  <2>4. Len(journal') > 0 /\ journal' # << >> /\ Len(journal') <= Len(journal) + 1
        BY <2>2
  <2>5. journal' \in Seq(Events) /\ (gap \/ InOrder(journal', lastSeq + 1))
        BY <1>5, <2>1, Zenon
  <2>6. unwritten \subseteq unwritten' BY <1>5, Zenon
  <2>7. e = Event(ty) BY DEF e
  <2>8. QED BY <1>2, <1>3, <2>2, <2>3, <2>4, <2>5, <2>6, <2>7, Zenon
<1>6. CASE journal' = journal /\ unwritten' = unwritten \cup {e.id}
           /\ (ending' = "line" => ending = "line")
  <2>1. Len(journal) \in Nat /\ Len(journal) <= Len(journal) + 1 BY <1>1
  <2>2. gap \/ InOrder(journal, lastSeq + 1) BY <1>1, <1>4
  <2>3. QED BY <1>1, <1>2, <1>3, <1>6, <2>1, <2>2 DEF e
<1>7. CASE /\ ending = "line" /\ journal' = Front(journal) /\ ending' # "line"
           /\ unwritten' = unwritten \cup {e.id} \cup {Last(journal).id}
  <2> DEFINE m == Len(journal) - 1
  <2>1. m \in Nat /\ Len(journal) = m + 1 BY <1>1, <1>7
  <2>2. journal' = SubSeq(journal, 1, m) /\ Last(journal) = journal[m + 1]
        BY <1>7, <2>1 DEF Front, Last
  <2> HIDE DEF m
  <2>3. /\ journal' \in Seq(Events) /\ Len(journal') = m
        /\ \A j \in 1..m : journal'[j] = journal[j]
        BY <1>1, <2>1, <2>2
  <2>4. /\ DOMAIN journal' = 1..m /\ DOMAIN journal = 1..(m + 1)
        /\ 1..(m + 1) = 1..m \cup {m + 1}
        BY <1>1, <2>1, <2>3
  <2>5. \A j \in DOMAIN journal :
          \/ journal[j].id \in unwritten'
          \/ j \in DOMAIN journal' /\ journal'[j] = journal[j]
        BY <1>7, <2>2, <2>3, <2>4
  <2>6. gap \/ InOrder(journal', lastSeq)
    <3> SUFFICES ASSUME ~gap, NEW i \in 1..m
                 PROVE  /\ journal'[i].seq <= lastSeq
                        /\ \A j \in 1..(i - 1) : journal'[j].seq < journal'[i].seq
        BY <2>4 DEF InOrder
    <3>1. \A j \in 1..(i - 1) : j \in 1..m BY <2>1
    <3>2. /\ journal[i].seq <= lastSeq
          /\ \A j \in 1..(i - 1) : journal[j].seq < journal[i].seq
          BY <1>1, <2>4 DEF InOrder
    <3>3. QED BY <2>3, <3>1, <3>2
  <2>7. gap \/ InOrder(journal', lastSeq + 1) BY <1>4, <2>3, <2>6
  <2>8. IdsOf(ToSet(journal')) \subseteq IdsOf(ToSet(journal))
    <3>1. ToSet(journal') \subseteq ToSet(journal) BY <2>3, <2>4 DEF ToSet
    <3>2. QED BY <3>1, IdsFacts
  <2>9. IdsOf(ToSet(journal)) \subseteq IdsOf(ToSet(journal')) \cup unwritten'
        BY <2>5, IdAt
  <2>10. Len(journal') <= Len(journal) + 1 BY <2>1, <2>3
  <2>11. QED BY <1>2, <1>3, <1>7, <2>3, <2>5, <2>7, <2>8, <2>9, <2>10 DEF e
<1>8. QED BY <1>3, <1>5, <1>6, <1>7

(* record, with its journal line whole, torn or missing. *)
LEMMA RecordKeeps ==
    ASSUME MemInv, NEW ty \in EventTypes, Record(ty)
    PROVE  MemInv'
<1> DEFINE e == Event(ty)
<1>1. /\ ring \in Seq(Events) /\ journal \in Seq(Events)
      /\ lastSeq \in Nat /\ nextId \in Nat \ {0}
      /\ InOrder(ring, lastSeq) /\ Aligned /\ NothingForgotten
      BY DEF MemInv, MemTypeOK
<1>2. e \in Events /\ e.seq = lastSeq + 1 /\ e.id = nextId
      BY <1>1 DEF Events, Event
<1>3. /\ AppendJournal(e)
      /\ \E n \in 1..Capacity : ring' = Newest(Append(ring, e), n)
      BY DEF Record
<1>4. /\ lastSeq' = lastSeq + 1 /\ nextId' = nextId + 1
      /\ evicted' = evicted \cup ((IdsOf(ToSet(ring)) \cup {nextId})
                                    \ IdsOf(ToSet(ring')))
      /\ UNCHANGED <<running, drained, stored, exposed, leftOut, gap>>
      BY DEF Record
<1>5. /\ journal' \in Seq(Events) /\ ending' \in {"newline", "part", "line"}
      /\ ending' = "line" => journal' # << >>
      /\ gap' \/ InOrder(journal', lastSeq')
      /\ unwritten \subseteq unwritten'
      /\ Len(journal') <= Len(journal) + 1
      /\ \A j \in DOMAIN journal :
           \/ journal[j].id \in unwritten'
           \/ j \in DOMAIN journal' /\ journal'[j] = journal[j]
      /\ \/ nextId \in unwritten'
         \/ Len(journal') > 0 /\ journal'[Len(journal')] = e
      /\ IdsOf(ToSet(journal')) \subseteq IdsOf(ToSet(journal)) \cup {nextId}
      /\ IdsOf(ToSet(journal)) \subseteq IdsOf(ToSet(journal')) \cup unwritten'
      /\ nextId \in IdsOf(ToSet(journal')) \cup unwritten'
      BY <1>3, <1>4, AppendFacts
<1> HIDE DEF e
<1> DEFINE A == Append(ring, e)
           d == Len(A) - Len(ring')
<1>6. /\ A \in Seq(Events) /\ Len(A) = Len(ring) + 1 /\ Len(ring) \in Nat
      /\ \A i \in 1..Len(ring) : A[i] = ring[i]
      /\ A[Len(ring) + 1] = e
      BY <1>1, <1>2
<1>7. ToSet(A) = ToSet(ring) \cup {e} /\ InOrder(A, lastSeq')
      BY <1>1, <1>2, <1>4, AppendedIsNewest
<1> HIDE DEF A
<1>8. /\ ring' \in Seq(Events) /\ Len(ring') <= Capacity
      /\ Len(ring') \in 1..Len(A)
      /\ \A i \in DOMAIN ring' : i + d \in DOMAIN A /\ ring'[i] = A[i + d]
      /\ ToSet(ring') \subseteq ToSet(ring) \cup {e}
      /\ InOrder(ring', lastSeq')
  <2>1. PICK n \in 1..Capacity : ring' = Newest(A, n) BY <1>3 DEF A
  <2>2. n \in Nat /\ n > 0 /\ n <= Capacity /\ lastSeq' \in Nat /\ Capacity \in Nat
        BY <1>1, <1>4, CapacityAssumption
  <2>3. /\ ring' \in Seq(Events) /\ Len(ring') <= n /\ Len(ring') <= Len(A)
        /\ n > 0 /\ Len(A) > 0 => Len(ring') > 0
        /\ \A i \in DOMAIN ring' : i + d \in DOMAIN A /\ ring'[i] = A[i + d]
        /\ ToSet(ring') \subseteq ToSet(A)
        /\ InOrder(A, lastSeq') => InOrder(ring', lastSeq')
        BY <1>6, <2>1, <2>2, NewestIsSuffix
  <2>4. Len(ring') \in 1..Len(A) /\ Len(ring') <= Capacity
        BY <1>6, <2>2, <2>3
  <2>5. QED BY <1>7, <2>3, <2>4
<1>9. MemTypeOK' BY <1>1, <1>4, <1>5, <1>8 DEF MemInv, MemTypeOK
<1>10. Aligned'
  <2> SUFFICES ASSUME NEW i \in DOMAIN ring', ring'[i].id \notin unwritten'
               PROVE  \E j \in DOMAIN journal' :
                        /\ journal'[j] = ring'[i]
                        /\ gap' \/ Len(journal') - j <= Len(ring') - i
      BY DEF Aligned
  <2>1. /\ i \in 1..Len(ring') /\ Len(ring') \in Nat /\ d \in Nat
        /\ d = (Len(ring) + 1) - Len(ring')
        /\ i + d \in 1..(Len(ring) + 1) /\ ring'[i] = A[i + d]
        BY <1>6, <1>8
  <2> HIDE DEF d
  <2>2. CASE i + d = Len(ring) + 1
    <3>1. i = Len(ring') /\ ring'[i] = e BY <1>6, <2>1, <2>2
    <3>2. Len(journal') > 0 /\ journal'[Len(journal')] = e
          BY <1>2, <1>5, <3>1
    <3>3. /\ Len(journal') \in DOMAIN journal'
          /\ Len(journal') - Len(journal') <= Len(ring') - i
          BY <1>5, <2>1, <3>1, <3>2
    <3>4. QED BY <3>1, <3>2, <3>3
  <2>3. CASE i + d \in 1..Len(ring)
    <3>1. ring'[i] = ring[i + d] /\ i + d \in DOMAIN ring
          BY <1>1, <1>6, <2>1, <2>3
    <3>2. PICK j \in DOMAIN journal :
            /\ journal[j] = ring[i + d]
            /\ gap \/ Len(journal) - j <= Len(ring) - (i + d)
          BY <1>1, <1>5, <3>1 DEF Aligned
    <3>3. j \in DOMAIN journal' /\ journal'[j] = journal[j]
          BY <1>5, <3>1, <3>2
    <3>4. gap' \/ Len(journal') - j <= Len(ring') - i
      <4>1. j \in Nat /\ Len(journal) \in Nat /\ Len(journal') \in Nat
            BY <1>1, <1>5, <3>2
      <4>2. gap' = gap /\ Len(journal') <= Len(journal) + 1 BY <1>4, <1>5
      <4>3. CASE Len(journal) - j <= Len(ring) - (i + d)
            BY <1>6, <2>1, <4>1, <4>2, <4>3
      <4>4. QED BY <3>2, <4>2, <4>3
    <3>5. QED BY <3>1, <3>2, <3>3, <3>4
  <2>4. QED BY <1>6, <2>1, <2>2, <2>3
<1> DEFINE R == IdsOf(ToSet(ring))
           J == IdsOf(ToSet(journal))
<1>11. evicted' = evicted \cup ((R \cup {nextId}) \ R') BY <1>4
<1>12. Recorded' = Recorded \cup {nextId} BY <1>1, <1>4 DEF Recorded
<1>13. /\ Recorded' \subseteq Settled' \cup J'
       /\ \A n \in J' : \/ n \in Settled' \cup R'
                        \/ \E c \in Consolidators : n \in IdsOf(drained[c])
  <2>1. /\ Recorded \subseteq Settled \cup J
        /\ \A n \in J : \/ n \in Settled \cup R
                        \/ \E c \in Consolidators : n \in IdsOf(drained[c])
        BY <1>1 DEF NothingForgotten
  <2>2. /\ J' \subseteq J \cup {nextId} /\ J \subseteq J' \cup unwritten'
        /\ nextId \in J' \cup unwritten'
        BY <1>5
  <2> HIDE DEF R, J
  <2>3. Settled \subseteq Settled' BY <1>4, <1>5, <1>11 DEF Settled
  <2>4. Recorded' \subseteq Settled' \cup J'
        BY <1>12, <2>1, <2>2, <2>3 DEF Settled
  <2>5. R \cup {nextId} \subseteq Settled' \cup R' BY <1>11 DEF Settled
  <2>6. QED BY <2>1, <2>2, <2>3, <2>4, <2>5
<1>14. NothingForgotten'
       BY <1>1, <1>4, <1>13 DEF NothingForgotten
<1>15. QED BY <1>5, <1>8, <1>9, <1>10, <1>14 DEF MemInv

(* What drain and mark_consolidated do to the file, compacting or not: the *)
(* journal keeps a copy of what is in the ring, in its order.              *)
LEMMA CompactFacts ==
    ASSUME MemInv, Compact(ring) \/ UNCHANGED fileVars
    PROVE  /\ journal' \in Seq(Events) /\ ending' \in {"newline", "part", "line"}
           /\ gap' \in BOOLEAN
           /\ ending' = "line" => journal' # << >>
           /\ gap' \/ InOrder(journal', lastSeq)
           /\ journal' = journal \/ journal' = ring
           /\ unwritten \subseteq unwritten' \cup IdsOf(ToSet(journal'))
           /\ unwritten' \subseteq unwritten
           /\ IdsOf(ToSet(ring)) \subseteq unwritten' \cup IdsOf(ToSet(journal'))
           /\ ring' = ring => Aligned'
<1>1. /\ ring \in Seq(Events) /\ journal \in Seq(Events)
      /\ ending \in {"newline", "part", "line"} /\ gap \in BOOLEAN
      /\ ending = "line" => journal # << >>
      /\ InOrder(ring, lastSeq) /\ (gap \/ InOrder(journal, lastSeq))
      /\ Aligned
      BY DEF MemInv, MemTypeOK
<1>2. CASE UNCHANGED fileVars
  <2>1. UNCHANGED <<journal, ending, unwritten, gap>> BY <1>2 DEF fileVars
  <2>2. IdsOf(ToSet(ring)) \subseteq unwritten \cup IdsOf(ToSet(journal))
        BY <1>1, IdAt DEF Aligned
  <2>3. ring' = ring => Aligned' BY <1>1, <2>1 DEF Aligned
  <2>4. QED BY <1>1, <2>1, <2>2, <2>3
<1>3. CASE /\ journal' = ring /\ ending' = "newline"
           /\ unwritten' = unwritten \ IdsOf(ToSet(ring))
           /\ gap' = FALSE
  <2>1. ASSUME ring' = ring PROVE Aligned'
    <3> SUFFICES ASSUME NEW i \in DOMAIN ring
                 PROVE  \E j \in DOMAIN ring :
                          /\ ring[j] = ring[i]
                          /\ Len(ring) - j <= Len(ring) - i
        BY <1>3, <2>1 DEF Aligned
    <3>1. Len(ring) - i <= Len(ring) - i BY <1>1
    <3>2. QED BY <3>1
  <2>2. QED BY <1>1, <1>3, <2>1
<1>4. QED BY <1>2, <1>3 DEF Compact

(* drain, with or without a compaction: what was journaled and is not in   *)
(* the ring is settled, or in the batch of a consolidation that still runs *)
(* and is exposed by this very drain.                                      *)
LEMMA DrainKeeps ==
    ASSUME MemInv, NEW c \in Consolidators, Drain(c)
    PROVE  MemInv'
<1> DEFINE R == IdsOf(ToSet(ring))
           J == IdsOf(ToSet(journal))
<1>1. /\ ring' = << >>
      /\ Compact(ring) \/ UNCHANGED fileVars
      /\ drained' = [drained EXCEPT ![c] = ToSet(ring)]
      /\ running' = [running EXCEPT ![c] = TRUE]
      /\ exposed' = exposed \cup Overlapped(c)
      /\ UNCHANGED <<lastSeq, nextId, evicted, stored, leftOut>>
      BY DEF Drain
<1>2. MemTypeOK /\ NothingForgotten BY DEF MemInv
<1>3. ToSet(ring) \subseteq Events BY <1>2 DEF MemTypeOK, ToSet
<1>4. /\ journal' \in Seq(Events) /\ ending' \in {"newline", "part", "line"}
      /\ gap' \in BOOLEAN
      /\ ending' = "line" => journal' # << >>
      /\ gap' \/ InOrder(journal', lastSeq')
      /\ J' = J \/ J' = R
      /\ unwritten \subseteq unwritten' \cup J' /\ unwritten' \subseteq unwritten
      /\ R \subseteq unwritten' \cup J'
      BY <1>1, CompactFacts
<1>5. MemTypeOK' BY <1>1, <1>2, <1>3, <1>4 DEF MemTypeOK
<1>6. /\ InOrder(ring', lastSeq') /\ Aligned' /\ Len(ring') <= Capacity
      /\ R' = {}
      BY <1>1, IdsFacts, CapacityAssumption DEF InOrder, Aligned
<1>8. /\ drained'[c] = ToSet(ring) /\ running'[c]
      /\ \A d \in Consolidators : d # c => /\ drained'[d] = drained[d]
                                           /\ running'[d] = running[d]
      BY <1>1, <1>2 DEF MemTypeOK
<1>9. ASSUME NEW d \in Consolidators, running[d]
      PROVE  \A b \in Consolidators : IdsOf(drained'[b]) \subseteq exposed'
      BY <1>1, <1>9 DEF Overlapped
<1>10. ~running[c] /\ drained[c] = {}
       BY <1>2 DEF NothingForgotten, Drain
<1>11. \A n : n \in IdsOf(drained'[c]) <=> n \in R BY <1>8
<1>12. Settled \subseteq Settled' \cup R
  <2>1. unwritten \subseteq unwritten' \cup R
    <3>1. CASE Compact(ring) BY <3>1 DEF Compact, fileVars
    <3>2. CASE UNCHANGED fileVars BY <3>2 DEF fileVars
    <3>3. QED BY <1>1, <3>1, <3>2
  <2> HIDE DEF R, J
  <2>2. QED BY <1>1, <2>1 DEF Settled
<1>13. \A n \in Settled \cup J : n \in Settled' \cup R
  <2> SUFFICES ASSUME NEW n \in J, n \notin Settled \cup R
               PROVE  n \in Settled'
      BY <1>12
  <2>1. PICK b \in Consolidators : n \in IdsOf(drained[b])
        BY <1>2 DEF NothingForgotten
  <2>2. b # c /\ running[b]
        BY <1>2, <1>10, <2>1, IdsFacts DEF NothingForgotten, MemTypeOK
  <2>3. n \in exposed' BY <1>8, <1>9, <2>1, <2>2
  <2>4. QED BY <2>3 DEF Settled
<1>14. R \subseteq Settled' \cup J' BY <1>4 DEF Settled
<1>15. Recorded' \subseteq Settled' \cup J'
  <2>1. Recorded' = Recorded BY <1>1 DEF Recorded
  <2>2. Recorded \subseteq Settled \cup J BY <1>2 DEF NothingForgotten
  <2> HIDE DEF R, J
  <2>3. QED BY <1>13, <1>14, <2>1, <2>2
<1>16. \A n \in J' : \/ n \in Settled' \cup R'
                     \/ \E b \in Consolidators : n \in IdsOf(drained'[b])
  <2>1. \A n \in R : n \in IdsOf(drained'[c]) BY <1>11
  <2> HIDE DEF R, J
  <2>2. \A n \in J' : n \in Settled' \cup R BY <1>4, <1>13
  <2>3. QED BY <2>1, <2>2
<1>17. \A b \in Consolidators : ~running'[b] => drained'[b] = {}
       BY <1>2, <1>8 DEF NothingForgotten
<1>18. ASSUME NEW b \in Consolidators, NEW d \in Consolidators,
              b # d, running'[b], running'[d]
       PROVE  IdsOf(drained'[b]) \subseteq exposed'
  <2>1. running[b] \/ running[d] BY <1>8, <1>18
  <2>2. QED BY <1>9, <2>1
<1>19. NothingForgotten'
       BY <1>15, <1>16, <1>17, <1>18 DEF NothingForgotten
<1>20. QED BY <1>4, <1>5, <1>6, <1>19 DEF MemInv

(* Storing a group settles it; a store that fails exposes the batch. *)
LEMMA StoreKeeps ==
    ASSUME MemInv, NEW c \in Consolidators, StoreGroup(c) \/ StoreFails(c)
    PROVE  MemInv'
<1>1. PICK rest \in SUBSET drained[c] :
        /\ drained' = [drained EXCEPT ![c] = rest]
        /\ IdsOf(drained[c]) \subseteq stored' \cup exposed' \cup IdsOf(rest)
        /\ stored \subseteq stored' /\ exposed \subseteq exposed'
        /\ \/ running' = running
           \/ running' = [running EXCEPT ![c] = FALSE] /\ rest = {}
  <2>1. CASE StoreGroup(c)
    <3>1. PICK f \in drained[c] :
            LET group == {e \in drained[c] : e.type = f.type}
            IN /\ stored' = stored \cup IdsOf(group)
               /\ drained' = [drained EXCEPT ![c] = @ \ group]
          BY <2>1 DEF StoreGroup
    <3> DEFINE group == {e \in drained[c] : e.type = f.type}
    <3>2. IdsOf(drained[c]) \subseteq IdsOf(group) \cup IdsOf(drained[c] \ group)
          BY IdsFacts
    <3> WITNESS drained[c] \ group \in SUBSET drained[c]
    <3>3. drained' = [drained EXCEPT ![c] = drained[c] \ group] BY <3>1
    <3>4. stored' = stored \cup IdsOf(group) BY <3>1
    <3>5. UNCHANGED <<exposed, running>> BY <2>1 DEF StoreGroup
    <3> HIDE DEF group
    <3>6. QED BY <3>2, <3>3, <3>4, <3>5
  <2>2. CASE StoreFails(c)
    <3> WITNESS {} \in SUBSET drained[c]
    <3>1. QED BY <2>2 DEF StoreFails
  <2>3. QED BY <2>1, <2>2
<1>2. UNCHANGED <<ring, journal, ending, gap, unwritten, lastSeq, nextId,
                  evicted, leftOut>>
      BY DEF StoreGroup, StoreFails, fileVars
<1>3. running[c] BY DEF StoreGroup, StoreFails
<1>4. MemTypeOK /\ NothingForgotten BY DEF MemInv
<1>5. MemTypeOK' BY <1>1, <1>2, <1>4 DEF MemTypeOK
<1>6. /\ ending' = "line" => journal' # << >>
      /\ Len(ring') <= Capacity
      /\ InOrder(ring', lastSeq') /\ (gap' \/ InOrder(journal', lastSeq'))
      /\ Aligned'
      BY <1>2 DEF MemInv, Aligned
<1>7. /\ drained'[c] = rest
      /\ \A d \in Consolidators : d # c => /\ drained'[d] = drained[d]
                                           /\ running'[d] = running[d]
      /\ ~running'[c] => rest = {}
      BY <1>1, <1>3, <1>4 DEF MemTypeOK
<1>8. Settled \subseteq Settled' BY <1>1, <1>2 DEF Settled
<1>9. ASSUME NEW n \in IdsOf(ToSet(journal))
      PROVE  \/ n \in Settled' \cup IdsOf(ToSet(ring))
             \/ \E b \in Consolidators : n \in IdsOf(drained'[b])
  <2>1. CASE n \in Settled \cup IdsOf(ToSet(ring)) BY <1>8, <2>1
  <2>2. CASE n \notin Settled \cup IdsOf(ToSet(ring))
    <3>1. PICK b \in Consolidators : n \in IdsOf(drained[b])
          BY <1>4, <2>2 DEF NothingForgotten
    <3>2. CASE b = c BY <1>1, <1>7, <3>1, <3>2 DEF Settled
    <3>3. CASE b # c BY <1>7, <3>1, <3>3
    <3>4. QED BY <3>2, <3>3
  <2>3. QED BY <2>1, <2>2
<1>10. \A b \in Consolidators : IdsOf(drained'[b]) \subseteq IdsOf(drained[b])
       BY <1>1, <1>7, IdsFacts
<1>11. \A b \in Consolidators : running'[b] => running[b]
       BY <1>3, <1>7
<1>12. Recorded' = Recorded BY <1>2 DEF Recorded
<1>13. Recorded' \subseteq Settled' \cup IdsOf(ToSet(journal))
       BY <1>4, <1>8, <1>12 DEF NothingForgotten
<1>14. \A b \in Consolidators : ~running'[b] => drained'[b] = {}
       BY <1>4, <1>7 DEF NothingForgotten
<1>15. ASSUME NEW b \in Consolidators, NEW d \in Consolidators,
              b # d, running'[b], running'[d]
       PROVE  IdsOf(drained'[b]) \subseteq exposed'
  <2>1. IdsOf(drained[b]) \subseteq exposed
        BY <1>4, <1>11, <1>15 DEF NothingForgotten
  <2>2. QED BY <1>1, <1>10, <2>1
<1>16. NothingForgotten'
       BY <1>2, <1>9, <1>13, <1>14, <1>15 DEF NothingForgotten
<1>17. QED BY <1>5, <1>6, <1>16 DEF MemInv

(* An acknowledgement may compact: the batches of the consolidations that  *)
(* still run are exposed by the overlap, its own is stored.                *)
LEMMA MarkKeeps ==
    ASSUME MemInv, NEW c \in Consolidators, MarkConsolidated(c)
    PROVE  MemInv'
<1> DEFINE R == IdsOf(ToSet(ring))
           J == IdsOf(ToSet(journal))
<1>1. /\ running[c] /\ drained[c] = {}
      /\ Compact(ring)
      /\ running' = [running EXCEPT ![c] = FALSE]
      /\ UNCHANGED <<ring, lastSeq, drained, nextId, evicted, stored, exposed,
                     leftOut>>
      BY DEF MarkConsolidated
<1>2. MemTypeOK /\ NothingForgotten /\ InOrder(ring, lastSeq) /\ Len(ring) <= Capacity
      BY DEF MemInv
<1>3. /\ journal' \in Seq(Events) /\ ending' \in {"newline", "part", "line"}
      /\ gap' \in BOOLEAN
      /\ ending' = "line" => journal' # << >>
      /\ gap' \/ InOrder(journal', lastSeq')
      /\ J' = J \/ J' = R
      /\ unwritten \subseteq unwritten' \cup J' /\ unwritten' \subseteq unwritten
      /\ R \subseteq unwritten' \cup J'
      /\ Aligned'
      BY <1>1, CompactFacts
<1>4. MemTypeOK' BY <1>1, <1>2, <1>3 DEF MemTypeOK
<1>5. R' = R BY <1>1
<1>6. Settled \subseteq Settled' \cup R
  <2>1. unwritten \subseteq unwritten' \cup R
        BY <1>1 DEF Compact, fileVars
  <2> HIDE DEF R, J
  <2>2. QED BY <1>1, <2>1 DEF Settled
<1>7. J \subseteq Settled \cup R
  <2> SUFFICES ASSUME NEW n \in J, n \notin Settled \cup R PROVE FALSE
      OBVIOUS
  <2>1. PICK b \in Consolidators : n \in IdsOf(drained[b])
        BY <1>2 DEF NothingForgotten
  <2>2. b # c /\ running[b]
        BY <1>1, <1>2, <2>1, IdsFacts DEF NothingForgotten
  <2>3. n \in exposed BY <1>1, <1>2, <2>1, <2>2 DEF NothingForgotten
  <2>4. QED BY <2>3 DEF Settled
<1>8. R \subseteq Settled' \cup J' BY <1>3 DEF Settled
<1>9. Recorded' \subseteq Settled' \cup J'
  <2>1. Recorded' = Recorded BY <1>1 DEF Recorded
  <2>2. Recorded \subseteq Settled \cup J BY <1>2 DEF NothingForgotten
  <2> HIDE DEF R, J
  <2>3. QED BY <1>6, <1>7, <1>8, <2>1, <2>2
<1>10. J' \subseteq Settled' \cup R'
  <2> HIDE DEF R, J
  <2>1. QED BY <1>3, <1>5, <1>6, <1>7
<1>11. \A b \in Consolidators : /\ running'[b] => running[b]
                                /\ ~running'[b] => b = c \/ ~running[b]
       BY <1>1, <1>2 DEF MemTypeOK
<1>12. NothingForgotten'
       BY <1>1, <1>2, <1>9, <1>10, <1>11 DEF NothingForgotten
<1>13. QED BY <1>1, <1>2, <1>4, <1>3, <1>12 DEF MemInv

(* A restart, after a write cut short or not: the file keeps what it held  *)
(* but for a line that the write spoiled.                                  *)
LEMMA DeathFacts ==
    ASSUME MemInv, DiesWriting
    PROVE  /\ journal' \in Seq(Events) /\ ending' \in {"newline", "part", "line"}
           /\ ending' = "line" => journal' # << >>
           /\ gap \/ InOrder(journal', lastSeq + 1)
           /\ nextId' \in Nat \ {0}
           /\ unwritten \subseteq unwritten'
           /\ IdsOf(ToSet(journal)) \subseteq IdsOf(ToSet(journal')) \cup unwritten'
           /\ Recorded' \subseteq Recorded \cup IdsOf(ToSet(journal')) \cup unwritten'
<1>1. /\ journal \in Seq(Events) /\ ending \in {"newline", "part", "line"}
      /\ ending = "line" => journal # << >>
      /\ lastSeq \in Nat /\ nextId \in Nat \ {0}
      /\ gap \/ InOrder(journal, lastSeq)
      BY DEF MemInv, MemTypeOK
<1>2. CASE UNCHANGED <<journal, ending, unwritten, nextId>>
  <2>1. \A i \in DOMAIN journal : journal[i].seq \in Nat BY <1>1, SeqIsPositive
  <2>2. gap \/ InOrder(journal, lastSeq + 1) BY <1>1, <2>1 DEF InOrder
  <2>3. QED BY <1>1, <1>2, <2>2 DEF Recorded
<1>3. CASE /\ \E ty \in EventTypes : AppendJournal(Event(ty))
           /\ nextId' = nextId + 1
  <2>1. PICK ty \in EventTypes : AppendJournal(Event(ty)) BY <1>3
  <2>2. Recorded' = Recorded \cup {nextId} /\ nextId' \in Nat \ {0}
        BY <1>1, <1>3 DEF Recorded
  <2>3. QED BY <2>1, <2>2, AppendFacts
<1>4. QED BY <1>2, <1>3 DEF DiesWriting

(* A restart reads the journal back, all of it or as far as it can be      *)
(* read; what does not come into the ring is left out.                     *)
LEMMA RestartKeeps ==
    ASSUME MemInv, CrashAndRestart
    PROVE  MemInv'
<1> DEFINE R == IdsOf(ToSet(ring))
           J == IdsOf(ToSet(journal))
<1>1. MemTypeOK /\ NothingForgotten BY DEF MemInv
<1>2. /\ journal' \in Seq(Events) /\ ending' \in {"newline", "part", "line"}
      /\ ending' = "line" => journal' # << >>
      /\ gap \/ InOrder(journal', lastSeq + 1)
      /\ nextId' \in Nat \ {0}
      /\ unwritten \subseteq unwritten'
      /\ J \subseteq J' \cup unwritten'
      /\ Recorded' \subseteq Recorded \cup J' \cup unwritten'
      BY DeathFacts DEF CrashAndRestart
<1>3. /\ running' = [c \in Consolidators |-> FALSE]
      /\ drained' = [c \in Consolidators |-> {}]
      /\ leftOut' = leftOut \cup (J' \ R')
      /\ UNCHANGED <<evicted, stored, exposed>>
      BY DEF CrashAndRestart
<1>4. PICK n \in 0..Len(journal') :
        /\ gap' = (gap \/ n < Len(journal'))
        /\ \E r \in Replays(SubSeq(journal', 1, n)) :
             ring' = Newest(r, Capacity) /\ lastSeq' = LastSeqOf(r)
      BY DEF CrashAndRestart
<1>5. PICK r \in Replays(SubSeq(journal', 1, n)) :
        ring' = Newest(r, Capacity) /\ lastSeq' = LastSeqOf(r)
      BY <1>4
<1> DEFINE p == SubSeq(journal', 1, n)
           d == Len(r) - Len(ring')
<1>6. /\ n \in Nat /\ Len(journal') \in Nat /\ n <= Len(journal')
      /\ DOMAIN journal' = 1..Len(journal')
      BY <1>2
<1>7. p \in Seq(Events) /\ Len(p) = n /\ \A i \in 1..n : p[i] = journal'[i]
      BY <1>2, <1>6
<1>8. r \in Replays(p) BY <1>5
<1> HIDE DEF p
<1>9. ToSet(p) \subseteq ToSet(journal')
  <2>1. \A i \in DOMAIN p : i \in DOMAIN journal' /\ p[i] = journal'[i]
        BY <1>6, <1>7
  <2>2. QED BY <2>1 DEF ToSet
<1>10. /\ r \in Seq(Events) /\ ToSet(r) \subseteq ToSet(journal')
       /\ lastSeq' \in Nat /\ InOrder(r, lastSeq')
       /\ NewerLines(p) = DOMAIN p => r = p
       BY <1>5, <1>7, <1>8, <1>9, ReplayIsOrdered
<1>11. Capacity \in Nat BY CapacityAssumption
<1>12. /\ ring' \in Seq(Events) /\ Len(ring') <= Capacity /\ Len(ring') <= Len(r)
       /\ \A i \in DOMAIN ring' : i + d \in DOMAIN r /\ ring'[i] = r[i + d]
       /\ InOrder(ring', lastSeq')
       BY <1>5, <1>10, <1>11, NewestIsSuffix
<1>13. ASSUME ~gap' PROVE r = journal'
  <2>1. ~gap BY <1>4, <1>13, Zenon
  <2>2. n = Len(journal')
    <3>1. ~(n < Len(journal')) BY <1>4, <1>13, Zenon
    <3> DEFINE m == Len(journal')
    <3>2. n \in Nat /\ m \in Nat /\ n <= m /\ ~(n < m) BY <1>6, <3>1
    <3> HIDE DEF m
    <3>3. n = m BY <3>2
    <3>4. QED BY <3>3 DEF m
  <2>3. InOrder(journal', lastSeq + 1) BY <1>2, <2>1, Zenon
  <2>4. p = journal' BY <1>2, <1>7, <2>2
  <2>5. NewerLines(p) = DOMAIN p BY <1>7, <2>3, <2>4, OrderedIsNewer
  <2>6. QED BY <1>10, <2>4, <2>5
<1>14. gap' \/ InOrder(journal', lastSeq') BY <1>10, <1>13
<1>15. MemTypeOK'
  <2>1. gap' \in BOOLEAN BY <1>1, <1>4 DEF MemTypeOK
  <2>2. QED BY <1>2, <1>3, <1>10, <1>12, <2>1 DEF MemTypeOK
<1>16. Aligned'
  <2> SUFFICES ASSUME NEW i \in DOMAIN ring'
               PROVE  \E j \in DOMAIN journal' :
                        /\ journal'[j] = ring'[i]
                        /\ gap' \/ Len(journal') - j <= Len(ring') - i
      BY DEF Aligned
  <2>1. i + d \in DOMAIN r /\ ring'[i] = r[i + d] BY <1>12
  <2>2. CASE gap'
    <3>1. ring'[i] \in ToSet(journal') BY <1>10, <2>1 DEF ToSet
    <3>2. QED BY <2>2, <3>1 DEF ToSet
  <2>3. CASE ~gap'
    <3>1. r = journal' BY <1>13, <2>3
    <3>2. i \in Nat /\ Len(r) \in Nat /\ Len(ring') \in Nat BY <1>10, <1>12
    <3>3. Len(r) - (i + d) <= Len(ring') - i BY <3>2
    <3>4. QED BY <2>1, <3>1, <3>3
  <2>4. QED BY <2>2, <2>3
<1>17. NothingForgotten'
  <2>1. Recorded \subseteq Settled \cup J BY <1>1 DEF NothingForgotten
  <2>2. \A c \in Consolidators : ~running'[c] /\ drained'[c] = {} BY <1>3
  <2>3. J' \subseteq leftOut' \cup R' BY <1>3
  <2>4. Settled \subseteq Settled' /\ leftOut' \subseteq Settled'
        /\ unwritten' \subseteq Settled'
        BY <1>2, <1>3 DEF Settled
  <2> HIDE DEF R, J
  <2>5. Recorded' \subseteq Settled' \cup J' BY <1>2, <2>1, <2>4
  <2>6. \A k \in J' : k \in Settled' \cup R' BY <2>3, <2>4
  <2>7. QED BY <2>2, <2>5, <2>6 DEF NothingForgotten, R, J
<1>18. QED BY <1>2, <1>12, <1>14, <1>15, <1>16, <1>17 DEF MemInv

(* The invariant of the episodic memory. *)
THEOREM MemoryInvariant == MemSpec => []MemInv
<1>1. MemInit => MemInv
  <2> SUFFICES ASSUME MemInit PROVE MemInv
      OBVIOUS
  <2>1. MemTypeOK
    <3>1. ending = "newline" /\ gap = FALSE BY DEF MemInit
    <3>2. ending \in {"newline", "part", "line"} /\ gap \in BOOLEAN
          BY <3>1, Zenon
    <3>3. QED BY <3>2 DEF MemInit, MemTypeOK
  <2>2. /\ InOrder(ring, lastSeq) /\ InOrder(journal, lastSeq) /\ Aligned
        /\ Len(ring) <= Capacity /\ ending # "line"
        BY CapacityAssumption DEF MemInit, InOrder, Aligned
  <2>3. IdsOf(ToSet(ring)) = {} /\ IdsOf(ToSet(journal)) = {} /\ Recorded = {}
        BY IdsFacts DEF MemInit, Recorded
  <2>4. NothingForgotten BY <2>3 DEF NothingForgotten, MemInit
  <2>5. QED BY <2>1, <2>2, <2>4 DEF MemInv
<1>2. MemInv /\ [MemNext]_memVars => MemInv'
  <2> SUFFICES ASSUME MemInv, [MemNext]_memVars PROVE MemInv'
      OBVIOUS
  <2>1. CASE UNCHANGED memVars
    <3>1. MemTypeOK' /\ Aligned' /\ NothingForgotten'
          BY <2>1 DEF memVars, fileVars, MemInv, MemTypeOK, Aligned,
                      NothingForgotten, Settled, Recorded
    <3>2. QED BY <2>1, <3>1 DEF memVars, fileVars, MemInv
  <2>2. QED BY <2>1, RecordKeeps, DrainKeeps, StoreKeeps, MarkKeeps,
               RestartKeeps DEF MemNext
<1>3. QED BY <1>1, <1>2, PTL DEF MemSpec

(* An event still in the ring has its copy among the journal's newest      *)
(* lines unless a torn line took it, or anywhere in it after a replay that *)
(* was cut short, for any capacity, consolidators and faults.              *)
THEOREM RingKeepsItsJournal == MemSpec => []RingIsJournaled
<1>1. MemInv => RingIsJournaled
  <2> SUFFICES ASSUME MemInv, NEW x \in IdsOf(ToSet(ring)), x \notin unwritten
               PROVE  x \in IdsOf(ToSet(IF gap THEN journal
                                               ELSE Newest(journal, Capacity)))
      BY DEF RingIsJournaled
  <2>1. /\ ring \in Seq(Events) /\ journal \in Seq(Events) /\ Len(ring) <= Capacity
        /\ Capacity \in Nat /\ Aligned
        BY CapacityAssumption DEF MemInv, MemTypeOK
  <2>2. PICK i \in DOMAIN ring : x = ring[i].id BY IdAt
  <2>3. PICK j \in DOMAIN journal :
          /\ journal[j] = ring[i]
          /\ gap \/ Len(journal) - j <= Len(ring) - i
        BY <2>1, <2>2 DEF Aligned
  <2>4. CASE gap BY <2>2, <2>3, <2>4, IdAt
  <2>5. CASE ~gap
    <3> DEFINE t == Newest(journal, Capacity)
               k == j - (Len(journal) - Len(t))
    <3>1. Len(journal) - j < Capacity
      <4>1. i \in 1..Len(ring) /\ Len(ring) \in Nat /\ j \in Nat /\ Len(journal) \in Nat
            BY <2>1
      <4>2. Len(journal) - j <= Len(ring) - i BY <2>3, <2>5
      <4>3. QED BY <2>1, <4>1, <4>2
    <3>2. k \in DOMAIN t /\ t[k] = journal[j] BY <2>1, <3>1, NewestIsSuffix
    <3> HIDE DEF k, t
    <3>3. t[k].id \in IdsOf(ToSet(t)) BY <3>2, IdAt
    <3>4. QED BY <2>2, <2>3, <2>5, <3>2, <3>3 DEF t
  <2>6. QED BY <2>4, <2>5
<1>2. QED BY <1>1, MemoryInvariant, PTL

(* A crash at any point, a write cut short included, loses only events     *)
(* whose line was not written or was spoiled, whose consolidation failed   *)
(* or overlapped another one, or that an earlier replay left out.          *)
THEOREM CrashLosesOnlyTheExposed == MemSpec => []OnlyExposedEventsAreLost
<1>1. MemInv => OnlyExposedEventsAreLost
      BY DEF MemInv, NothingForgotten, Settled, OnlyExposedEventsAreLost, Lost
<1>2. QED BY <1>1, MemoryInvariant, PTL

(* The replay's test for newer lines drops no line that parses, whatever   *)
(* was appended, torn, compacted and replayed whole before, and although   *)
(* the counter starts again below numbers already used.                    *)
THEOREM ReplayIsComplete == MemSpec => []ReplayDropsNothing
<1>1. MemInv => ReplayDropsNothing
      BY OrderedIsNewer DEF MemInv, MemTypeOK, ReplayDropsNothing
<1>2. QED BY <1>1, MemoryInvariant, PTL
=============================================================================
