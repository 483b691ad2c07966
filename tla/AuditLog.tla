------------------------------ MODULE AuditLog ------------------------------
(***************************************************************************)
(* What an audit log promises (audit.py, AuditChain's docstring): lines    *)
(* are only ever appended, and as long as no write was interrupted they    *)
(* form one hash chain.  A hash is taken to be injective, so the identity  *)
(* of an entry stands for its hash.                                        *)
(***************************************************************************)
EXTENDS Naturals, Sequences

VARIABLES log,     \* the terminated lines of the file
          damaged  \* a write was interrupted

logVars == <<log, damaged>>

Genesis == 0

(* A line that does not parse: a record, like every line, of no entry. *)
Malformed == [seq |-> 0, prev |-> 0, id |-> 0]

Entries == [seq : Nat \ {0}, prev : Nat, id : Nat \ {0}]
Lines == Entries \cup {Malformed}

HashBefore(lines, i) == IF i = 1 THEN Genesis ELSE lines[i - 1].id

(* verify_audit_file: no line malformed, out of sequence or unlinked.  Its *)
(* other answers are left out: a file that is not there yet, which         *)
(* can_audit tells apart and takes for an empty chain, is the empty log    *)
(* here, and a file that cannot be opened is not modelled.                 *)
Verify(lines) ==
    \A i \in 1..Len(lines) :
        /\ lines[i] # Malformed
        /\ lines[i].seq = i
        /\ lines[i].prev = HashBefore(lines, i)

LogInit == log = << >> /\ damaged = FALSE

Extends(new, old) == /\ Len(new) = Len(old) + 1
                     /\ new = Append(old, new[Len(new)])

Record == /\ ~damaged /\ ~damaged'
          /\ Extends(log', log)
          /\ log'[Len(log')] \in Entries
          /\ log'[Len(log')].seq = Len(log')
          /\ log'[Len(log')].prev = HashBefore(log', Len(log'))

Damage == /\ damaged'
          /\ \/ log' = log
             \/ Extends(log', log) /\ log'[Len(log')] \in Lines

LogNext == Record \/ Damage

LogSpec == LogInit /\ [][LogNext]_logVars
=============================================================================
