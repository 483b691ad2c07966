--------------------------- MODULE ApprovalBroker ---------------------------
(***************************************************************************)
(* The ApprovalBroker of policy.py: each request has a waiter (the thread  *)
(* in request_approval), a worker (the thread in _ask_operator) and any    *)
(* number of console calls of approve and deny, which all meet at the      *)
(* pending record.  Every lock region is one action; the wait on the event *)
(* and the removal of the record after it are two.                         *)
(***************************************************************************)
EXTENDS Naturals

CONSTANT Requests

VARIABLES
    attached,  \* an operator channel has been attached
    pending,   \* per request: record["approved"], while in _pending
    waiter,    \* per request: progress and result of request_approval
    worker,    \* per request: progress of _ask_operator
    first      \* history: per request, the first resolution

vars == <<attached, pending, waiter, worker, first>>

Resolutions == {"yes", "no"}

Verdict(v) == IF v THEN "yes" ELSE "no"

(* What request_approval returned: the operator's answer, the default      *)
(* denial at the time-to-live, or the denial without a channel.            *)
Returned == {"approved", "denied", "timedOut", "noChannel"}

TypeOK ==
    /\ attached \in BOOLEAN
    /\ pending \in [Requests -> {"absent", "open"} \cup Resolutions]
    /\ waiter \in [Requests -> {"new", "waiting", "woken", "late"} \cup Returned]
    /\ worker \in [Requests -> {"none", "start", "asking", "done"}]
    /\ first \in [Requests -> {"none"} \cup Resolutions]

Init ==
    /\ attached = FALSE
    /\ pending = [r \in Requests |-> "absent"]
    /\ waiter = [r \in Requests |-> "new"]
    /\ worker = [r \in Requests |-> "none"]
    /\ first = [r \in Requests |-> "none"]

-----------------------------------------------------------------------------
AttachOperator ==
    /\ ~attached
    /\ attached' = TRUE
    /\ UNCHANGED <<pending, waiter, worker, first>>

RequestApproval(r) ==
    /\ waiter[r] = "new"
    /\ \/ /\ ~attached
          /\ waiter' = [waiter EXCEPT ![r] = "noChannel"]
          /\ UNCHANGED <<pending, worker>>
       \/ /\ attached
          /\ waiter' = [waiter EXCEPT ![r] = "waiting"]
          /\ pending' = [pending EXCEPT ![r] = "open"]
          /\ worker' = [worker EXCEPT ![r] = "start"]
    /\ UNCHANGED <<attached, first>>

(* Faulty: a late answer recreates the record, or overwrites its verdict.  *)
ResolveAnyway(r, v) ==
    /\ pending' = [pending EXCEPT ![r] = Verdict(v)]
    /\ first' = [first EXCEPT ![r] = IF @ = "none" THEN Verdict(v) ELSE @]

ResolveAgain(r, v) ==
    IF pending[r] # "absent"
    THEN /\ pending' = [pending EXCEPT ![r] = Verdict(v)]
         /\ first' = [first EXCEPT ![r] = IF @ = "none" THEN Verdict(v) ELSE @]
    ELSE UNCHANGED <<pending, first>>

(* The first resolution wins: a record that is gone or already resolved is *)
(* left alone.                                                             *)
ResolveIfOpen(r, v) ==
    IF pending[r] = "open"
    THEN /\ pending' = [pending EXCEPT ![r] = Verdict(v)]
         /\ first' = [first EXCEPT ![r] = Verdict(v)]
    ELSE UNCHANGED <<pending, first>>

(* approve and deny of the operator console. *)
Resolve(r, v) ==
    /\ pending[r] = "open"
    /\ ResolveIfOpen(r, v)
    /\ UNCHANGED <<attached, waiter, worker>>

AskOperator(r) ==
    /\ worker[r] = "start"
    /\ worker' = [worker EXCEPT ![r] =
                    IF pending[r] = "absent" THEN "done" ELSE "asking"]
    /\ UNCHANGED <<attached, pending, waiter, first>>

(* The operator callback returns (a failing one counts as no), however     *)
(* late.                                                                   *)
OperatorAnswers(r, v) ==
    /\ worker[r] = "asking"
    /\ worker' = [worker EXCEPT ![r] = "done"]
    /\ ResolveIfOpen(r, v)
    /\ UNCHANGED <<attached, waiter>>

(* event.wait(ttl): the event is set together with the resolution. *)
Wake(r) ==
    /\ waiter[r] = "waiting"
    /\ pending[r] \in Resolutions
    /\ waiter' = [waiter EXCEPT ![r] = "woken"]
    /\ UNCHANGED <<attached, pending, worker, first>>

(* Faulty: the wait is bounded by the operator channel's return only. *)
TimeOutAfterAnswer(r) ==
    /\ waiter[r] = "waiting"
    /\ pending[r] = "open" /\ worker[r] = "done"
    /\ waiter' = [waiter EXCEPT ![r] = "late"]
    /\ UNCHANGED <<attached, pending, worker, first>>

TimeOut(r) ==
    /\ waiter[r] = "waiting"
    /\ pending[r] = "open"
    /\ waiter' = [waiter EXCEPT ![r] = "late"]
    /\ UNCHANGED <<attached, pending, worker, first>>

(* The record is removed and the verdict returned. *)
ReturnVerdict(r) ==
    /\ waiter[r] \in {"woken", "late"}
    /\ waiter' = [waiter EXCEPT ![r] =
                    CASE waiter[r] = "late"  -> "timedOut"
                      [] pending[r] = "yes"  -> "approved"
                      [] OTHER               -> "denied"]
    /\ pending' = [pending EXCEPT ![r] = "absent"]
    /\ UNCHANGED <<attached, worker, first>>

Wait(r) == Wake(r) \/ TimeOut(r) \/ ReturnVerdict(r)

Next ==
    \/ AttachOperator
    \/ \E r \in Requests :
         \/ RequestApproval(r)
         \/ AskOperator(r)
         \/ Wait(r)
         \/ \E v \in BOOLEAN : Resolve(r, v) \/ OperatorAnswers(r, v)

Spec == Init /\ [][Next]_vars

(* Only the waiter is fair: the operator may never answer and the console  *)
(* may never be used; the time-to-live still passes.                       *)
WaitersAreFair == \A r \in Requests : WF_vars(Wait(r))

-----------------------------------------------------------------------------
(* The verdict is the first resolution: a late answer of the human channel *)
(* never overturns the console's, nor the other way round, and an approval *)
(* is never returned without one.                                          *)
FirstResolutionWins ==
    \A r \in Requests :
        /\ waiter[r] = "approved" => first[r] = "yes"
        /\ waiter[r] = "denied" => first[r] = "no"

(* Fail closed: once request_approval has returned, no answer that arrives *)
(* later finds a record to resolve, so list_pending offers no dead request.*)
NoRecordOutlivesItsWaiter ==
    \A r \in Requests : waiter[r] \in Returned => pending[r] = "absent"

(* Every request returns within its time-to-live, whatever the operator    *)
(* does.                                                                   *)
RequestReturns ==
    \A r \in Requests : waiter[r] = "waiting" ~> waiter[r] \in Returned
=============================================================================
