----------------------------- MODULE ChangeGate -----------------------------
(***************************************************************************)
(* What change control promises, without processes, saves or crashes: a    *)
(* gate per change request.  It opens only when as many distinct operators *)
(* as the threshold asks have approved, it may be shut and reopened, and   *)
(* while it is open each endpoint gets a bounded number of attempts.       *)
(***************************************************************************)
EXTENDS Naturals, FiniteSets

CONSTANTS Request, Operator, Endpoint, Required, AttemptLimits

VARIABLES
    approvals,   \* who approved each request
    open,        \* whether the request's gate is open
    bound,       \* attempts each endpoint may make; 0 until the gate first opens
    used         \* attempts each endpoint has made

vars == <<approvals, open, bound, used>>

Init ==
    /\ approvals = [r \in Request |-> {}]
    /\ open = [r \in Request |-> FALSE]
    /\ bound = [r \in Request |-> 0]
    /\ used = [r \in Request |-> [e \in Endpoint |-> 0]]

Approve(r, o) ==
    /\ o \notin approvals[r]
    /\ approvals' = [approvals EXCEPT ![r] = @ \cup {o}]
    /\ Cardinality(approvals[r] \cup {o}) < Required[r]
    /\ UNCHANGED <<open, bound, used>>

OpenWithQuorum(r, o, limit) ==
    /\ o \notin approvals[r]
    /\ bound[r] = 0
    /\ Cardinality(approvals[r] \cup {o}) >= Required[r]
    /\ approvals' = [approvals EXCEPT ![r] = @ \cup {o}]
    /\ open' = [open EXCEPT ![r] = TRUE]
    /\ bound' = [bound EXCEPT ![r] = limit]
    /\ UNCHANGED used

Shut(r) ==
    /\ open' = [open EXCEPT ![r] = FALSE]
    /\ UNCHANGED <<approvals, bound, used>>

Reopen(r) ==
    /\ bound[r] > 0
    /\ open' = [open EXCEPT ![r] = TRUE]
    /\ UNCHANGED <<approvals, bound, used>>

Attempt(r, e) ==
    /\ open[r]
    /\ used[r][e] < bound[r]
    /\ used' = [used EXCEPT ![r][e] = @ + 1]
    /\ UNCHANGED <<approvals, open, bound>>

Next ==
    \E r \in Request :
        \/ \E o \in Operator : Approve(r, o)
        \/ \E o \in Operator, limit \in AttemptLimits : OpenWithQuorum(r, o, limit)
        \/ Shut(r)
        \/ Reopen(r)
        \/ \E e \in Endpoint : Attempt(r, e)

Spec == Init /\ [][Next]_vars
=============================================================================
