------------------------- MODULE ChangeRegistryGate -------------------------
(***************************************************************************)
(* The change-control registry implements ChangeGate: the gate is read off *)
(* the durable row, so no process's memory can open it, and a crash, a     *)
(* refused save or an unanswered one is either a gate step or no step.     *)
(***************************************************************************)
EXTENDS ChangeRegistry

Reviewed(r) == Durable.requests[r] # None /\ Durable.requests[r].canonical

DurableApprovals ==
    [r \in Request |->
        IF Reviewed(r)
        THEN {Durable.requests[r].approvals[i] : i \in DOMAIN Durable.requests[r].approvals}
        ELSE {}]
DurablyOpen == [r \in Request |-> Reviewed(r) /\ Durable.requests[r].state = "authorized"]
DurableBound ==
    [r \in Request |->
        IF Reviewed(r) /\ Durable.rollouts[r] # None THEN Durable.rollouts[r].limit ELSE 0]

EffectiveLimits == {IF spec.limit = 0 THEN 1 ELSE spec.limit : spec \in RolloutSpecs}

Gate == INSTANCE ChangeGate WITH
            approvals <- DurableApprovals, open <- DurablyOpen, bound <- DurableBound,
            used <- Durable.attempts, AttemptLimits <- EffectiveLimits

\* The registry, with its saves, restarts and competing processes, behaves as
\* one gate per request: quorum before opening, attempts only while open.
ImplementsGate == Gate!Spec
=============================================================================
