-------------------------- MODULE MCChangeRegistry --------------------------
(***************************************************************************)
(* Constants of the model-checking runs of ChangeRegistry.                 *)
(***************************************************************************)
EXTENDS ChangeRegistryGate, TLC

\* Omitted bounds, and one lease window that opens late and closes early.
OpenSpec == [from |-> 0, until |-> 0, limit |-> 2, concurrency |-> 0, windows |-> {}]
NarrowSpec == [from |-> 2, until |-> 5, limit |-> 0, concurrency |-> 2, windows |-> {2, 4, 5}]

MCRequired == [r \in Request |-> IF r \in LegacyRequests THEN 1 ELSE 2]
MCRolloutSpecs == {OpenSpec, NarrowSpec}
MCSpecs == {OpenSpec}
Symmetry == Permutations(Endpoint) \cup Permutations(Operator)
=============================================================================
