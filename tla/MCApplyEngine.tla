--------------------------- MODULE MCApplyEngine ---------------------------
(***************************************************************************)
(* Constants of the model-checking runs of ApplyEngine.                    *)
(***************************************************************************)
EXTENDS ApplyEngine, TLC

\* A subscription with a token (1) and a file (3), both after a unit (2), and a
\* network profile (4) that takes effect later.
MCDependsOn == 1 :> {2} @@ 2 :> {} @@ 3 :> {2} @@ 4 :> {}
MCActivates == 1 :> {} @@ 2 :> {0, 4} @@ 3 :> {} @@ 4 :> {}

\* The second release changes the file and the unit.
MCDesired == <<[x \in Address |-> 1], 1 :> 1 @@ 2 :> 2 @@ 3 :> 2 @@ 4 :> 1>>

\* Two faults, or a fault and a change from outside.
MCDisturbances == {[faults |-> 2, drifts |-> 0], [faults |-> 1, drifts |-> 1]}
=============================================================================
