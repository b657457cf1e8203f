------------------------ MODULE MCNetworkTransaction ------------------------
(***************************************************************************)
(* Constants of the model-checking runs of NetworkTransaction.             *)
(***************************************************************************)
EXTENDS NetworkTransaction

Allow(n, f, p, m) == [transactions |-> n, faults |-> f, prompt |-> p, manager |-> m]

\* One transaction whose operations take any time and meet many faults, one that
\* NetworkManager guards with a timer of its own, and two prompt ones in turn.
MCScenarios == {Allow(1, 4, FALSE, FALSE), Allow(1, 3, FALSE, TRUE), Allow(2, 2, TRUE, FALSE)}
MCUndisturbed == {Allow(1, 0, FALSE, FALSE)}
=============================================================================
