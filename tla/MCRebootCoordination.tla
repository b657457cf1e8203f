------------------------ MODULE MCRebootCoordination ------------------------
(***************************************************************************)
(* Constants of the model-checking runs of RebootCoordination.             *)
(***************************************************************************)
EXTENDS RebootCoordination

CONSTANTS g1, g2

Plain(g) == [generation |-> g, onlyIfRequired |-> FALSE, delay |-> 0, deadline |-> 0]
Guarded(g) == [generation |-> g, onlyIfRequired |-> TRUE, delay |-> 1, deadline |-> 4]

OneThenAnother == {{Plain(g1)}, {Guarded(g2)}}
=============================================================================
