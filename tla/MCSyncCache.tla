---------------------------- MODULE MCSyncCache ----------------------------
(***************************************************************************)
(* Constants of the model-checking runs of SyncCache.                      *)
(***************************************************************************)
EXTENDS SyncCache, TLC

CONSTANTS e1, e2, f1, f2

OneEach == (e1 :> f1) @@ (e2 :> f2)
=============================================================================
