------------------------------- MODULE MCMesh -------------------------------
(***************************************************************************)
(* Two clusters, of two cpu and of one, the latter declared in the sheet;  *)
(* two deployments, of which one needs two cpu a replica.                  *)
(***************************************************************************)
EXTENDS Mesh, TLC

CONSTANTS A, B, web, db

MCCpu == web :> 1 @@ db :> 2
MCCapacity == A :> 2 @@ B :> 1
MCLocal == web :> 0 @@ db :> 0
MCBefore == {<<A, B>>}
=============================================================================
