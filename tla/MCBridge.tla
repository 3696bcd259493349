----------------------------- MODULE MCBridge -----------------------------
(***************************************************************************)
(* Two clusters.  For migrate, a deployment web of two replicas and one,   *)
(* api, scaled to none, both at home on the local side; for sync, web at   *)
(* home on the local side and api on the peer.                             *)
(***************************************************************************)
EXTENDS Bridge, TLC

OneHome == [s \in Side |-> IF s = "local" THEN "web" :> 2 @@ "api" :> 0 ELSE <<>>]
TwoHomes == [s \in Side |-> IF s = "local" THEN "web" :> 1 ELSE "api" :> 1]
=============================================================================
