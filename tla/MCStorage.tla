----------------------------- MODULE MCStorage -----------------------------
(***************************************************************************)
(* Storage for TLC: an apply of a gateway and a route, a heartbeat, which  *)
(* rewrites the status columns of both tabs, and a read.                   *)
(***************************************************************************)
EXTENDS Storage

Requests == {"apply", "more", "beat", "read"}
Touched == [r \in Requests |-> CASE r = "apply" -> {"Gateways"} [] r = "more" -> {"Routes"}
                                 [] r = "beat" -> {"Gateways", "Routes"} [] OTHER -> {}]
Rest == [r \in Requests |-> IF r = "apply" THEN "more" ELSE "none"]
=============================================================================
