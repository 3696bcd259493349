------------------------------- MODULE MCWire -------------------------------
(***************************************************************************)
(* Instances of the relay pair for TLC: interchangeable connections.       *)
(***************************************************************************)
EXTENDS Wire, TLC

Connections == Permutations(Conn)
=============================================================================
