--------------------------- MODULE MCSheetsServer ---------------------------
(***************************************************************************)
(* Two deployments, two operators and one or two kubelets.                 *)
(***************************************************************************)
EXTENDS SheetsServer
=============================================================================
