--------------------------- MODULE MCMiddleProxy ---------------------------
(* MiddleProxy with the bounds of its configurations. *)
EXTENDS MiddleProxy
=============================================================================
