--------------------------- MODULE MCConnHandler ---------------------------
(* ConnHandler for TLC; Handler.cfg and FallbackStream.cfg give the instances. *)
EXTENDS ConnHandler
=============================================================================
