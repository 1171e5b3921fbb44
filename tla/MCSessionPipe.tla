--------------------------- MODULE MCSessionPipe ---------------------------
(* Instances of SessionPipe for TLC. *)
EXTENDS SessionPipe
=============================================================================
