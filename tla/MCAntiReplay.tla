---------------------------- MODULE MCAntiReplay ---------------------------
(* Instances of AntiReplay for TLC. *)
EXTENDS AntiReplay, TLC

\* Timestamps of the second the clock starts in, and of the one before.
NowAndBefore == {0, -1}

Symm == Permutations(Conns) \cup Permutations(Hellos)
=============================================================================
