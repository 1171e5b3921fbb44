---------------------------- MODULE MCConnSlots ----------------------------
(* Instances of ConnSlots for TLC. *)
EXTENDS ConnSlots, TLC

Symm == Permutations(Conns)
=============================================================================
