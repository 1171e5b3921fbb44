--------------------------- MODULE MCConfigStore ---------------------------
(* Instances of ConfigStore for TLC. *)
EXTENDS ConfigStore, TLC

Symm == Permutations(Reqs) \cup Permutations(Names) \cup Permutations(Settings)
=============================================================================
