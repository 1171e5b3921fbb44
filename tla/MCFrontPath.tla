---------------------------- MODULE MCFrontPath ----------------------------
(* FrontPath for TLC.  The limits of record sizes keep the order they have in *)
(* the code: default minimum < initial chunk < default maximum < record.      *)
EXTENDS FrontPath

\* Limits that are absent, in range, crossed, and beyond a record.
SomePolicies ==
    { [min |-> 0, max |-> 0, drs |-> TRUE, split |-> TRUE],
      [min |-> 3, max |-> 2, drs |-> TRUE, split |-> FALSE],
      [min |-> 6, max |-> 6, drs |-> FALSE, split |-> FALSE],
      [min |-> 2, max |-> 6, drs |-> FALSE, split |-> TRUE],
      [min |-> -1, max |-> 6, drs |-> TRUE, split |-> FALSE] }
=============================================================================
