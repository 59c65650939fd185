----------------------------- MODULE MCDeltaSync -----------------------------
(***************************************************************************)
(* Small instances of DeltaSync for TLC.                                   *)
(***************************************************************************)
EXTENDS DeltaSync, TLC

RowsAndPulls == Permutations(Rows) \cup Permutations(Pulls)
=============================================================================
