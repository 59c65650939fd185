---------------------------- MODULE MCPhotoQueue ----------------------------
(***************************************************************************)
(* Small instances of PhotoQueue for TLC: every photo is of one target, so *)
(* that retakes happen.  No symmetry: the runs check temporal properties.  *)
(***************************************************************************)
EXTENDS PhotoQueue

OneTarget == [p \in 1..N |-> "item"]
=============================================================================
