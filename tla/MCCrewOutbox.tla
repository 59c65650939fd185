--------------------------- MODULE MCCrewOutbox ---------------------------
(***************************************************************************)
(* Small instances of CrewOutbox for TLC.                                  *)
(***************************************************************************)
EXTENDS CrewOutbox, TLC

\* Tabs are interchangeable, and so are records when all or none are Timed.
TabsAndRecords == Permutations(Tabs) \cup Permutations(Records)
=============================================================================
