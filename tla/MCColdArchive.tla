--------------------------- MODULE MCColdArchive ---------------------------
(* Small instances of ColdArchive for TLC. *)
EXTENDS ColdArchive, TLC

Interchangeable == Permutations(Process) \cup Permutations(Note)
=============================================================================
