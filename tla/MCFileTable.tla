------------------------------ MODULE MCFileTable ------------------------------
(***************************************************************************)
(* Symmetry for the runs of FileTable: pages and process slots are          *)
(* interchangeable.                                                         *)
(***************************************************************************)
EXTENDS FileTable, TLC

Symmetry == Permutations(Files) \cup Permutations(Procs)
===============================================================================
