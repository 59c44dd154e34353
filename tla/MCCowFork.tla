------------------------------ MODULE MCCowFork ------------------------------
(***************************************************************************)
(* The mmap area of the runs of CowFork, and the stores processes make.     *)
(***************************************************************************)
EXTENDS CowFork

MmapRightsRW == <<{"R","W"}>>
DataAndStack == {<<<<"data", 1>>, 1>>, <<<<"stack", 2>>, 0>>}
===============================================================================
