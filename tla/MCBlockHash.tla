------------------------------ MODULE MCBlockHash ------------------------------
(***************************************************************************)
(* Model values for BlockHash.  Blocks of two words of two bytes; the sizes *)
(* include an exact number of blocks, a partial block, a partial word, and  *)
(* a file shorter than a word.  Distinct powers of two make every wrong sum *)
(* visible.                                                                 *)
(***************************************************************************)
EXTENDS BlockHash

MCWord(i) == 2 ^ i
MCSizes == {1, 4, 7, 10, 12}
===============================================================================
