---------------------------------- MODULE MCBio ----------------------------------
(* Bio for TLC.  Processes, buffers and blocks are interchangeable.          *)
EXTENDS Bio, TLC
Symmetry == Permutations(Proc) \cup Permutations(Buf) \cup Permutations(Block)
================================================================================
