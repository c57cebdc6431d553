-------------------------------- MODULE MCConsole --------------------------------
(* Console for TLC.  Readers are interchangeable.                            *)
EXTENDS Console, TLC
Symmetry == Permutations(Proc)
================================================================================
