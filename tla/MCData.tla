--------------------------------- MODULE MCData ---------------------------------
(* Data for TLC. *)
EXTENDS Data, TLC
MCValue == <<{3}, {1, 2}>>
MCSymmetry == Permutations(Proc)
================================================================================
