--------------------------------- MODULE MCLog ---------------------------------
(* Small instances of the log. *)
EXTENDS Log, TLC

CONSTANTS p1, p2, p3, b1, b2, b3, v1, v2

MCTwoProcs == {p1, p2}
MCThreeProcs == {p1, p2, p3}
MCBlock == {b1, b2, b3}
MCValue == {v1, v2}
MCOneValue == {v1}
MCSymmetry ==
  Permutations(MCThreeProcs) \cup Permutations(MCBlock) \cup Permutations(MCValue)
================================================================================
