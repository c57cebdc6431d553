--------------------------------- MODULE MCProc ---------------------------------
(* Two interchangeable CPUs for safety, one for liveness. *)
EXTENDS Proc, TLC

CONSTANTS c1, c2

MCCPU == {c1, c2}
MCOneCPU == {c1}
MCSymmetry == Permutations(MCCPU)
MCKillPids == 2 .. MaxPid
================================================================================
