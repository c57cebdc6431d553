--------------------------------- MODULE MCPipe ---------------------------------
(* Pipe for TLC.  Processes and pipes are interchangeable.                   *)
EXTENDS Pipe, TLC
Symmetry == Permutations(Proc) \cup Permutations(Pipe)
================================================================================
