---------------------------------- MODULE MCVm ----------------------------------
(* Vm for TLC: pages of two units, page tables of two pages.  One program    *)
(* has two segments, one a segment that is not page aligned, one is not      *)
(* well formed, one is too large.                                            *)
EXTENDS Vm
Ph(vaddr, filesz, memsz) == [vaddr |-> vaddr, filesz |-> filesz, memsz |-> memsz]
MCProgram ==
  {<<Ph(0, 1, 1)>>, <<Ph(0, 2, 3), Ph(4, 1, 1)>>, <<Ph(1, 1, 1)>>, <<Ph(0, 2, 1)>>,
   <<Ph(0, 0, 0)>>, <<Ph(0, 1, 11)>>, <<Ph(4, 1, 22)>>}
================================================================================
