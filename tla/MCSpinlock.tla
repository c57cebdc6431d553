------------------------------- MODULE MCSpinlock -------------------------------
(* Two CPUs, two locks, handlers that may nest once more than they should. *)
EXTENDS Spinlock

CONSTANTS c1, c2

MCCPU == {c1, c2}
MCLock == {1, 2}
================================================================================
