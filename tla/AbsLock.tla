-------------------------------- MODULE AbsLock --------------------------------
(***************************************************************************)
(* What a spin lock promises its callers: at any time a lock is free or    *)
(* owned by one CPU, only a free lock can be taken, and only its owner     *)
(* gives it back.  Spinlock.tla is shown to implement this.                *)
(***************************************************************************)
CONSTANTS
  CPU,    \* the processors
  Lock,   \* the locks
  NoCPU   \* "nobody": the null cpu pointer

VARIABLE owner   \* owner[l]: the CPU that owns lock l, or NoCPU

Init == owner = [l \in Lock |-> NoCPU]

Acquire(c, l) ==
  /\ owner[l] = NoCPU
  /\ owner' = [owner EXCEPT ![l] = c]

Release(c, l) ==
  /\ owner[l] = c
  /\ owner' = [owner EXCEPT ![l] = NoCPU]

Next == \E c \in CPU, l \in Lock : Acquire(c, l) \/ Release(c, l)

Spec == Init /\ [][Next]_owner
================================================================================
