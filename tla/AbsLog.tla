--------------------------------- MODULE AbsLog ---------------------------------
(***************************************************************************)
(* What the log promises file system operations: a disk on which groups of *)
(* whole operations become durable at once.  mem is what operations read   *)
(* and write, disk what a crash would leave.  The disk only ever changes   *)
(* to a copy of mem taken while no operation is active.                    *)
(***************************************************************************)
CONSTANTS
  Proc,    \* the processes
  Block,   \* the blocks of the file system
  Value    \* their contents

VARIABLES
  mem,      \* the contents of the blocks as operations see them
  disk,     \* their contents after a crash now
  active    \* the processes inside an operation

vars == <<mem, disk, active>>

Init ==
  /\ mem \in [Block -> Value]
  /\ disk = mem
  /\ active = {}

Begin(p) ==
  /\ p \notin active
  /\ active' = active \cup {p}
  /\ UNCHANGED <<mem, disk>>

Write(p, b, v) ==
  /\ p \in active
  /\ mem' = [mem EXCEPT ![b] = v]
  /\ UNCHANGED <<disk, active>>

End(p) ==
  /\ p \in active
  /\ active' = active \ {p}
  /\ UNCHANGED <<mem, disk>>

Commit ==
  /\ active = {}
  /\ disk' = mem
  /\ UNCHANGED <<mem, active>>

Crash ==
  /\ mem' = disk
  /\ active' = {}
  /\ UNCHANGED disk

Next ==
  \/ \E p \in Proc : Begin(p) \/ End(p)
  \/ \E p \in Proc, b \in Block, v \in Value : Write(p, b, v)
  \/ Commit
  \/ Crash

Spec == Init /\ [][Next]_vars
================================================================================
