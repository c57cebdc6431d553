-------------------------------- MODULE Spinlock --------------------------------
(***************************************************************************)
(* Spin locks and interrupt masking: spinlock.c, with the interrupt gates  *)
(* of trap.c.                                                              *)
(*                                                                         *)
(* Every CPU runs a thread (frame 0) that an interrupt handler (frame 1)   *)
(* may suspend at any instruction executed with interrupts on; a handler   *)
(* that ran with interrupts on would itself be interrupted (frame 2).      *)
(* The code of a frame takes and gives back locks as it likes, under the   *)
(* two rules that callers of spinlock.c follow: it takes locks in the      *)
(* kernel's lock order, and a handler returns holding none.  What is       *)
(* modelled step by step is what acquire, release, holding, pushcli and    *)
(* popcli do with locked, cpu, ncli, intena and the interrupt flag.        *)
(*                                                                         *)
(* The operators named Bug... are plausible mistakes in the action that    *)
(* follows them; no specification uses them.  Substituting one for its     *)
(* action must make TLC report the property that guards against it.        *)
(***************************************************************************)
EXTENDS Naturals, FiniteSets

CONSTANTS
  CPU,       \* the processors
  Lock,      \* the spin locks, numbered in the kernel's lock order
  NoCPU,     \* lk->cpu = 0
  NoLock,    \* "no lock": the operand of a bare pushcli/popcli pair
  MaxLevel   \* how deep interrupts may nest before the model stops them

ASSUME SpinlockAssumption ==
  /\ NoCPU \notin CPU
  /\ Lock \subseteq Nat
  /\ NoLock \notin Lock
  /\ MaxLevel \in Nat \ {0}

VARIABLES
  locked,   \* lk->locked
  cpu,      \* lk->cpu
  fl_if,    \* FL_IF, the interrupt flag of each CPU's eflags register
  ncli,     \* mycpu()->ncli
  intena,   \* mycpu()->intena
  level,    \* the frame each CPU executes: 0 is the thread, above it handlers
  pc,       \* pc[c][k]: where frame k of CPU c is in spinlock.c
  arg,      \* arg[c][k]: the lock it is operating on, NoLock in myproc()
  eflags,   \* eflags[c][k]: the FL_IF bit of pushcli's local eflags
  held      \* held[c][k]: the locks the code of the frame has taken (history)

vars == <<locked, cpu, fl_if, ncli, intena, level, pc, arg, eflags, held>>

Frame == 0 .. MaxLevel

Label ==
  {"run",                                  \* outside spinlock.c
   "readeflags", "cli", "push",            \* pushcli
   "acq_locked", "acq_cpu",                \* holding, in acquire
   "xchg", "setcpu",                       \* the rest of acquire
   "rel_locked", "rel_cpu",                \* holding, in release
   "clearcpu", "clearlocked",              \* the rest of release
   "popcli", "panic"}

TypeOK ==
  /\ locked \in [Lock -> BOOLEAN]
  /\ cpu \in [Lock -> CPU \cup {NoCPU}]
  /\ fl_if \in [CPU -> BOOLEAN]
  /\ ncli \in [CPU -> Nat]
  /\ intena \in [CPU -> BOOLEAN]
  /\ level \in [CPU -> Frame]
  /\ pc \in [CPU -> [Frame -> Label]]
  /\ arg \in [CPU -> [Frame -> Lock \cup {NoLock}]]
  /\ eflags \in [CPU -> [Frame -> BOOLEAN]]
  /\ held \in [CPU -> [Frame -> SUBSET Lock]]

(* Every CPU is in scheduler(), which has just executed sti(). *)
Init ==
  /\ locked = [l \in Lock |-> FALSE]
  /\ cpu = [l \in Lock |-> NoCPU]
  /\ fl_if = [c \in CPU |-> TRUE]
  /\ ncli = [c \in CPU |-> 0]
  /\ intena = [c \in CPU |-> FALSE]
  /\ level = [c \in CPU |-> 0]
  /\ pc = [c \in CPU |-> [k \in Frame |-> "run"]]
  /\ arg = [c \in CPU |-> [k \in Frame |-> NoLock]]
  /\ eflags = [c \in CPU |-> [k \in Frame |-> FALSE]]
  /\ held = [c \in CPU |-> [k \in Frame |-> {}]]

--------------------------------------------------------------------------------
(* The frame that executes on a CPU, and its registers. *)
At(c, here) == pc[c][level[c]] = here
Goto(c, there) == pc' = [pc EXCEPT ![c][level[c]] = there]
Arg(c) == arg[c][level[c]]
Held(c) == held[c][level[c]]

(* acquire(lk): the lock order makes lk greater than every lock held. *)
CallAcquire(c, l) ==
  /\ At(c, "run")
  /\ \A m \in Held(c) : m < l
  /\ arg' = [arg EXCEPT ![c][level[c]] = l]
  /\ Goto(c, "readeflags")
  /\ UNCHANGED <<locked, cpu, fl_if, ncli, intena, level, eflags, held>>

(* release(lk): locks may be released in any order (see sleep()). *)
CallRelease(c, l) ==
  /\ At(c, "run")
  /\ l \in Held(c)
  /\ arg' = [arg EXCEPT ![c][level[c]] = l]
  /\ Goto(c, "rel_locked")
  /\ UNCHANGED <<locked, cpu, fl_if, ncli, intena, level, eflags, held>>

(* myproc(): pushcli(), a read of mycpu()->proc, popcli(). *)
CallMyproc(c) ==
  /\ At(c, "run")
  /\ Goto(c, "readeflags")
  /\ UNCHANGED <<locked, cpu, fl_if, ncli, intena, level, arg, eflags, held>>

(* pushcli(): an interrupt may come between readeflags() and cli(). *)
PushcliRead(c) ==
  /\ At(c, "readeflags")
  /\ eflags' = [eflags EXCEPT ![c][level[c]] = fl_if[c]]
  /\ Goto(c, "cli")
  /\ UNCHANGED <<locked, cpu, fl_if, ncli, intena, level, arg, held>>

BugNoCli(c) ==   \* pushcli() counts but does not mask
  /\ At(c, "cli")
  /\ Goto(c, "push")
  /\ UNCHANGED <<locked, cpu, fl_if, ncli, intena, level, arg, eflags, held>>

PushcliCli(c) ==
  /\ At(c, "cli")
  /\ fl_if' = [fl_if EXCEPT ![c] = FALSE]
  /\ Goto(c, "push")
  /\ UNCHANGED <<locked, cpu, ncli, intena, level, arg, eflags, held>>

BugIntenaAlwaysSaved(c) ==   \* the test "ncli == 0" is missing
  /\ At(c, "push")
  /\ intena' = [intena EXCEPT ![c] = eflags[c][level[c]]]
  /\ ncli' = [ncli EXCEPT ![c] = @ + 1]
  /\ eflags' = [eflags EXCEPT ![c][level[c]] = FALSE]
  /\ Goto(c, IF Arg(c) = NoLock THEN "popcli" ELSE "acq_locked")
  /\ UNCHANGED <<locked, cpu, fl_if, level, arg, held>>

PushcliCount(c) ==
  /\ At(c, "push")
  /\ intena' = IF ncli[c] = 0
               THEN [intena EXCEPT ![c] = eflags[c][level[c]]]
               ELSE intena
  /\ ncli' = [ncli EXCEPT ![c] = @ + 1]
  /\ eflags' = [eflags EXCEPT ![c][level[c]] = FALSE]
  /\ Goto(c, IF Arg(c) = NoLock THEN "popcli" ELSE "acq_locked")
  /\ UNCHANGED <<locked, cpu, fl_if, level, arg, held>>

(***************************************************************************)
(* holding(lk) reads lk->locked and then, if it is set, lk->cpu: other     *)
(* CPUs may write both between the reads.  Its own pushcli/popcli pair is  *)
(* left out: it is called with interrupts off and ncli at least 1 (Masked, *)
(* below, covers these labels), when the pair changes nothing.             *)
(***************************************************************************)
AcquireHoldingLocked(c) ==
  /\ At(c, "acq_locked")
  /\ Goto(c, IF locked[Arg(c)] THEN "acq_cpu" ELSE "xchg")
  /\ UNCHANGED <<locked, cpu, fl_if, ncli, intena, level, arg, eflags, held>>

BugHoldingIgnoresCpu(c) ==   \* holding() tests only lk->locked
  /\ At(c, "acq_cpu")
  /\ Goto(c, "panic")
  /\ UNCHANGED <<locked, cpu, fl_if, ncli, intena, level, arg, eflags, held>>

AcquireHoldingCpu(c) ==
  /\ At(c, "acq_cpu")
  /\ Goto(c, IF cpu[Arg(c)] = c THEN "panic" ELSE "xchg")
  /\ UNCHANGED <<locked, cpu, fl_if, ncli, intena, level, arg, eflags, held>>

BugXchgOnce(c) ==   \* "if" for "while": the result of xchg is ignored
  /\ At(c, "xchg")
  /\ locked' = [locked EXCEPT ![Arg(c)] = TRUE]
  /\ Goto(c, "setcpu")
  /\ UNCHANGED <<cpu, fl_if, ncli, intena, level, arg, eflags, held>>

(* The xchg that finds 0; one that finds 1 changes nothing and spins. *)
AcquireXchg(c) ==
  /\ At(c, "xchg")
  /\ ~ locked[Arg(c)]
  /\ locked' = [locked EXCEPT ![Arg(c)] = TRUE]
  /\ Goto(c, "setcpu")
  /\ UNCHANGED <<cpu, fl_if, ncli, intena, level, arg, eflags, held>>

AcquireSetCpu(c) ==
  /\ At(c, "setcpu")
  /\ cpu' = [cpu EXCEPT ![Arg(c)] = c]
  /\ held' = [held EXCEPT ![c][level[c]] = @ \cup {Arg(c)}]
  /\ arg' = [arg EXCEPT ![c][level[c]] = NoLock]
  /\ Goto(c, "run")
  /\ UNCHANGED <<locked, fl_if, ncli, intena, level, eflags>>

ReleaseHoldingLocked(c) ==
  /\ At(c, "rel_locked")
  /\ Goto(c, IF locked[Arg(c)] THEN "rel_cpu" ELSE "panic")
  /\ UNCHANGED <<locked, cpu, fl_if, ncli, intena, level, arg, eflags, held>>

ReleaseHoldingCpu(c) ==
  /\ At(c, "rel_cpu")
  /\ Goto(c, IF cpu[Arg(c)] = c THEN "clearcpu" ELSE "panic")
  /\ UNCHANGED <<locked, cpu, fl_if, ncli, intena, level, arg, eflags, held>>

ReleaseClearCpu(c) ==
  /\ At(c, "clearcpu")
  /\ cpu' = [cpu EXCEPT ![Arg(c)] = NoCPU]
  /\ Goto(c, "clearlocked")
  /\ UNCHANGED <<locked, fl_if, ncli, intena, level, arg, eflags, held>>

ReleaseClearLocked(c) ==
  /\ At(c, "clearlocked")
  /\ locked' = [locked EXCEPT ![Arg(c)] = FALSE]
  /\ held' = [held EXCEPT ![c][level[c]] = @ \ {Arg(c)}]
  /\ Goto(c, "popcli")
  /\ UNCHANGED <<cpu, fl_if, ncli, intena, level, arg, eflags>>

(* popcli(): both panics, the decrement, and sti() at the outermost level. *)
Popcli(c) ==
  /\ At(c, "popcli")
  /\ IF fl_if[c] \/ ncli[c] = 0
     THEN Goto(c, "panic") /\ UNCHANGED <<fl_if, ncli, arg>>
     ELSE /\ ncli' = [ncli EXCEPT ![c] = @ - 1]
          /\ fl_if' = IF ncli[c] = 1 /\ intena[c]
                      THEN [fl_if EXCEPT ![c] = TRUE]
                      ELSE fl_if
          /\ arg' = [arg EXCEPT ![c][level[c]] = NoLock]
          /\ Goto(c, "run")
  /\ UNCHANGED <<locked, cpu, intena, level, eflags, held>>

--------------------------------------------------------------------------------
(* A device interrupt: tvinit() makes the vectors interrupt gates, so the  *)
(* hardware clears FL_IF, and iret restores the flag that was saved, set.     *)
Interrupt(c) ==
  /\ fl_if[c]
  /\ level[c] < MaxLevel
  /\ level' = [level EXCEPT ![c] = @ + 1]
  /\ fl_if' = [fl_if EXCEPT ![c] = FALSE]
  /\ UNCHANGED <<locked, cpu, ncli, intena, pc, arg, eflags, held>>

Iret(c) ==
  /\ level[c] > 0
  /\ At(c, "run")
  /\ Held(c) = {}
  /\ level' = [level EXCEPT ![c] = @ - 1]
  /\ fl_if' = [fl_if EXCEPT ![c] = TRUE]
  /\ UNCHANGED <<locked, cpu, ncli, intena, pc, arg, eflags, held>>

Next ==
  \E c \in CPU :
    \/ \E l \in Lock : CallAcquire(c, l) \/ CallRelease(c, l)
    \/ CallMyproc(c)
    \/ PushcliRead(c) \/ PushcliCli(c) \/ PushcliCount(c)
    \/ AcquireHoldingLocked(c) \/ AcquireHoldingCpu(c)
    \/ AcquireXchg(c) \/ AcquireSetCpu(c)
    \/ ReleaseHoldingLocked(c) \/ ReleaseHoldingCpu(c)
    \/ ReleaseClearCpu(c) \/ ReleaseClearLocked(c)
    \/ Popcli(c)
    \/ Interrupt(c) \/ Iret(c)

Spec == Init /\ [][Next]_vars

--------------------------------------------------------------------------------
(* Labels at which interrupts must be off: after cli() up to popcli(). *)
Critical == Label \ {"run", "readeflags", "cli", "panic"}

(* The code of frame k of CPU c owns l: it has won the xchg for it and has *)
(* not yet executed the store that frees it.                               *)
Owns(c, k, l) ==
  \/ l \in held[c][k]
  \/ pc[c][k] = "setcpu" /\ arg[c][k] = l

(* No two frames, of one CPU or of two, are ever between the successful    *)
(* xchg of acquire() and the freeing store of release() on one lock.       *)
MutualExclusion ==
  \A c, d \in CPU : \A j, k \in Frame : \A l \in Lock :
    Owns(c, j, l) /\ Owns(d, k, l) => c = d /\ j = k

(* The four panics "acquire", "release", "popcli - interruptible" and      *)
(* "popcli" are unreachable by code that follows the two caller rules:     *)
(* neither holding()'s unlocked reads nor an interrupt inside pushcli can  *)
(* make a correct caller panic.                                            *)
NoPanic ==
  \A c \in CPU : \A k \in Frame : pc[c][k] # "panic"

(* While code holds a spin lock, or is anywhere between the cli() of       *)
(* pushcli and its popcli, its CPU takes no interrupt: the frame is the    *)
(* running one and interrupts are off.  This is what keeps a handler from  *)
(* spinning on a lock that the code it interrupted holds.                  *)
Masked ==
  \A c \in CPU : \A k \in 0 .. level[c] :
    held[c][k] # {} \/ pc[c][k] \in Critical
      => k = level[c] /\ ~ fl_if[c]

(* intena/ncli bookkeeping: code that has given back every lock finds      *)
(* interrupts as they were when it started, on for a thread and off for a  *)
(* handler, whatever handlers ran in between; so handlers never nest.      *)
IntrRestored ==
  \A c \in CPU :
    /\ level[c] <= 1
    /\ At(c, "run") /\ Held(c) = {} => (fl_if[c] <=> level[c] = 0)

(* holding() tells a CPU the truth about its own locks: lk->locked and     *)
(* lk->cpu name CPU c exactly from the end of acquire() on c to the        *)
(* "lk->cpu = 0" of release().                                             *)
HoldingExact ==
  \A c \in CPU, l \in Lock :
    locked[l] /\ cpu[l] = c
      <=> \E k \in Frame : /\ l \in held[c][k]
                           /\ ~ (pc[c][k] = "clearlocked" /\ arg[c][k] = l)

(* The lock as its callers see it: owned from the xchg to the freeing      *)
(* store.                                                                  *)
Owner ==
  [l \in Lock |-> IF locked[l]
                  THEN CHOOSE c \in CPU : \E k \in Frame : Owns(c, k, l)
                  ELSE NoCPU]

Abs == INSTANCE AbsLock WITH owner <- Owner

(* acquire() and release(), with their unlocked reads and split stores,    *)
(* implement the abstract lock of AbsLock.                                 *)
ImplementsLock == Abs!Spec

================================================================================
