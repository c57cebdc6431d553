---------------------------------- MODULE Proc ----------------------------------
(***************************************************************************)
(* Processes: proc.c (allocproc, fork, exit, wait, kill, yield, sleep,     *)
(* wakeup, sched, scheduler), trap.c's clock interrupt and sysproc.c's     *)
(* sys_sleep.                                                              *)
(*                                                                         *)
(* ptable.lock is modelled as the CPU that holds it.  A critical section   *)
(* of ptable.lock that does not switch stacks is one step; one that does   *)
(* keeps the lock across swtch(), from the process to the scheduler of its *)
(* CPU and on to the next process, and is modelled switch by switch.  What *)
(* the code does to the table without the lock (the failure paths of       *)
(* allocproc and fork, np->parent, the reads of killed) is a step of its   *)
(* own.  Programs are arbitrary, but for the first process: it runs        *)
(* init.c, which only forks and waits.                                     *)
(*                                                                         *)
(* The operators named Bug... are plausible mistakes in the definition     *)
(* that follows them; no specification uses them.                          *)
(***************************************************************************)
EXTENDS Naturals, FiniteSets

CONSTANTS
  CPU,       \* the processors
  NPROC,     \* slots of the process table, numbered from 1
  NoCPU,     \* ptable.lock is free
  NoProc,    \* a null struct proc pointer
  Ticks,     \* the channel &ticks
  NoChan,    \* a null channel
  MaxPid,    \* bound: no fork once nextpid exceeds it
  KillPids   \* the pids that programs pass to kill()

Slot == 1 .. NPROC
initproc == 1

ASSUME ProcAssumption ==
  /\ NPROC \in Nat \ {0}
  /\ NoCPU \notin CPU
  /\ NoProc \notin Slot
  /\ Ticks \notin Slot /\ NoChan \notin Slot /\ NoChan # Ticks
  /\ MaxPid \in Nat
  /\ KillPids \subseteq Nat \ {1}   \* init is not killed: its exit() panics

VARIABLES
  state, pid, parent, chan, killed,   \* the fields of struct proc
  kstack,    \* whether p->kstack points to an allocated page
  nextpid,
  lock,      \* the CPU that holds ptable.lock
  mode,      \* what each CPU does: see below
  cur,       \* mycpu()->proc
  pos,       \* where the scheduler's loop goes on; 1 outside the loop
  pc,        \* where a process is in its system call
  ctx,       \* where swtch() resumes a process, "none" while it runs
  np,        \* fork's local variable np
  tickslock, \* the process that holds tickslock
  due        \* in sys_sleep(1): whether a tick came since it read ticks0

table == <<state, pid, parent, chan, killed, kstack, nextpid>>
cpus == <<lock, mode, cur, pos>>
locals == <<pc, ctx, np>>
clock == <<tickslock, due>>
vars == <<table, cpus, locals, clock>>

(***************************************************************************)
(* A CPU's mode: "idle" in scheduler(), interrupts on, lock not held;      *)
(* "scan" in its loop, lock held; "resume" just switched to cur, lock      *)
(* held; "run", cur runs, lock not held; "sched", cur is in sched(), lock  *)
(* held, still on its own stack.                                           *)
(***************************************************************************)

(* userinit() has made the first process; the CPUs are in scheduler(). *)
Init ==
  /\ state = [p \in Slot |-> IF p = initproc THEN "RUNNABLE" ELSE "UNUSED"]
  /\ pid = [p \in Slot |-> IF p = initproc THEN 1 ELSE 0]
  /\ parent = [p \in Slot |-> NoProc]
  /\ chan = [p \in Slot |-> NoChan]
  /\ killed = [p \in Slot |-> FALSE]
  /\ kstack = [p \in Slot |-> p = initproc]
  /\ nextpid = 2
  /\ lock = NoCPU
  /\ mode = [c \in CPU |-> "idle"]
  /\ cur = [c \in CPU |-> NoProc]
  /\ pos = [c \in CPU |-> 1]
  /\ pc = [p \in Slot |-> IF p = initproc THEN "user" ELSE "exit"]
  /\ ctx = [p \in Slot |-> IF p = initproc THEN "forkret" ELSE "none"]
  /\ np = [p \in Slot |-> NoProc]
  /\ tickslock = NoProc
  /\ due = [p \in Slot |-> FALSE]

--------------------------------------------------------------------------------
(* The loops over ptable.proc find the first slot that qualifies. *)
First(S) == {p \in S : \A q \in S : p <= q}

(* Process p executes on CPU c, outside every critical section. *)
On(c, p) == mode[c] = "run" /\ cur[c] = p
Free == lock = NoCPU
Goto(p, there) == pc' = [pc EXCEPT ![p] = there]

(* The effect of wakeup1(ch) on the state field. *)
Wakeup1(st, ch) ==
  [p \in Slot |-> IF st[p] = "SLEEPING" /\ chan[p] = ch THEN "RUNNABLE" ELSE st[p]]

(* sched(): p has changed its state and holds only ptable.lock. *)
Sched(c) ==
  /\ lock' = c
  /\ mode' = [mode EXCEPT ![c] = "sched"]
  /\ UNCHANGED <<cur, pos>>

(* scheduler(): sti(), acquire, the loop, swtch, release. *)
SchedulerStart(c) ==
  /\ mode[c] = "idle"
  /\ Free
  /\ lock' = c
  /\ mode' = [mode EXCEPT ![c] = "scan"]
  /\ UNCHANGED <<table, cur, pos, locals, clock>>

Candidates(c) == {p \in Slot : p >= pos[c] /\ state[p] = "RUNNABLE"}

BugStillRunnable(c) ==   \* scheduler() forgets p->state = RUNNING
  /\ mode[c] = "scan"
  /\ \E p \in First(Candidates(c)) : cur' = [cur EXCEPT ![c] = p]
  /\ pos' = [pos EXCEPT ![c] = 1]
  /\ mode' = [mode EXCEPT ![c] = "resume"]
  /\ UNCHANGED <<table, lock, locals, clock>>

SchedulerPick(c) ==
  /\ mode[c] = "scan"
  /\ \E p \in First(Candidates(c)) :
       /\ cur' = [cur EXCEPT ![c] = p]
       /\ state' = [state EXCEPT ![p] = "RUNNING"]
  /\ pos' = [pos EXCEPT ![c] = 1]
  /\ mode' = [mode EXCEPT ![c] = "resume"]
  /\ UNCHANGED <<pid, parent, chan, killed, kstack, nextpid, lock, locals, clock>>

SchedulerEnd(c) ==
  /\ mode[c] = "scan"
  /\ Candidates(c) = {}
  /\ lock' = NoCPU
  /\ mode' = [mode EXCEPT ![c] = "idle"]
  /\ pos' = [pos EXCEPT ![c] = 1]
  /\ UNCHANGED <<table, cur, locals, clock>>

BugScanFromStart(c) ==   \* the loop starts over after every switch
  /\ mode[c] = "sched"
  /\ mode' = [mode EXCEPT ![c] = "scan"]
  /\ pos' = [pos EXCEPT ![c] = 1]
  /\ cur' = [cur EXCEPT ![c] = NoProc]
  /\ UNCHANGED <<table, lock, locals, clock>>

(* swtch() from sched() back into scheduler(), which goes on with p + 1. *)
SwtchOut(c) ==
  /\ mode[c] = "sched"
  /\ mode' = [mode EXCEPT ![c] = "scan"]
  /\ pos' = [pos EXCEPT ![c] = cur[c] + 1]
  /\ cur' = [cur EXCEPT ![c] = NoProc]
  /\ UNCHANGED <<table, lock, locals, clock>>

(* The process that scheduler() switched to comes back from swtch() in     *)
(* forkret or yield (wait and sys_sleep are below).  After a yield,        *)
(* trap() looks at killed once more before it returns to user space.       *)
Resume(c) ==
  /\ mode[c] = "resume"
  /\ ctx[cur[c]] \in {"forkret", "yield"}
  /\ lock' = NoCPU
  /\ mode' = [mode EXCEPT ![c] = "run"]
  /\ pc' = IF pc[cur[c]] = "user" /\ killed[cur[c]] /\ ctx[cur[c]] = "yield"
           THEN [pc EXCEPT ![cur[c]] = "exit"]
           ELSE pc
  /\ ctx' = [ctx EXCEPT ![cur[c]] = "none"]
  /\ UNCHANGED <<table, cur, pos, np, clock>>

(* A clock interrupt: yield().  Interrupts are off while p holds           *)
(* tickslock.                                                              *)
Yield(c, p) ==
  /\ On(c, p)
  /\ tickslock # p
  /\ Free
  /\ state' = [state EXCEPT ![p] = "RUNNABLE"]
  /\ ctx' = [ctx EXCEPT ![p] = "yield"]
  /\ Sched(c)
  /\ UNCHANGED <<pid, parent, chan, killed, kstack, nextpid, pc, np, clock>>

--------------------------------------------------------------------------------
(* fork(), from the allocproc() it calls. *)
Unused == {q \in Slot : state[q] = "UNUSED"}

ForkAlloc(c, p) ==
  /\ On(c, p) /\ pc[p] = "user" /\ ~ killed[p]
  /\ Free
  /\ nextpid <= MaxPid
  /\ \E q \in First(Unused) :
       /\ state' = [state EXCEPT ![q] = "EMBRYO"]
       /\ pid' = [pid EXCEPT ![q] = nextpid]
       /\ np' = [np EXCEPT ![p] = q]
  /\ nextpid' = nextpid + 1
  /\ Goto(p, "fork_kstack")
  /\ UNCHANGED <<parent, chan, killed, kstack, cpus, ctx, clock>>

BugKallocUnchecked(c, p) ==   \* kalloc's 0 is used as a stack
  /\ On(c, p) /\ pc[p] = "fork_kstack"
  /\ \E got \in BOOLEAN : kstack' = [kstack EXCEPT ![np[p]] = got]
  /\ Goto(p, "fork_copy")
  /\ UNCHANGED <<state, pid, parent, chan, killed, nextpid, cpus, ctx, np, clock>>

(* kalloc() succeeds, or returns 0 and the slot is given back, unlocked. *)
ForkKstack(c, p) ==
  /\ On(c, p) /\ pc[p] = "fork_kstack"
  /\ \/ /\ kstack' = [kstack EXCEPT ![np[p]] = TRUE]
        /\ Goto(p, "fork_copy")
        /\ UNCHANGED <<state, np>>
     \/ /\ state' = [state EXCEPT ![np[p]] = "UNUSED"]
        /\ np' = [np EXCEPT ![p] = NoProc]
        /\ Goto(p, "user")
        /\ UNCHANGED kstack
  /\ UNCHANGED <<pid, parent, chan, killed, nextpid, cpus, ctx, clock>>

BugEmbryoLeft(c, p) ==   \* copyuvm's failure path forgets np->state = UNUSED
  /\ On(c, p) /\ pc[p] = "fork_copy"
  /\ \/ /\ parent' = [parent EXCEPT ![np[p]] = p]
        /\ Goto(p, "fork_run")
        /\ UNCHANGED <<kstack, np>>
     \/ /\ kstack' = [kstack EXCEPT ![np[p]] = FALSE]
        /\ np' = [np EXCEPT ![p] = NoProc]
        /\ Goto(p, "user")
        /\ UNCHANGED parent
  /\ UNCHANGED <<state, pid, chan, killed, nextpid, cpus, ctx, clock>>

(* copyuvm() succeeds, or fails and the stack and the slot are given back. *)
ForkCopy(c, p) ==
  /\ On(c, p) /\ pc[p] = "fork_copy"
  /\ \/ /\ parent' = [parent EXCEPT ![np[p]] = p]
        /\ Goto(p, "fork_run")
        /\ UNCHANGED <<state, kstack, np>>
     \/ /\ kstack' = [kstack EXCEPT ![np[p]] = FALSE]
        /\ state' = [state EXCEPT ![np[p]] = "UNUSED"]
        /\ np' = [np EXCEPT ![p] = NoProc]
        /\ Goto(p, "user")
        /\ UNCHANGED parent
  /\ UNCHANGED <<pid, chan, killed, nextpid, cpus, ctx, clock>>

ForkRun(c, p) ==
  /\ On(c, p) /\ pc[p] = "fork_run"
  /\ Free
  /\ state' = [state EXCEPT ![np[p]] = "RUNNABLE"]
  /\ ctx' = [ctx EXCEPT ![np[p]] = "forkret"]
  /\ pc' = [pc EXCEPT ![p] = "user", ![np[p]] = "user"]
  /\ np' = [np EXCEPT ![p] = NoProc]
  /\ UNCHANGED <<pid, parent, chan, killed, kstack, nextpid, cpus, clock>>

--------------------------------------------------------------------------------
(* exit(), by the program or because trap() found it killed.  init does    *)
(* not exit.  Closing files and releasing cwd happen at "exit".            *)
ExitStart(c, p) ==
  /\ On(c, p) /\ pc[p] = "user"
  /\ p # initproc
  /\ Goto(p, "exit")
  /\ UNCHANGED <<table, cpus, ctx, np, clock>>

(* The locked part: wake the parent, pass the children on to init, wake    *)
(* init if one of them is a zombie, become a zombie and sched().           *)
BugNoReparent(p) ==   \* abandoned children keep their parent
  [q \in Slot |-> parent[q]]

Reparent(p) ==
  [q \in Slot |-> IF parent[q] = p THEN initproc ELSE parent[q]]

BugInitNotWoken(p, st) ==   \* the test for a ZOMBIE child is missing
  st

WakeInit(p, st) ==
  IF \E q \in Slot : parent[q] = p /\ st[q] = "ZOMBIE"
  THEN Wakeup1(st, initproc)
  ELSE st

BugWakesItself(c, p) ==   \* wakeup1(curproc) for wakeup1(curproc->parent)
  /\ On(c, p) /\ pc[p] = "exit"
  /\ Free
  /\ state' = [WakeInit(p, Wakeup1(state, p)) EXCEPT ![p] = "ZOMBIE"]
  /\ parent' = Reparent(p)
  /\ Sched(c)
  /\ UNCHANGED <<pid, chan, killed, kstack, nextpid, locals, clock>>

ExitLocked(c, p) ==
  /\ On(c, p) /\ pc[p] = "exit"
  /\ Free
  /\ state' = [WakeInit(p, Wakeup1(state, parent[p])) EXCEPT ![p] = "ZOMBIE"]
  /\ parent' = Reparent(p)
  /\ Sched(c)
  /\ UNCHANGED <<pid, chan, killed, kstack, nextpid, locals, clock>>

--------------------------------------------------------------------------------
(* wait(): one pass of its loop, with ptable.lock held by c.  It reaps the *)
(* first zombie child, returns -1, or sleeps on its own proc.              *)
Children(p) == {q \in Slot : parent[q] = p}
Zombies(p) == {q \in Children(p) : state[q] = "ZOMBIE"}

Reap(c, p) ==
  /\ \E q \in First(Zombies(p)) :
       /\ state' = [state EXCEPT ![q] = "UNUSED"]
       /\ pid' = [pid EXCEPT ![q] = 0]
       /\ parent' = [parent EXCEPT ![q] = NoProc]
       /\ killed' = [killed EXCEPT ![q] = FALSE]
       /\ kstack' = [kstack EXCEPT ![q] = FALSE]
  /\ chan' = [chan EXCEPT ![p] = NoChan]
  /\ lock' = NoCPU
  /\ mode' = [mode EXCEPT ![c] = "run"]
  /\ ctx' = [ctx EXCEPT ![p] = "none"]
  /\ UNCHANGED <<cur, pos>>

NothingToWaitFor(c, p) ==
  /\ Zombies(p) = {}
  /\ Children(p) = {} \/ killed[p]
  /\ chan' = [chan EXCEPT ![p] = NoChan]
  /\ lock' = NoCPU
  /\ mode' = [mode EXCEPT ![c] = "run"]
  /\ ctx' = [ctx EXCEPT ![p] = "none"]
  /\ UNCHANGED <<state, pid, parent, killed, kstack, cur, pos>>

SleepInWait(c, p) ==
  /\ Zombies(p) = {} /\ Children(p) # {} /\ ~ killed[p]
  /\ chan' = [chan EXCEPT ![p] = p]
  /\ state' = [state EXCEPT ![p] = "SLEEPING"]
  /\ ctx' = [ctx EXCEPT ![p] = "wait"]
  /\ Sched(c)
  /\ UNCHANGED <<pid, parent, killed, kstack>>

WaitLoop(c, p) == Reap(c, p) \/ NothingToWaitFor(c, p) \/ SleepInWait(c, p)

Wait(c, p) ==
  /\ On(c, p) /\ pc[p] = "user" /\ ~ killed[p]
  /\ Free
  /\ WaitLoop(c, p)
  /\ UNCHANGED <<nextpid, pc, np, clock>>

WaitResume(c) ==
  /\ mode[c] = "resume" /\ ctx[cur[c]] = "wait"
  /\ WaitLoop(c, cur[c])
  /\ UNCHANGED <<nextpid, pc, np, clock>>

--------------------------------------------------------------------------------
(* kill(k): the first slot with that pid, whatever its state. *)
Target(k) == {q \in Slot : pid[q] = k}

BugKillDoesNotWake(c, p, k) ==   \* kill() only sets p->killed
  /\ p # initproc
  /\ On(c, p) /\ pc[p] = "user" /\ ~ killed[p]
  /\ Free
  /\ \E q \in First(Target(k)) : killed' = [killed EXCEPT ![q] = TRUE]
  /\ UNCHANGED <<state, pid, parent, chan, kstack, nextpid, cpus, locals, clock>>

Kill(c, p, k) ==
  /\ p # initproc
  /\ On(c, p) /\ pc[p] = "user" /\ ~ killed[p]
  /\ Free
  /\ \E q \in First(Target(k)) :
       /\ killed' = [killed EXCEPT ![q] = TRUE]
       /\ state' = IF state[q] = "SLEEPING"
                   THEN [state EXCEPT ![q] = "RUNNABLE"]
                   ELSE state
  /\ UNCHANGED <<pid, parent, chan, kstack, nextpid, cpus, locals, clock>>

--------------------------------------------------------------------------------
(* sys_sleep(1): the loop around sleep(&ticks, &tickslock). *)
SysSleep(c, p) ==
  /\ p # initproc
  /\ On(c, p) /\ pc[p] = "user" /\ ~ killed[p]
  /\ tickslock = NoProc
  /\ tickslock' = p
  /\ Goto(p, "tick_check")
  /\ UNCHANGED <<table, cpus, ctx, np, due>>

(* ticks - ticks0 < n, then killed: read without ptable.lock. *)
SysSleepCheck(c, p) ==
  /\ On(c, p) /\ pc[p] = "tick_check"
  /\ IF due[p] \/ killed[p]
     THEN tickslock' = NoProc /\ Goto(p, "user")
     ELSE UNCHANGED tickslock /\ Goto(p, "tick_sleep")
  /\ due' = [due EXCEPT ![p] = FALSE]
  /\ UNCHANGED <<table, cpus, ctx, np>>

BugSleepKeepsLock(c, p) ==   \* sleep() does not release lk
  /\ On(c, p) /\ pc[p] = "tick_sleep"
  /\ Free
  /\ chan' = [chan EXCEPT ![p] = Ticks]
  /\ state' = [state EXCEPT ![p] = "SLEEPING"]
  /\ ctx' = [ctx EXCEPT ![p] = "ticks"]
  /\ Goto(p, "tick_acquire")
  /\ Sched(c)
  /\ UNCHANGED <<pid, parent, killed, kstack, nextpid, np, clock>>

(* sleep(): acquire(&ptable.lock), release(lk), and to sleep. *)
SysSleepSleep(c, p) ==
  /\ On(c, p) /\ pc[p] = "tick_sleep"
  /\ Free
  /\ tickslock' = NoProc
  /\ chan' = [chan EXCEPT ![p] = Ticks]
  /\ state' = [state EXCEPT ![p] = "SLEEPING"]
  /\ ctx' = [ctx EXCEPT ![p] = "ticks"]
  /\ Goto(p, "tick_acquire")
  /\ Sched(c)
  /\ UNCHANGED <<pid, parent, killed, kstack, nextpid, np, due>>

(* Back from sched() in sleep(): chan = 0, release(&ptable.lock), and then *)
(* acquire(lk).                                                            *)
SysSleepResume(c) ==
  /\ mode[c] = "resume" /\ ctx[cur[c]] = "ticks"
  /\ chan' = [chan EXCEPT ![cur[c]] = NoChan]
  /\ lock' = NoCPU
  /\ mode' = [mode EXCEPT ![c] = "run"]
  /\ ctx' = [ctx EXCEPT ![cur[c]] = "none"]
  /\ UNCHANGED <<state, pid, parent, killed, kstack, nextpid, cur, pos, pc, np,
                 clock>>

SysSleepAcquire(c, p) ==
  /\ On(c, p) /\ pc[p] = "tick_acquire"
  /\ tickslock = NoProc
  /\ tickslock' = p
  /\ Goto(p, "tick_check")
  /\ UNCHANGED <<table, cpus, ctx, np, due>>

(* The clock interrupt's tick: ticks++ and wakeup(&ticks) with tickslock.  *)
Tick ==
  /\ tickslock = NoProc
  /\ Free
  /\ due' = [p \in Slot |-> pc[p] = "tick_acquire"]
  /\ state' = Wakeup1(state, Ticks)
  /\ UNCHANGED <<pid, parent, chan, killed, kstack, nextpid, cpus, locals,
                 tickslock>>

--------------------------------------------------------------------------------
(* What a process does once it has begun it. *)
Continue(c, p) ==
  \/ ForkKstack(c, p) \/ ForkCopy(c, p) \/ ForkRun(c, p)
  \/ ExitLocked(c, p)
  \/ SysSleepCheck(c, p) \/ SysSleepSleep(c, p) \/ SysSleepAcquire(c, p)

Next ==
  \/ \E c \in CPU :
       \/ SchedulerStart(c) \/ SchedulerPick(c) \/ SchedulerEnd(c)
       \/ SwtchOut(c)
       \/ Resume(c) \/ WaitResume(c) \/ SysSleepResume(c)
  \/ \E c \in CPU, p \in Slot :
       \/ Yield(c, p)
       \/ ForkAlloc(c, p) \/ ExitStart(c, p) \/ Wait(c, p) \/ SysSleep(c, p)
       \/ \E k \in KillPids : Kill(c, p, k)
       \/ Continue(c, p)
  \/ Tick

Spec == Init /\ [][Next]_vars

(***************************************************************************)
(* Fairness.  A CPU executes the code of scheduler() and swtch(); the      *)
(* timer keeps interrupting, so every CPU yields again and again and ticks *)
(* keep coming; a process goes on with what it has begun; a process that   *)
(* trap() finds killed exits; and init's program returns to wait()         *)
(* whenever it can.  Strong fairness because each of these steps needs     *)
(* ptable.lock or a CPU, which come and go.                                *)
(***************************************************************************)
Dispatch(c) ==
  \/ SchedulerStart(c) \/ SchedulerPick(c) \/ SchedulerEnd(c) \/ SwtchOut(c)
  \/ Resume(c) \/ WaitResume(c) \/ SysSleepResume(c)

Progress(p) ==
  \E c \in CPU :
    \/ Continue(c, p)
    \/ killed[p] /\ ExitStart(c, p)

Fairness ==
  /\ \A c \in CPU : SF_vars(Dispatch(c)) /\ SF_vars(\E p \in Slot : Yield(c, p))
  /\ \A p \in Slot : SF_vars(Progress(p))
  /\ SF_vars(\E c \in CPU : Wait(c, initproc))
  /\ SF_vars(Tick)

FairSpec == Spec /\ Fairness

--------------------------------------------------------------------------------
Alive(p) == state[p] \in {"SLEEPING", "RUNNABLE", "RUNNING"}

(* A process is on at most one CPU, and the table agrees with the CPUs:    *)
(* RUNNING means that exactly one CPU is on the process's stack, and a     *)
(* CPU on the stack of a process that is not RUNNING still holds           *)
(* ptable.lock in sched(), so that no other CPU can pick the process up    *)
(* before swtch() has saved its registers.                                 *)
OneCPU ==
  /\ \A c, d \in CPU : cur[c] # NoProc /\ cur[c] = cur[d] => c = d
  /\ \A p \in Slot : state[p] = "RUNNING" => \E c \in CPU : cur[c] = p
  /\ \A c \in CPU :
       cur[c] # NoProc /\ state[cur[c]] # "RUNNING"
         => mode[c] = "sched" /\ lock = c

(* No CPU executes on a kernel stack that wait() or fork() has given back  *)
(* to kalloc, and a process that can be scheduled has a stack.             *)
StackLive ==
  /\ \A c \in CPU : cur[c] # NoProc => kstack[cur[c]]
  /\ \A p \in Slot : Alive(p) \/ state[p] = "ZOMBIE" => kstack[p]

(* The panics of sched(): it is reached with ptable.lock held by this CPU, *)
(* no other lock, and a state other than RUNNING; and no zombie comes back *)
(* from swtch() ("zombie exit").  Its look at FL_IF (proc.c:377) follows:  *)
(* interrupts are off while a lock is held (Masked of Spinlock).           *)
SchedOK ==
  \A c \in CPU :
    /\ mode[c] = "sched" => /\ lock = c
                            /\ tickslock # cur[c]
                            /\ state[cur[c]] # "RUNNING"
    /\ mode[c] = "resume" => ctx[cur[c]] # "none"

(* Somebody alive will wait for each process: the parent of a live or      *)
(* zombie process is a live process, through fork() without the lock,      *)
(* exit() of the parent and reuse of slots.                                *)
ParentLive ==
  \A p \in Slot \ {initproc} :
    Alive(p) \/ state[p] = "ZOMBIE"
      => parent[p] # NoProc /\ Alive(parent[p])

(* No lost wakeup in wait(): a process asleep in wait() has a child to     *)
(* wait for, none of its children is a zombie and it has not been killed,  *)
(* whatever exit() and kill() on other CPUs did meanwhile.                 *)
WaitSound ==
  \A p \in Slot :
    state[p] = "SLEEPING" /\ chan[p] = p
      => Children(p) # {} /\ Zombies(p) = {} /\ ~ killed[p]

(* A failed fork() leaves nothing behind: a slot is out of use exactly     *)
(* while no fork is filling it, has no stack and no parent.                *)
NoLeak ==
  \A q \in Slot :
    /\ state[q] = "EMBRYO" <=> \E p \in Slot : np[p] = q
    /\ state[q] = "UNUSED" => ~ kstack[q] /\ parent[q] = NoProc

(* A zombie that its parent left behind is reaped by init. *)
OrphansReaped ==
  \A p \in Slot :
    state[p] = "ZOMBIE" /\ parent[p] = initproc ~> state[p] = "UNUSED"

(* kill() is not lost on wait(), sys_sleep(), fork() or a program that     *)
(* never enters the kernel: a killed process exits.                        *)
KilledExits ==
  \A p \in Slot :
    killed[p] /\ Alive(p) ~> state[p] \in {"ZOMBIE", "UNUSED"}

(* The scheduler's loop starves no one. *)
RunnableRuns ==
  \A p \in Slot : state[p] = "RUNNABLE" ~> state[p] = "RUNNING"
================================================================================
