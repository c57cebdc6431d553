------------------------------- MODULE ProcProofs -------------------------------
(***************************************************************************)
(* Proofs about Proc: scheduler(), sched(), fork(), exit(), wait(), kill() *)
(* and sys_sleep() preserve an inductive invariant, and the invariants of  *)
(* Proc hold for any CPUs, any size of the process table and any programs. *)
(***************************************************************************)
EXTENDS Proc, TLAPS


(***************************************************************************)
(* The inductive invariant.                                                *)
(***************************************************************************)
Fork == {"fork_kstack", "fork_copy", "fork_run"}
Label == {"user", "exit", "tick_check", "tick_sleep", "tick_acquire"} \cup Fork

TypeInv ==
  /\ state \in [Slot -> {"UNUSED", "EMBRYO", "SLEEPING", "RUNNABLE", "RUNNING", "ZOMBIE"}]
  /\ pid \in [Slot -> Nat]
  /\ parent \in [Slot -> Slot \cup {NoProc}]
  /\ chan \in [Slot -> Slot \cup {Ticks, NoChan}]
  /\ killed \in [Slot -> BOOLEAN]
  /\ kstack \in [Slot -> BOOLEAN]
  /\ nextpid \in Nat /\ nextpid > 1
  /\ lock \in CPU \cup {NoCPU}
  /\ mode \in [CPU -> {"idle", "scan", "resume", "run", "sched"}]
  /\ cur \in [CPU -> Slot \cup {NoProc}]
  /\ pos \in [CPU -> Nat]
  /\ pc \in [Slot -> Label]
  /\ ctx \in [Slot -> {"none", "forkret", "yield", "wait", "ticks"}]
  /\ np \in [Slot -> Slot \cup {NoProc}]
  /\ tickslock \in Slot \cup {NoProc}
  /\ due \in [Slot -> BOOLEAN]

(* The CPU that holds ptable.lock is in the scheduler's loop or on either  *)
(* side of a switch; a CPU is on a process's stack in every other mode but *)
(* "idle" and "scan", and the state of the process fits.                   *)
CpuInv ==
  /\ \A c \in CPU : lock = c <=> mode[c] \in {"scan", "resume", "sched"}
  /\ \A c \in CPU : cur[c] = NoProc <=> mode[c] \in {"idle", "scan"}
  /\ \A c, d \in CPU : cur[c] # NoProc /\ cur[c] = cur[d] => c = d
  /\ \A p \in Slot : state[p] = "RUNNING" => \E c \in CPU : cur[c] = p
  /\ \A c \in CPU : mode[c] \in {"resume", "run"} => state[cur[c]] = "RUNNING"
  /\ \A c \in CPU : mode[c] = "sched" => state[cur[c]] \in {"SLEEPING", "RUNNABLE", "ZOMBIE"}

(* A process has a context to return to exactly while it is switched out,  *)
(* and then it does not hold tickslock; a process that is not alive is     *)
(* past exit().                                                            *)
CtxInv ==
  /\ \A p \in Slot : state[p] \in {"SLEEPING", "RUNNABLE"} => ctx[p] # "none"
  /\ \A c \in CPU : mode[c] = "resume" => ctx[cur[c]] # "none"
  /\ \A c \in CPU : mode[c] = "run" => ctx[cur[c]] = "none"
  /\ \A p \in Slot : tickslock = p => state[p] = "RUNNING" /\ ctx[p] = "none"
  /\ \A p \in Slot : tickslock = p <=> pc[p] \in {"tick_check", "tick_sleep"}
  /\ \A p \in Slot : ~ Alive(p) => pc[p] = "exit"

(* A slot in use has a stack, one out of use has none and no parent, and   *)
(* the others are being filled by one fork() each.                         *)
SlotInv ==
  /\ \A p \in Slot : Alive(p) \/ state[p] = "ZOMBIE" => kstack[p]
  /\ \A q \in Slot : state[q] = "UNUSED" => ~ kstack[q] /\ parent[q] = NoProc
  /\ \A q \in Slot : state[q] = "EMBRYO" => \E p \in Slot : np[p] = q
  /\ \A p \in Slot : np[p] # NoProc => state[np[p]] = "EMBRYO"
  /\ \A p, q \in Slot : np[p] # NoProc /\ np[p] = np[q] => p = q

(* What fork() has filled in. *)
ForkInv ==
  /\ \A p \in Slot : np[p] # NoProc <=> pc[p] \in Fork
  /\ \A p \in Slot : pc[p] = "fork_kstack" => ~ kstack[np[p]]
  /\ \A p \in Slot : pc[p] \in {"fork_copy", "fork_run"} => kstack[np[p]]
  /\ \A p \in Slot : pc[p] \in {"fork_kstack", "fork_copy"} => parent[np[p]] = NoProc
  /\ \A p \in Slot : pc[p] = "fork_run" => parent[np[p]] = p

(* Init lives for ever: kill() does not reach it and it never exits.  It   *)
(* has no parent, and nobody is its own.                                   *)
InitInv ==
  /\ Alive(initproc) /\ pid[initproc] = 1
  /\ ~ killed[initproc] /\ pc[initproc] # "exit"
  /\ parent[initproc] = NoProc
  /\ \A p \in Slot : parent[p] # p

(* WaitSound, slot by slot. *)
WaitInv ==
  \A p \in Slot :
    state[p] = "SLEEPING" /\ chan[p] = p
      => /\ \E q \in Slot : parent[q] = p
         /\ \A q \in Slot : parent[q] = p => state[q] # "ZOMBIE"
         /\ ~ killed[p]

IInv ==
  TypeInv /\ CpuInv /\ CtxInv /\ SlotInv /\ ForkInv /\ InitInv /\ ParentLive /\ WaitInv


--------------------------------------------------------------------------------
(* What ProcAssumption says of the constants. *)
LEMMA Constants ==
  /\ initproc \in Slot /\ NoProc \notin Slot /\ NoCPU \notin CPU
  /\ Ticks \notin Slot /\ NoChan \notin Slot /\ NoChan # Ticks
  /\ \A p \in Slot : p \in Nat
  BY ProcAssumption DEF Slot, initproc

(* The state after userinit() satisfies the invariant. *)
LEMMA InitIInv == Init => IInv
<1> SUFFICES ASSUME Init PROVE IInv
  BY Zenon
<1> USE Constants DEF Init
<1>1. TypeInv
  BY DEF TypeInv, Label
<1>2. CpuInv
  BY Zenon DEF CpuInv
<1>3. CtxInv
  BY Zenon DEF CtxInv, Alive
<1>4. SlotInv
  BY ZenonT(60) DEF SlotInv, Alive
<1>5. ForkInv
  BY Zenon DEF ForkInv, Fork
<1>6. InitInv
  BY Zenon DEF InitInv, Alive
<1>7. ParentLive
  BY Zenon DEF ParentLive, Alive
<1>8. WaitInv
  BY Zenon DEF WaitInv
<1> QED
  BY <1>1, <1>2, <1>3, <1>4, <1>5, <1>6, <1>7, <1>8, Zenon DEF IInv

(* What each part of the invariant is about: a step that leaves it alone   *)
(* preserves the part.                                                     *)
Framed ==
  /\ UNCHANGED <<lock, mode, cur, state>> => CpuInv'
  /\ UNCHANGED <<state, ctx, mode, cur, tickslock, pc>> => CtxInv'
  /\ UNCHANGED <<state, kstack, parent, np>> => SlotInv'
  /\ UNCHANGED <<kstack, parent, pc, np>> => ForkInv'
  /\ UNCHANGED <<state, pid, killed, pc, parent>> => InitInv'
  /\ UNCHANGED <<state, parent>> => ParentLive'
  /\ UNCHANGED <<state, chan, parent, killed>> => WaitInv'

(* A part of the invariant stays true while its variables do not change. *)
LEMMA Frame == IInv => Framed
<1> SUFFICES ASSUME TypeInv, CpuInv, CtxInv, SlotInv, ForkInv, InitInv, ParentLive, WaitInv
             PROVE  Framed
  BY Zenon DEF IInv
<1>1. UNCHANGED <<lock, mode, cur, state>> => CpuInv'
  BY DEF CpuInv
<1>2. UNCHANGED <<state, ctx, mode, cur, tickslock, pc>> => CtxInv'
  BY DEF CtxInv, Alive
<1>3. UNCHANGED <<state, kstack, parent, np>> => SlotInv'
  BY DEF SlotInv, Alive
<1>4. UNCHANGED <<kstack, parent, pc, np>> => ForkInv'
  BY Zenon DEF ForkInv
<1>5. UNCHANGED <<state, pid, killed, pc, parent>> => InitInv'
  BY Zenon DEF InitInv, Alive
<1>6. UNCHANGED <<state, parent>> => ParentLive'
  BY Zenon DEF ParentLive, Alive
<1>7. UNCHANGED <<state, chan, parent, killed>> => WaitInv'
  BY Zenon DEF WaitInv
<1> QED
  BY <1>1, <1>2, <1>3, <1>4, <1>5, <1>6, <1>7, Zenon DEF Framed

(* Who is asleep in wait() was so before the step, kept its children and   *)
(* got no zombie.                                                          *)
LEMMA StillAsleep ==
  ASSUME WaitInv,
         \A r \in Slot : state'[r] = "SLEEPING" /\ chan'[r] = r
           => /\ state[r] = "SLEEPING" /\ chan[r] = r
              /\ killed'[r] => killed[r]
              /\ \A w \in Slot : parent[w] = r => parent'[w] = r
              /\ \A w \in Slot : parent'[w] = r => parent[w] = r \/ state'[w] # "ZOMBIE"
              /\ \A w \in Slot : state'[w] = "ZOMBIE" => state[w] = "ZOMBIE"
  PROVE  WaitInv'
  BY DEF WaitInv

(* The state of a process that is on a CPU, and who else is on one. *)
LEMMA OnFacts ==
  ASSUME IInv, NEW c \in CPU, NEW p \in Slot, On(c, p)
  PROVE  /\ cur[c] = p /\ mode[c] = "run" /\ state[p] = "RUNNING" /\ ctx[p] = "none"
         /\ p # NoProc /\ lock # c
         /\ \A d \in CPU : cur[d] = p => d = c
  BY Constants DEF IInv, CpuInv, CtxInv, On

(* While nobody holds ptable.lock, nobody is between two stacks. *)
LEMMA FreeFacts ==
  ASSUME IInv, Free
  PROVE  \A c \in CPU : mode[c] \in {"idle", "run"}
  BY Constants DEF IInv, TypeInv, CpuInv, Free

(* scheduler() acquires ptable.lock. *)
LEMMA SchedulerStartIInv ==
  ASSUME IInv, NEW c \in CPU, SchedulerStart(c)
  PROVE  IInv'
<1>0. TypeInv /\ CpuInv /\ CtxInv /\ Framed
  BY Frame, Zenon DEF IInv
<1>a. /\ mode[c] = "idle" /\ \A d \in CPU : mode[d] \in {"idle", "run"}
      /\ lock' = c /\ mode' = [mode EXCEPT ![c] = "scan"]
      /\ UNCHANGED <<state, pid, parent, chan, killed, kstack, nextpid, cur, pos, pc, ctx, np,
                     tickslock, due>>
  BY FreeFacts, Zenon DEF SchedulerStart, table, locals, clock
<1>1. TypeInv'
  BY <1>0, <1>a, Zenon DEF TypeInv
<1>2. CpuInv'
  BY <1>0, <1>a, Constants DEF TypeInv, CpuInv
<1>3. CtxInv'
  BY <1>0, <1>a DEF TypeInv, CtxInv, Alive
<1> QED
  BY <1>0, <1>1, <1>2, <1>3, <1>a, Zenon DEF IInv, Framed

(* scheduler() switches to a process. *)
LEMMA SchedulerPickIInv ==
  ASSUME IInv, NEW c \in CPU, SchedulerPick(c)
  PROVE  IInv'
<1>0. TypeInv /\ CpuInv /\ CtxInv /\ SlotInv /\ InitInv /\ ParentLive /\ WaitInv /\ Framed
  BY Frame, Zenon DEF IInv
<1>a. PICK p \in Slot :
        /\ mode[c] = "scan" /\ state[p] = "RUNNABLE"
        /\ cur' = [cur EXCEPT ![c] = p]
        /\ state' = [state EXCEPT ![p] = "RUNNING"]
        /\ pos' = [pos EXCEPT ![c] = 1]
        /\ mode' = [mode EXCEPT ![c] = "resume"]
        /\ UNCHANGED <<pid, parent, chan, killed, kstack, nextpid, lock, pc, ctx, np, tickslock, due>>
  BY Zenon DEF SchedulerPick, First, Candidates, locals, clock
<1>b. lock = c /\ \A d \in CPU : cur[d] # p
  BY <1>0, <1>a, Constants DEF TypeInv, CpuInv
<1>1. TypeInv'
  BY <1>0, <1>a, Zenon DEF TypeInv
<1>2. CpuInv'
  BY <1>0, <1>a, <1>b, Constants DEF TypeInv, CpuInv
<1>3. CtxInv'
  BY <1>0, <1>a, <1>b DEF TypeInv, CtxInv, Alive
<1>4. SlotInv'
  BY <1>0, <1>a DEF TypeInv, SlotInv, Alive
<1>5. InitInv'
  BY <1>0, <1>a, Constants, Zenon DEF TypeInv, InitInv, Alive
<1>6. ParentLive'
  BY <1>0, <1>a DEF TypeInv, ParentLive, Alive
<1>7. WaitInv'
  BY <1>0, <1>a DEF TypeInv, WaitInv
<1> QED
  BY <1>0, <1>1, <1>2, <1>3, <1>4, <1>5, <1>6, <1>7, <1>a, Zenon DEF IInv, Framed

(* scheduler() has been through the table and releases ptable.lock. *)
LEMMA SchedulerEndIInv ==
  ASSUME IInv, NEW c \in CPU, SchedulerEnd(c)
  PROVE  IInv'
<1>0. TypeInv /\ CpuInv /\ CtxInv /\ Framed
  BY Frame, Zenon DEF IInv
<1>a. /\ mode[c] = "scan"
      /\ lock' = NoCPU /\ mode' = [mode EXCEPT ![c] = "idle"] /\ pos' = [pos EXCEPT ![c] = 1]
      /\ UNCHANGED <<state, pid, parent, chan, killed, kstack, nextpid, cur, pc, ctx, np,
                     tickslock, due>>
  BY Zenon DEF SchedulerEnd, table, locals, clock
<1>1. TypeInv'
  BY <1>0, <1>a, Zenon DEF TypeInv
<1>2. CpuInv'
  BY <1>0, <1>a, Constants DEF TypeInv, CpuInv
<1>3. CtxInv'
  BY <1>0, <1>a DEF TypeInv, CtxInv, Alive
<1> QED
  BY <1>0, <1>1, <1>2, <1>3, <1>a, Zenon DEF IInv, Framed

(* sched() switches to the scheduler, with ptable.lock. *)
LEMMA SwtchOutIInv ==
  ASSUME IInv, NEW c \in CPU, SwtchOut(c)
  PROVE  IInv'
<1>0. TypeInv /\ CpuInv /\ CtxInv /\ Framed
  BY Frame, Zenon DEF IInv
<1>a. /\ mode[c] = "sched"
      /\ mode' = [mode EXCEPT ![c] = "scan"]
      /\ pos' = [pos EXCEPT ![c] = cur[c] + 1]
      /\ cur' = [cur EXCEPT ![c] = NoProc]
      /\ UNCHANGED <<state, pid, parent, chan, killed, kstack, nextpid, lock, pc, ctx, np,
                     tickslock, due>>
  BY Zenon DEF SwtchOut, table, locals, clock
<1>b. cur[c] \in Slot /\ state[cur[c]] # "RUNNING"
  BY <1>0, <1>a, Constants DEF TypeInv, CpuInv
<1>1. TypeInv'
  BY <1>0, <1>a, <1>b, Constants DEF TypeInv
<1>2. CpuInv'
  BY <1>0, <1>a, <1>b, Constants DEF TypeInv, CpuInv
<1>3. CtxInv'
  BY <1>0, <1>a DEF TypeInv, CtxInv, Alive
<1> QED
  BY <1>0, <1>1, <1>2, <1>3, <1>a, Zenon DEF IInv, Framed

(* The process that scheduler() has switched to. *)
LEMMA ResumeFacts ==
  ASSUME IInv, NEW c \in CPU, mode[c] = "resume"
  PROVE  /\ cur[c] \in Slot /\ state[cur[c]] = "RUNNING" /\ lock = c
         /\ ctx[cur[c]] # "none" /\ tickslock # cur[c]
         /\ \A d \in CPU : cur[d] = cur[c] => d = c
         /\ \A d \in CPU \ {c} : mode[d] \in {"idle", "run"}
  BY Constants DEF IInv, TypeInv, CpuInv, CtxInv

(* A process is back from yield(), or in forkret(). *)
LEMMA ResumeIInv ==
  ASSUME IInv, NEW c \in CPU, Resume(c)
  PROVE  IInv'
<1>0. TypeInv /\ CpuInv /\ CtxInv /\ ForkInv /\ InitInv /\ Framed
  BY Frame, Zenon DEF IInv
<1>1. PICK p \in Slot : p = cur[c]
  BY ResumeFacts, Zenon DEF Resume
<1>2. /\ cur[c] = p /\ state[p] = "RUNNING" /\ lock = c /\ tickslock # p
      /\ \A d \in CPU : cur[d] = p => d = c
      /\ \A d \in CPU \ {c} : mode[d] \in {"idle", "run"}
  BY <1>1, ResumeFacts, Zenon DEF Resume
<1>a. /\ lock' = NoCPU /\ mode' = [mode EXCEPT ![c] = "run"]
      /\ ctx' = [ctx EXCEPT ![p] = "none"]
      /\ pc' = pc \/ (pc[p] = "user" /\ killed[p] = TRUE /\ pc' = [pc EXCEPT ![p] = "exit"])
      /\ UNCHANGED <<state, pid, parent, chan, killed, kstack, nextpid, cur, pos, np, tickslock, due>>
  BY <1>0, <1>1, Zenon DEF Resume, table, clock, TypeInv
<1>3. TypeInv'
  BY <1>0, <1>a, Zenon DEF TypeInv, Label
<1>4. CpuInv'
  BY <1>0, <1>2, <1>a, Constants DEF TypeInv, CpuInv
<1>5. CtxInv'
  BY <1>0, <1>2, <1>a DEF TypeInv, CtxInv, Alive
<1>6. ForkInv'
  BY <1>0, <1>a DEF TypeInv, ForkInv, Fork
<1>7. InitInv'
  BY <1>0, <1>a, Constants, Zenon DEF TypeInv, InitInv, Alive
<1> QED
  BY <1>0, <1>3, <1>4, <1>5, <1>6, <1>7, <1>a, Zenon DEF IInv, Framed

(* yield(): RUNNABLE again, and sched(). *)
LEMMA YieldIInv ==
  ASSUME IInv, NEW c \in CPU, NEW p \in Slot, Yield(c, p)
  PROVE  IInv'
<1>0. TypeInv /\ CpuInv /\ CtxInv /\ SlotInv /\ InitInv /\ ParentLive /\ WaitInv /\ Framed
  BY Frame, Zenon DEF IInv
<1>1. /\ state[p] = "RUNNING" /\ cur[c] = p /\ mode[c] = "run" /\ tickslock # p
      /\ \A d \in CPU : cur[d] = p => d = c
      /\ \A d \in CPU : mode[d] \in {"idle", "run"}
  BY OnFacts, FreeFacts, Zenon DEF Yield
<1>a. /\ state' = [state EXCEPT ![p] = "RUNNABLE"]
      /\ ctx' = [ctx EXCEPT ![p] = "yield"]
      /\ lock' = c /\ mode' = [mode EXCEPT ![c] = "sched"]
      /\ UNCHANGED <<pid, parent, chan, killed, kstack, nextpid, cur, pos, pc, np, tickslock, due>>
  BY Zenon DEF Yield, Sched, clock
<1>2. TypeInv'
  BY <1>0, <1>a, Zenon DEF TypeInv
<1>3. CpuInv'
  BY <1>0, <1>1, <1>a, Constants DEF TypeInv, CpuInv
<1>4. CtxInv'
  BY <1>0, <1>1, <1>a DEF TypeInv, CtxInv, Alive
<1>5. SlotInv'
  BY <1>0, <1>1, <1>a DEF TypeInv, SlotInv, Alive
<1>6. InitInv'
  BY <1>0, <1>1, <1>a, Constants, Zenon DEF TypeInv, InitInv, Alive
<1>7. ParentLive'
  BY <1>0, <1>1, <1>a DEF TypeInv, ParentLive, Alive
<1>8. WaitInv'
  BY <1>0, <1>1, <1>a DEF TypeInv, WaitInv
<1> QED
  BY <1>0, <1>2, <1>3, <1>4, <1>5, <1>6, <1>7, <1>8, <1>a, Zenon DEF IInv, Framed

--------------------------------------------------------------------------------
(* allocproc() takes a slot. *)
LEMMA ForkAllocIInv ==
  ASSUME IInv, NEW c \in CPU, NEW p \in Slot, ForkAlloc(c, p)
  PROVE  IInv'
<1>0. /\ TypeInv /\ CpuInv /\ CtxInv /\ SlotInv /\ ForkInv /\ InitInv /\ ParentLive /\ WaitInv
      /\ Framed
  BY Frame, Zenon DEF IInv
<1>a. PICK q \in Slot :
        /\ state[q] = "UNUSED"
        /\ state' = [state EXCEPT ![q] = "EMBRYO"]
        /\ pid' = [pid EXCEPT ![q] = nextpid]
        /\ np' = [np EXCEPT ![p] = q]
        /\ nextpid' = nextpid + 1
        /\ pc' = [pc EXCEPT ![p] = "fork_kstack"]
        /\ UNCHANGED <<parent, chan, killed, kstack, lock, mode, cur, pos, ctx, tickslock, due>>
  BY Zenon DEF ForkAlloc, First, Unused, Goto, cpus, clock
<1>b. pc[p] = "user" /\ state[p] = "RUNNING"
  BY OnFacts, Zenon DEF ForkAlloc
<1>c. /\ np[p] = NoProc /\ p # q /\ q # NoProc
      /\ q # initproc /\ ~ kstack[q] /\ parent[q] = NoProc
      /\ \A r \in Slot : np[r] # q
  BY <1>0, <1>a, <1>b, Constants DEF SlotInv, ForkInv, InitInv, Alive, Fork
<1>1. TypeInv'
  BY <1>0, <1>a DEF TypeInv, Label, Fork
<1>2. CpuInv'
  BY <1>0, <1>a, <1>c DEF TypeInv, CpuInv
<1>3. CtxInv'
  BY <1>0, <1>a, <1>b, <1>c, SMTT(60) DEF TypeInv, CtxInv, Alive
<1>4. SlotInv'
  <2>1. \A r \in Slot : state'[r] = IF r = q THEN "EMBRYO" ELSE state[r]
    BY <1>0, <1>a, Zenon DEF TypeInv
  <2>2. \A r \in Slot : np'[r] = IF r = p THEN q ELSE np[r]
    BY <1>0, <1>a, Zenon DEF TypeInv
  <2>3. \A r \in Slot : np[r] # NoProc => np[r] \in Slot
    BY <1>0, Zenon DEF TypeInv
  <2>4. \A r \in Slot : state'[r] = "EMBRYO" => \E w \in Slot : np'[w] = r
    <3> TAKE r \in Slot
    <3> HAVE state'[r] = "EMBRYO"
    <3>1. CASE r = q
      BY <3>1, <2>2, Zenon
    <3>2. CASE r # q
      <4>1. PICK w \in Slot : np[w] = r
        BY <1>0, <3>2, <2>1, Zenon DEF SlotInv
      <4> QED
        BY <4>1, <2>2, <1>c, Constants, Zenon
    <3> QED
      BY <3>1, <3>2, Zenon
  <2>5. \A r \in Slot : np'[r] # NoProc => state'[np'[r]] = "EMBRYO"
    BY <1>0, <1>a, <1>c, <2>1, <2>2, <2>3, SMTT(60) DEF SlotInv
  <2>6. \A r, w \in Slot : np'[r] # NoProc /\ np'[r] = np'[w] => r = w
    BY <1>0, <1>c, <2>2 DEF SlotInv
  <2> QED
    BY <1>0, <1>a, <1>c, <2>1, <2>4, <2>5, <2>6 DEF SlotInv, Alive
<1>5. ForkInv'
  BY <1>0, <1>a, <1>b, <1>c DEF TypeInv, ForkInv, Fork
<1>6. InitInv'
  BY <1>0, <1>a, <1>c, Constants, Zenon DEF TypeInv, InitInv, Alive
<1>7. ParentLive'
  BY <1>0, <1>a, <1>c DEF TypeInv, ParentLive, Alive
<1>8. WaitInv'
  BY <1>0, <1>a, <1>c DEF TypeInv, WaitInv
<1> QED
  BY <1>1, <1>2, <1>3, <1>4, <1>5, <1>6, <1>7, <1>8, Zenon DEF IInv

(* The slot that a fork in progress is filling. *)
LEMMA ForkFacts ==
  ASSUME IInv, NEW p \in Slot, pc[p] \in Fork
  PROVE  /\ np[p] \in Slot /\ state[np[p]] = "EMBRYO" /\ np[p] # p /\ np[p] # initproc
         /\ np[p] # NoProc /\ pc[np[p]] = "exit" /\ tickslock # p /\ tickslock # np[p]
         /\ state[p] \in {"SLEEPING", "RUNNABLE", "RUNNING"} /\ p # NoProc
         /\ \A c \in CPU : cur[c] # np[p]
         /\ \A r \in Slot \ {p} : np[r] # np[p]
<1>0. TypeInv /\ CpuInv /\ CtxInv /\ SlotInv /\ ForkInv /\ InitInv
  BY Zenon DEF IInv
<1>1. /\ np[p] \in Slot /\ np[p] # NoProc /\ state[np[p]] = "EMBRYO"
      /\ \A r \in Slot \ {p} : np[r] # np[p]
  BY <1>0, Constants DEF TypeInv, SlotInv, ForkInv
<1>2. pc[np[p]] = "exit" /\ tickslock # np[p] /\ np[p] # p /\ np[p] # initproc
  BY <1>0, <1>1, Zenon DEF CtxInv, InitInv, Alive, Fork
<1>3. state[p] \in {"SLEEPING", "RUNNABLE", "RUNNING"} /\ tickslock # p /\ p # NoProc
  BY <1>0, Constants, Zenon DEF CtxInv, Alive, Fork
<1>4. \A c \in CPU : cur[c] # np[p]
  BY <1>0, <1>1 DEF TypeInv, CpuInv
<1> QED
  BY <1>1, <1>2, <1>3, <1>4, Zenon

(* fork() gives back the slot, and the stack if it has one. *)
GiveBack(p) ==
  /\ state' = [state EXCEPT ![np[p]] = "UNUSED"]
  /\ kstack' = [kstack EXCEPT ![np[p]] = FALSE]
  /\ np' = [np EXCEPT ![p] = NoProc]
  /\ pc' = [pc EXCEPT ![p] = "user"]
  /\ UNCHANGED <<pid, parent, chan, killed, nextpid, lock, mode, cur, pos, ctx, tickslock, due>>

(* A fork() that fails gives its slot back. *)
LEMMA GiveBackIInv ==
  ASSUME IInv, NEW p \in Slot, pc[p] \in Fork, parent[np[p]] = NoProc, GiveBack(p)
  PROVE  IInv'
<1>0. /\ TypeInv /\ CpuInv /\ CtxInv /\ SlotInv /\ ForkInv /\ InitInv /\ ParentLive /\ WaitInv
  BY Zenon DEF IInv
<1>1. PICK q \in Slot : q = np[p]
  BY ForkFacts, Zenon
<1>2. /\ np[p] = q /\ state[q] = "EMBRYO" /\ q # p /\ q # initproc /\ q # NoProc
      /\ pc[q] = "exit" /\ tickslock # p /\ tickslock # q /\ parent[q] = NoProc
      /\ state[p] \in {"SLEEPING", "RUNNABLE", "RUNNING"}
      /\ (\A d \in CPU : cur[d] # q) /\ (\A r \in Slot \ {p} : np[r] # q)
  BY <1>1, ForkFacts, Zenon
<1>a. /\ state' = [state EXCEPT ![q] = "UNUSED"]
      /\ kstack' = [kstack EXCEPT ![q] = FALSE]
      /\ np' = [np EXCEPT ![p] = NoProc]
      /\ pc' = [pc EXCEPT ![p] = "user"]
      /\ UNCHANGED <<pid, parent, chan, killed, nextpid, lock, mode, cur, pos, ctx, tickslock, due>>
  BY <1>1, Zenon DEF GiveBack
<1>3. TypeInv'
  BY <1>0, <1>a, Zenon DEF TypeInv, Label
<1>4. CpuInv'
  BY <1>0, <1>2, <1>a DEF TypeInv, CpuInv
<1>5. CtxInv'
  BY <1>0, <1>2, <1>a DEF TypeInv, CtxInv, Alive
<1>6. SlotInv'
  BY <1>0, <1>2, <1>a DEF TypeInv, SlotInv, Alive
<1>7. ForkInv'
  BY <1>0, <1>2, <1>a DEF TypeInv, ForkInv, Fork
<1>8. InitInv'
  BY <1>0, <1>2, <1>a, Constants, Zenon DEF TypeInv, InitInv, Alive
<1>9. ParentLive'
  BY <1>0, <1>2, <1>a DEF TypeInv, ParentLive, Alive
<1>10. WaitInv'
  BY <1>0, <1>2, <1>a DEF TypeInv, WaitInv
<1> QED
  BY <1>3, <1>4, <1>5, <1>6, <1>7, <1>8, <1>9, <1>10, Zenon DEF IInv

(* allocproc()'s kalloc() of the stack, which may fail. *)
LEMMA ForkKstackIInv ==
  ASSUME IInv, NEW c \in CPU, NEW p \in Slot, ForkKstack(c, p)
  PROVE  IInv'
<1>0. TypeInv /\ CtxInv /\ SlotInv /\ ForkInv /\ InitInv /\ Framed
  BY Frame, Zenon DEF IInv
<1>a. pc[p] = "fork_kstack"
  BY ZenonT(60) DEF ForkKstack
<1>1. pc[p] = "fork_kstack" /\ ~ kstack[np[p]] /\ parent[np[p]] = NoProc
  BY <1>0, <1>a, ZenonT(60) DEF ForkInv
<1>2. PICK q \in Slot : q = np[p]
  BY <1>1, ForkFacts, Zenon DEF Fork
<1>3. /\ state[q] = "EMBRYO" /\ q # p /\ q # NoProc /\ tickslock # p
      /\ state[p] \in {"SLEEPING", "RUNNABLE", "RUNNING"}
      /\ \A r \in Slot \ {p} : np[r] # q
  BY <1>1, <1>2, ForkFacts, Zenon DEF Fork
<1>4. ASSUME kstack' = [kstack EXCEPT ![q] = TRUE],
             pc' = [pc EXCEPT ![p] = "fork_copy"],
             UNCHANGED <<state, np, pid, parent, chan, killed, nextpid, lock, mode, cur, pos, ctx,
                         tickslock, due>>
      PROVE  IInv'
  <2>1. TypeInv'
    BY <1>0, <1>4, Zenon DEF TypeInv, Label, Fork
  <2>2. CtxInv'
    BY <1>0, <1>1, <1>3, <1>4 DEF TypeInv, CtxInv, Alive
  <2>3. SlotInv'
    BY <1>0, <1>3, <1>4 DEF TypeInv, SlotInv, Alive
  <2>4. ForkInv'
    BY <1>0, <1>1, <1>2, <1>3, <1>4 DEF TypeInv, ForkInv, Fork
  <2>5. InitInv'
    BY <1>0, <1>4, Constants, Zenon DEF TypeInv, InitInv, Alive
  <2> QED
    BY <1>0, <1>4, <2>1, <2>2, <2>3, <2>4, <2>5, Zenon DEF IInv, Framed
<1>5. ASSUME state' = [state EXCEPT ![q] = "UNUSED"],
             np' = [np EXCEPT ![p] = NoProc],
             pc' = [pc EXCEPT ![p] = "user"],
             UNCHANGED <<kstack, pid, parent, chan, killed, nextpid, lock, mode, cur, pos, ctx,
                         tickslock, due>>
      PROVE  IInv'
  <2>1. kstack' = [kstack EXCEPT ![q] = FALSE]
    BY <1>0, <1>1, <1>2, <1>5, Zenon DEF TypeInv
  <2>2. GiveBack(p)
    BY <1>2, <1>5, <2>1, ZenonT(60) DEF GiveBack
  <2> QED
    BY <1>1, <2>2, GiveBackIInv, Zenon DEF Fork
<1> QED
  BY <1>2, <1>4, <1>5, Zenon DEF ForkKstack, Goto, cpus, clock

(* copyuvm(), which may fail, and np->parent. *)
LEMMA ForkCopyIInv ==
  ASSUME IInv, NEW c \in CPU, NEW p \in Slot, ForkCopy(c, p)
  PROVE  IInv'
<1>0. TypeInv /\ CtxInv /\ SlotInv /\ ForkInv /\ InitInv /\ ParentLive /\ WaitInv /\ Framed
  BY Frame, Zenon DEF IInv
<1>1. pc[p] = "fork_copy" /\ kstack[np[p]] /\ parent[np[p]] = NoProc
  BY <1>0, Zenon DEF ForkCopy, ForkInv
<1>2. PICK q \in Slot : q = np[p]
  BY <1>1, ForkFacts, Zenon DEF Fork
<1>3. /\ state[q] = "EMBRYO" /\ q # p /\ q # NoProc /\ q # initproc /\ tickslock # p /\ p # NoProc
      /\ state[p] \in {"SLEEPING", "RUNNABLE", "RUNNING"}
      /\ \A r \in Slot \ {p} : np[r] # q
  BY <1>1, <1>2, ForkFacts, Zenon DEF Fork
<1>4. ASSUME parent' = [parent EXCEPT ![q] = p],
             pc' = [pc EXCEPT ![p] = "fork_run"],
             UNCHANGED <<state, kstack, np, pid, chan, killed, nextpid, lock, mode, cur, pos, ctx,
                         tickslock, due>>
      PROVE  IInv'
  <2>1. TypeInv'
    BY <1>0, <1>4, Zenon DEF TypeInv, Label, Fork
  <2>2. CtxInv'
    BY <1>0, <1>1, <1>3, <1>4 DEF TypeInv, CtxInv, Alive
  <2>3. SlotInv'
    BY <1>0, <1>3, <1>4 DEF TypeInv, SlotInv, Alive
  <2>4. ForkInv'
    BY <1>0, <1>1, <1>2, <1>3, <1>4 DEF TypeInv, ForkInv, Fork
  <2>5. InitInv'
    BY <1>0, <1>3, <1>4, Constants DEF TypeInv, InitInv, Alive
  <2>6. ParentLive'
    BY <1>0, <1>3, <1>4, Zenon DEF TypeInv, ParentLive, Alive
  <2>7. WaitInv'
    <3>1. \A r \in Slot : parent'[r] = IF r = q THEN p ELSE parent[r]
      BY <1>0, <1>4, Zenon DEF TypeInv
    <3>2. \A r, w \in Slot : parent[w] = r => parent'[w] = r
      BY <1>1, <1>2, <3>1, Constants, Zenon
    <3>3. \A r, w \in Slot : parent'[w] = r /\ parent[w] # r => state'[w] # "ZOMBIE"
      BY <1>3, <1>4, <3>1, Zenon
    <3> QED
      BY <1>0, <1>4, <3>2, <3>3, StillAsleep, ZenonT(60)
  <2> QED
    BY <1>0, <1>4, <2>1, <2>2, <2>3, <2>4, <2>5, <2>6, <2>7, Zenon DEF IInv, Framed
<1>5. ASSUME GiveBack(p) PROVE IInv'
  BY <1>1, <1>5, GiveBackIInv, Zenon DEF Fork
<1> QED
  BY <1>2, <1>4, <1>5, Zenon DEF ForkCopy, Goto, cpus, clock, GiveBack

(* The child becomes RUNNABLE. *)
LEMMA ForkRunIInv ==
  ASSUME IInv, NEW c \in CPU, NEW p \in Slot, ForkRun(c, p)
  PROVE  IInv'
<1>0. /\ TypeInv /\ CpuInv /\ CtxInv /\ SlotInv /\ ForkInv /\ InitInv /\ ParentLive /\ WaitInv
  BY Zenon DEF IInv
<1>1. pc[p] = "fork_run" /\ kstack[np[p]] /\ parent[np[p]] = p
  BY <1>0, Zenon DEF ForkRun, ForkInv
<1>2. PICK q \in Slot : q = np[p]
  BY <1>1, ForkFacts, Zenon DEF Fork
<1>3. /\ np[p] = q /\ state[q] = "EMBRYO" /\ q # p /\ q # NoProc /\ q # initproc /\ p # NoProc
      /\ pc[q] = "exit" /\ tickslock # p /\ tickslock # q
      /\ state[p] \in {"SLEEPING", "RUNNABLE", "RUNNING"}
      /\ (\A d \in CPU : cur[d] # q) /\ (\A r \in Slot \ {p} : np[r] # q)
  BY <1>1, <1>2, ForkFacts DEF Fork
<1>a. /\ state' = [state EXCEPT ![q] = "RUNNABLE"]
      /\ ctx' = [ctx EXCEPT ![q] = "forkret"]
      /\ pc' = [pc EXCEPT ![p] = "user", ![q] = "user"]
      /\ np' = [np EXCEPT ![p] = NoProc]
      /\ UNCHANGED <<pid, parent, chan, killed, kstack, nextpid, lock, mode, cur, pos, tickslock, due>>
  BY <1>2, Zenon DEF ForkRun, cpus, clock
<1>4. TypeInv'
  BY <1>0, <1>a, Zenon DEF TypeInv, Label
<1>5. CpuInv'
  BY <1>0, <1>3, <1>a, SMTT(60) DEF TypeInv, CpuInv
<1>6. CtxInv'
  BY <1>0, <1>3, <1>a, SMTT(60) DEF TypeInv, CtxInv, CpuInv, Alive
<1>7. SlotInv'
  BY <1>0, <1>1, <1>3, <1>a DEF TypeInv, SlotInv, Alive
<1>8. ForkInv'
  BY <1>0, <1>3, <1>a DEF TypeInv, ForkInv, Fork
<1>9. InitInv'
  BY <1>0, <1>3, <1>a, Constants, Zenon DEF TypeInv, InitInv, Alive
<1>10. ParentLive'
  BY <1>0, <1>1, <1>3, <1>a DEF TypeInv, ParentLive, Alive
<1>11. WaitInv'
  BY <1>0, <1>3, <1>a DEF TypeInv, WaitInv
<1> QED
  BY <1>4, <1>5, <1>6, <1>7, <1>8, <1>9, <1>10, <1>11, Zenon DEF IInv

--------------------------------------------------------------------------------
(***************************************************************************)
(* exit(), wait(), kill(), sys_sleep() and the theorems.                   *)
(***************************************************************************)
(* exit() up to ptable.lock. *)
LEMMA ExitStartIInv ==
  ASSUME IInv, NEW c \in CPU, NEW p \in Slot, ExitStart(c, p)
  PROVE  IInv'
<1>i. TypeInv /\ CtxInv /\ ForkInv /\ InitInv /\ Framed
  BY Frame, Zenon DEF IInv
<1>a. /\ On(c, p) /\ pc[p] = "user" /\ p # initproc
      /\ pc' = [pc EXCEPT ![p] = "exit"]
      /\ UNCHANGED <<state, pid, parent, chan, killed, kstack, nextpid, lock, mode, cur, pos, ctx, np,
                     tickslock, due>>
  BY Zenon DEF ExitStart, Goto, table, cpus, clock
<1>b. state[p] = "RUNNING" /\ ctx[p] = "none"
  BY <1>a, OnFacts, Zenon
<1>1. TypeInv'
  BY <1>i, <1>a, Zenon DEF TypeInv, Label
<1>2. CtxInv'
  BY <1>i, <1>a, <1>b DEF TypeInv, CtxInv, Alive
<1>3. ForkInv'
  BY <1>i, <1>a DEF TypeInv, ForkInv, Fork
<1>4. InitInv'
  BY <1>i, <1>a, Constants, Zenon DEF TypeInv, InitInv, Alive
<1> QED
  BY <1>i, <1>1, <1>2, <1>3, <1>4, <1>a, Zenon DEF IInv, Framed

(* What the two wakeups of exit() do to the states of the others. *)
LEMMA ExitState ==
  ASSUME IInv, NEW c \in CPU, NEW p \in Slot, ExitLocked(c, p)
  PROVE  /\ state' \in [Slot -> {"UNUSED", "EMBRYO", "SLEEPING", "RUNNABLE", "RUNNING", "ZOMBIE"}]
         /\ state'[p] = "ZOMBIE"
         /\ \A r \in Slot \ {p} :
              \/ state'[r] = state[r]
              \/ state[r] = "SLEEPING" /\ state'[r] = "RUNNABLE"
         /\ \A r \in Slot \ {p} : state'[r] = "SLEEPING" => chan[r] # parent[p]
         /\ \A q \in Slot :
              parent[q] = p /\ state[q] = "ZOMBIE" /\ initproc # p
                => ~ (state'[initproc] = "SLEEPING" /\ chan[initproc] = initproc)
<1>i. TypeInv /\ Framed
  BY Frame, Zenon DEF IInv
<1> DEFINE st == Wakeup1(state, parent[p])
           st2 == WakeInit(p, st)
<1>1. /\ st \in [Slot -> {"UNUSED", "EMBRYO", "SLEEPING", "RUNNABLE", "RUNNING", "ZOMBIE"}]
      /\ \A r \in Slot : st[r] = IF state[r] = "SLEEPING" /\ chan[r] = parent[p]
                                 THEN "RUNNABLE" ELSE state[r]
  BY <1>i, Zenon DEF TypeInv, Wakeup1
<1>2. /\ Wakeup1(st, initproc) \in [Slot -> {"UNUSED", "EMBRYO", "SLEEPING", "RUNNABLE", "RUNNING", "ZOMBIE"}]
      /\ \A r \in Slot : Wakeup1(st, initproc)[r] =
           IF st[r] = "SLEEPING" /\ chan[r] = initproc THEN "RUNNABLE" ELSE st[r]
  BY <1>1, Zenon DEF Wakeup1
<1>3. /\ st2 \in [Slot -> {"UNUSED", "EMBRYO", "SLEEPING", "RUNNABLE", "RUNNING", "ZOMBIE"}]
      /\ st2 = st \/ st2 = Wakeup1(st, initproc)
      /\ (\E q \in Slot : parent[q] = p /\ st[q] = "ZOMBIE") => st2 = Wakeup1(st, initproc)
  BY <1>1, <1>2, Zenon DEF WakeInit
<1>4. state' = [st2 EXCEPT ![p] = "ZOMBIE"]
  BY Zenon DEF ExitLocked
<1> HIDE DEF st, st2
<1>5. \A r \in Slot : state'[r] = IF r = p THEN "ZOMBIE" ELSE st2[r]
  BY <1>3, <1>4, Zenon
<1>6. state' \in [Slot -> {"UNUSED", "EMBRYO", "SLEEPING", "RUNNABLE", "RUNNING", "ZOMBIE"}]
  BY <1>3, <1>4, Zenon
<1>7. \A r \in Slot :
        /\ st2[r] = state[r] \/ (state[r] = "SLEEPING" /\ st2[r] = "RUNNABLE")
        /\ st2[r] = "SLEEPING" => chan[r] # parent[p]
  BY <1>1, <1>2, <1>3, Zenon
<1>8. ASSUME NEW q \in Slot, parent[q] = p, state[q] = "ZOMBIE"
      PROVE  ~ (st2[initproc] = "SLEEPING" /\ chan[initproc] = initproc)
  <2>1. st[q] = "ZOMBIE"
    BY <1>1, <1>8, Zenon
  <2> QED
    BY <2>1, <1>2, <1>3, <1>8, Constants, Zenon
<1> QED
  BY <1>5, <1>6, <1>7, <1>8, Constants, Zenon

(* exit() hands its children to init, becomes a zombie and calls sched(). *)
LEMMA ExitLockedIInv ==
  ASSUME IInv, NEW c \in CPU, NEW p \in Slot, ExitLocked(c, p)
  PROVE  IInv'
<1>i. TypeInv /\ CpuInv /\ CtxInv /\ SlotInv /\ ForkInv /\ InitInv /\ ParentLive /\ WaitInv /\ Framed
  BY Frame, Zenon DEF IInv
<1>0. /\ state[p] = "RUNNING" /\ cur[c] = p /\ mode[c] = "run" /\ pc[p] = "exit"
      /\ p # initproc /\ tickslock # p /\ np[p] = NoProc
      /\ \A d \in CPU : cur[d] = p => d = c
      /\ \A d \in CPU : mode[d] \in {"idle", "run"}
  <2>1. On(c, p) /\ Free /\ pc[p] = "exit"
    BY Zenon DEF ExitLocked
  <2>2. /\ state[p] = "RUNNING" /\ cur[c] = p /\ mode[c] = "run"
        /\ \A d \in CPU : cur[d] = p => d = c
    BY <2>1, OnFacts, Zenon
  <2>3. \A d \in CPU : mode[d] \in {"idle", "run"}
    BY <2>1, FreeFacts, Zenon
  <2>4. tickslock # p
    BY <1>i, <2>1, Zenon DEF CtxInv
  <2>5. p # initproc
    BY <1>i, <2>1, Zenon DEF InitInv
  <2>6. np[p] = NoProc
    BY <1>i, <2>1, Zenon DEF ForkInv, Fork
  <2> QED
    BY <2>1, <2>2, <2>3, <2>4, <2>5, <2>6, Zenon
<1>a. \A r \in Slot : parent'[r] = IF parent[r] = p THEN initproc ELSE parent[r]
  BY ZenonT(60) DEF ExitLocked, Reparent
<1>b. /\ lock' = c /\ mode' = [mode EXCEPT ![c] = "sched"]
      /\ UNCHANGED <<cur, pos, pid, chan, killed, kstack, nextpid, pc, ctx, np, tickslock, due>>
  BY ZenonT(60) DEF ExitLocked, Sched, locals, clock
<1>c. /\ state'[p] = "ZOMBIE"
      /\ \A r \in Slot \ {p} :
           \/ state'[r] = state[r]
           \/ state[r] = "SLEEPING" /\ state'[r] = "RUNNABLE"
  BY ExitState, Zenon
<1>1. TypeInv'
  <2>1. parent' \in [Slot -> Slot \cup {NoProc}]
    BY <1>i, Constants, Zenon DEF TypeInv, ExitLocked, Reparent
  <2>2. state' \in [Slot -> {"UNUSED", "EMBRYO", "SLEEPING", "RUNNABLE", "RUNNING", "ZOMBIE"}]
    BY ExitState, Zenon
  <2> QED
    BY <1>i, <2>1, <2>2, <1>b, Zenon DEF TypeInv
<1>2. CpuInv'
  BY <1>i, <1>0, <1>b, <1>c, Constants DEF TypeInv, CpuInv
<1>3. CtxInv'
  BY <1>i, <1>0, <1>b, <1>c DEF TypeInv, CtxInv, Alive
<1>4. SlotInv'
  BY <1>i, <1>0, <1>a, <1>b, <1>c, Constants DEF TypeInv, SlotInv, Alive
<1>5. ForkInv'
  BY <1>i, <1>0, <1>a, <1>b, Constants DEF TypeInv, ForkInv, Fork
<1>6. InitInv'
  BY <1>i, <1>0, <1>a, <1>b, <1>c, Constants DEF TypeInv, InitInv, Alive
<1>7. ParentLive'
  BY <1>i, <1>0, <1>a, <1>c, Constants, SMTT(60) DEF TypeInv, ParentLive, InitInv, Alive
<1>8. WaitInv'
  <2> SUFFICES ASSUME NEW r \in Slot, state'[r] = "SLEEPING", chan[r] = r
               PROVE  /\ \E q \in Slot : parent'[q] = r
                      /\ \A q \in Slot : parent'[q] = r => state'[q] # "ZOMBIE"
                      /\ ~ killed[r]
    BY <1>b, Zenon DEF WaitInv
  <2>1. r # p /\ state[r] = "SLEEPING" /\ parent[p] # r
    <3>1. /\ state'[p] = "ZOMBIE"
          /\ r # p => \/ state'[r] = state[r]
                      \/ state[r] = "SLEEPING" /\ state'[r] = "RUNNABLE"
          /\ r # p /\ state'[r] = "SLEEPING" => chan[r] # parent[p]
      BY ExitState, Zenon
    <3> QED
      BY <3>1, Zenon
  <2>2. /\ \E q \in Slot : parent[q] = r
        /\ \A q \in Slot : parent[q] = r => state[q] # "ZOMBIE"
        /\ ~ killed[r]
    BY <1>i, <2>1, Zenon DEF WaitInv
  <2>3. \E q \in Slot : parent'[q] = r
    BY <2>1, <2>2, <1>a, Zenon
  <2>4. ASSUME NEW q \in Slot, parent'[q] = r
        PROVE  state'[q] # "ZOMBIE"
    <3>1. CASE parent[q] = r
      BY <3>1, <2>1, <2>2, <1>c, Zenon
    <3>2. CASE parent[q] = p /\ r = initproc
      <4>1. q # p
        BY <1>i, <3>2, Zenon DEF InitInv
      <4>2. state[q] # "ZOMBIE"
        BY <3>2, <1>0, ExitState
      <4> QED
        BY <4>1, <4>2, <1>c, Zenon
    <3> QED
      BY <3>1, <3>2, <2>4, <1>a, Zenon
  <2> QED
    BY <2>2, <2>3, <2>4, ZenonT(60)
<1> QED
  BY <1>1, <1>2, <1>3, <1>4, <1>5, <1>6, <1>7, <1>8, Zenon DEF IInv

--------------------------------------------------------------------------------
(* Process p on CPU c executes the loop of wait() with ptable.lock. *)
AtWait(c, p) ==
  /\ cur[c] = p /\ state[p] = "RUNNING" /\ tickslock # p
  /\ mode[c] \in {"run", "resume"}
  /\ \A d \in CPU : cur[d] = p => d = c
  /\ \A d \in CPU \ {c} : mode[d] \in {"idle", "run"}

(* wait() frees a zombie child. *)
LEMMA ReapIInv ==
  ASSUME IInv, NEW c \in CPU, NEW p \in Slot, AtWait(c, p), Reap(c, p),
         UNCHANGED <<nextpid, pc, np, clock>>
  PROVE  IInv'
<1>i. TypeInv /\ CpuInv /\ CtxInv /\ SlotInv /\ ForkInv /\ InitInv /\ ParentLive /\ WaitInv /\ Framed
  BY Frame, Zenon DEF IInv
<1>0. PICK q \in Slot :
        /\ parent[q] = p /\ state[q] = "ZOMBIE"
        /\ state' = [state EXCEPT ![q] = "UNUSED"]
        /\ pid' = [pid EXCEPT ![q] = 0]
        /\ parent' = [parent EXCEPT ![q] = NoProc]
        /\ killed' = [killed EXCEPT ![q] = FALSE]
        /\ kstack' = [kstack EXCEPT ![q] = FALSE]
  BY ZenonT(60) DEF Reap, First, Zombies, Children
<1>a. /\ chan' = [chan EXCEPT ![p] = NoChan]
      /\ lock' = NoCPU
      /\ mode' = [mode EXCEPT ![c] = "run"]
      /\ ctx' = [ctx EXCEPT ![p] = "none"]
      /\ UNCHANGED <<cur, pos, nextpid, pc, np, tickslock, due>>
  BY Zenon DEF Reap, clock
<1>b. /\ q # p /\ q # initproc /\ tickslock # q /\ np[q] = NoProc
      /\ (\A d \in CPU : cur[d] # q) /\ (\A r \in Slot : np[r] # q)
      /\ \A r \in Slot : state[r] # "EMBRYO" => parent[r] # q
  <2>1. q # p /\ q # initproc /\ tickslock # q /\ pc[q] = "exit"
    BY <1>i, <1>0, Zenon DEF AtWait, CtxInv, InitInv, Alive
  <2>2. np[q] = NoProc /\ \A r \in Slot : np[r] # q
    BY <1>i, <2>1, <1>0, Constants, SMTT(60) DEF SlotInv, ForkInv, Fork
  <2>3. \A d \in CPU : cur[d] # q
    BY <1>i, <2>1, <1>0, Constants DEF AtWait, TypeInv, CpuInv
  <2>4. ASSUME NEW r \in Slot, state[r] # "EMBRYO" PROVE parent[r] # q
    <3>1. CASE r = initproc \/ state[r] = "UNUSED"
      BY <1>i, <3>1, Constants DEF InitInv, SlotInv
    <3>2. CASE r # initproc /\ state[r] # "UNUSED"
      BY <1>i, <3>2, <2>4, <1>0, SMTT(60) DEF TypeInv, ParentLive, Alive
    <3> QED
      BY <3>1, <3>2, Zenon
  <2> QED
    BY <2>1, <2>2, <2>3, <2>4, Zenon
<1>1. TypeInv'
  BY <1>i, <1>0, <1>a, Zenon DEF TypeInv
<1>2. CpuInv'
  BY <1>i, <1>0, <1>a, <1>b, Constants, SMTT(60) DEF AtWait, TypeInv, CpuInv
<1>3. CtxInv'
  BY <1>i, <1>0, <1>a, <1>b, SMTT(60) DEF AtWait, TypeInv, CtxInv, CpuInv, Alive
<1>4. SlotInv'
  BY <1>i, <1>0, <1>a, <1>b, SMTT(60) DEF TypeInv, SlotInv, Alive
<1>5. ForkInv'
  BY <1>i, <1>0, <1>a, <1>b, SMTT(60) DEF TypeInv, ForkInv, Fork
<1>6. InitInv'
  BY <1>i, <1>0, <1>a, <1>b, Constants, Zenon DEF TypeInv, InitInv, Alive
<1>7. ParentLive'
  BY <1>i, <1>0, <1>a, <1>b, SMTT(60) DEF TypeInv, ParentLive, Alive
<1>8. WaitInv'
  <2>1. \A r \in Slot : state'[r] = "SLEEPING" /\ chan'[r] = r
                          => r # p /\ state[r] = "SLEEPING" /\ chan[r] = r
    BY <1>i, <1>0, <1>a, Constants, Zenon DEF TypeInv, AtWait
  <2>6. \A r \in Slot : killed'[r] => killed[r]
    BY <1>i, <1>0, Zenon DEF TypeInv
  <2>2. \A r \in Slot : parent'[r] = IF r = q THEN NoProc ELSE parent[r]
    BY <1>i, <1>0, Zenon DEF TypeInv
  <2>3. \A r \in Slot : state'[r] = IF r = q THEN "UNUSED" ELSE state[r]
    BY <1>i, <1>0, Zenon DEF TypeInv
  <2>4. \A r, w \in Slot : r # p /\ parent[w] = r => parent'[w] = r
    BY <1>0, <2>2, Zenon
  <2>5. \A r, w \in Slot : parent'[w] = r => parent[w] = r /\ w # q
    BY <2>2, Constants, Zenon
  <2> QED
    <3>1. ASSUME NEW r \in Slot, state'[r] = "SLEEPING" /\ chan'[r] = r
          PROVE  /\ state[r] = "SLEEPING" /\ chan[r] = r
                 /\ killed'[r] => killed[r]
                 /\ \A w \in Slot : parent[w] = r => parent'[w] = r
                 /\ \A w \in Slot : parent'[w] = r => parent[w] = r \/ state'[w] # "ZOMBIE"
                 /\ \A w \in Slot : state'[w] = "ZOMBIE" => state[w] = "ZOMBIE"
      <4>1. r # p /\ state[r] = "SLEEPING" /\ chan[r] = r
        BY <2>1, <3>1, Zenon
      <4>2. \A w \in Slot : state'[w] = "ZOMBIE" => state[w] = "ZOMBIE"
        BY <2>3, Zenon
      <4> QED
        BY <2>4, <2>5, <2>6, <4>1, <4>2, Zenon
    <3>2. WaitInv
      BY <1>i, Zenon
    <3> QED
      BY <3>1, <3>2, StillAsleep, Zenon
<1> QED
  BY <1>1, <1>2, <1>3, <1>4, <1>5, <1>6, <1>7, <1>8, Zenon DEF IInv

(* A process returns from sleep(), or does not go to sleep: chan = 0 and   *)
(* release(&ptable.lock).                                                  *)
LEMMA BackFromSleep ==
  ASSUME IInv, NEW c \in CPU, NEW p \in Slot, AtWait(c, p),
         chan' = [chan EXCEPT ![p] = NoChan],
         lock' = NoCPU,
         mode' = [mode EXCEPT ![c] = "run"],
         ctx' = [ctx EXCEPT ![p] = "none"],
         UNCHANGED <<state, pid, parent, killed, kstack, cur, pos, nextpid, pc, np, tickslock, due>>
  PROVE  IInv'
<1>i. TypeInv /\ CpuInv /\ CtxInv /\ SlotInv /\ ForkInv /\ InitInv /\ ParentLive /\ WaitInv /\ Framed
  BY Frame, Zenon DEF IInv
<1>1. TypeInv'
  BY <1>i, Zenon DEF TypeInv
<1>2. CpuInv'
  <2>1. \A d \in CPU : lock' = d <=> mode'[d] \in {"scan", "resume", "sched"}
    BY <1>i, Constants DEF AtWait, TypeInv, CpuInv
  <2>2. \A d \in CPU : cur'[d] = NoProc <=> mode'[d] \in {"idle", "scan"}
    BY <1>i, Constants DEF AtWait, TypeInv, CpuInv
  <2>3. \A d, e \in CPU : cur'[d] # NoProc /\ cur'[d] = cur'[e] => d = e
    BY <1>i, Zenon DEF CpuInv
  <2>4. \A q \in Slot : state'[q] = "RUNNING" => \E d \in CPU : cur'[d] = q
    BY <1>i, Constants DEF AtWait, TypeInv, CpuInv
  <2>5. \A d \in CPU : mode'[d] \in {"resume", "run"} => state'[cur'[d]] = "RUNNING"
    BY <1>i, Constants DEF AtWait, TypeInv, CpuInv
  <2>6. \A d \in CPU : mode'[d] = "sched" => state'[cur'[d]] \in {"SLEEPING", "RUNNABLE", "ZOMBIE"}
    BY <1>i, Constants DEF AtWait, TypeInv, CpuInv
  <2> QED
    BY <2>1, <2>2, <2>3, <2>4, <2>5, <2>6, Zenon DEF CpuInv
<1>3. CtxInv'
  BY <1>i, SMTT(60) DEF AtWait, TypeInv, CtxInv, CpuInv, Alive
<1>4. SlotInv'
  BY <1>i, ZenonT(60) DEF SlotInv, Alive
<1>5. ForkInv'
  BY <1>i, Zenon DEF ForkInv
<1>6. InitInv'
  BY <1>i, Zenon DEF InitInv, Alive
<1>7. ParentLive'
  BY <1>i, Zenon DEF ParentLive, Alive
<1>8. WaitInv'
  BY <1>i, Constants DEF TypeInv, WaitInv
<1> QED
  BY <1>1, <1>2, <1>3, <1>4, <1>5, <1>6, <1>7, <1>8, Zenon DEF IInv

(* wait() goes to sleep with a child and no zombie. *)
LEMMA SleepInWaitIInv ==
  ASSUME IInv, NEW c \in CPU, NEW p \in Slot, AtWait(c, p), SleepInWait(c, p),
         UNCHANGED <<nextpid, pc, np, clock>>
  PROVE  IInv'
<1>i. TypeInv /\ CpuInv /\ CtxInv /\ SlotInv /\ ForkInv /\ InitInv /\ ParentLive /\ WaitInv /\ Framed
  BY Frame, Zenon DEF IInv
<1>a. /\ chan' = [chan EXCEPT ![p] = p]
      /\ state' = [state EXCEPT ![p] = "SLEEPING"]
      /\ ctx' = [ctx EXCEPT ![p] = "wait"]
      /\ lock' = c
      /\ mode' = [mode EXCEPT ![c] = "sched"]
      /\ UNCHANGED <<pid, parent, killed, kstack, cur, pos, nextpid, pc, np, tickslock, due>>
  BY Zenon DEF SleepInWait, Sched, clock
<1>b. /\ \E q \in Slot : parent[q] = p
      /\ \A q \in Slot : parent[q] = p => state[q] # "ZOMBIE"
      /\ ~ killed[p]
  BY ZenonT(60) DEF SleepInWait, Zombies, Children
<1>1. TypeInv'
  BY <1>i, <1>a, Zenon DEF TypeInv
<1>2. CpuInv'
  BY <1>i, <1>a, Constants, SMTT(60) DEF AtWait, TypeInv, CpuInv
<1>3. CtxInv'
  BY <1>i, <1>a, SMTT(60) DEF AtWait, TypeInv, CtxInv, CpuInv, Alive
<1>4. SlotInv'
  BY <1>i, <1>a, SMTT(60) DEF AtWait, TypeInv, SlotInv, Alive
<1>5. ForkInv'
  BY <1>i, <1>a, ZenonT(60) DEF ForkInv
<1>6. InitInv'
  BY <1>i, <1>a, Constants, Zenon DEF TypeInv, InitInv, Alive
<1>7. ParentLive'
  BY <1>i, <1>a, SMTT(60) DEF AtWait, TypeInv, ParentLive, Alive
<1>8. WaitInv'
  BY <1>i, <1>a, <1>b, SMTT(60) DEF TypeInv, WaitInv
<1> QED
  BY <1>1, <1>2, <1>3, <1>4, <1>5, <1>6, <1>7, <1>8, Zenon DEF IInv

(* A call of wait(). *)
LEMMA WaitIInv ==
  ASSUME IInv, NEW c \in CPU, NEW p \in Slot, Wait(c, p)
  PROVE  IInv'
<1>i. CtxInv /\ Framed
  BY Frame, Zenon DEF IInv
<1>1. AtWait(c, p)
  <2>1. On(c, p) /\ Free /\ pc[p] = "user"
    BY Zenon DEF Wait
  <2>2. /\ state[p] = "RUNNING" /\ cur[c] = p /\ mode[c] = "run"
        /\ \A d \in CPU : cur[d] = p => d = c
    BY <2>1, OnFacts, Zenon
  <2>3. \A d \in CPU : mode[d] \in {"idle", "run"}
    BY <2>1, FreeFacts, Zenon
  <2>4. tickslock # p
    BY <1>i, <2>1, Zenon DEF CtxInv
  <2> QED
    BY <2>2, <2>3, <2>4, Zenon DEF AtWait
<1> QED
  BY <1>1, ReapIInv, BackFromSleep, SleepInWaitIInv, ZenonT(60) DEF Wait, WaitLoop, NothingToWaitFor, clock

(* wait() goes on after its sleep. *)
LEMMA WaitResumeIInv ==
  ASSUME IInv, NEW c \in CPU, WaitResume(c)
  PROVE  IInv'
<1>1. cur[c] \in Slot /\ AtWait(c, cur[c])
  BY ResumeFacts, ZenonT(60) DEF WaitResume, AtWait
<1> QED
  BY <1>1, ReapIInv, BackFromSleep, SleepInWaitIInv, ZenonT(60)
     DEF WaitResume, WaitLoop, NothingToWaitFor, clock

--------------------------------------------------------------------------------
(* kill() marks a process and wakes it. *)
LEMMA KillIInv ==
  ASSUME IInv, NEW c \in CPU, NEW p \in Slot, NEW k \in KillPids, Kill(c, p, k)
  PROVE  IInv'
<1>i. TypeInv /\ CpuInv /\ CtxInv /\ SlotInv /\ ForkInv /\ InitInv /\ ParentLive /\ WaitInv /\ Framed
  BY Frame, Zenon DEF IInv
<1>0. PICK q \in Slot :
        /\ pid[q] = k
        /\ killed' = [killed EXCEPT ![q] = TRUE]
        /\ state' = IF state[q] = "SLEEPING"
                    THEN [state EXCEPT ![q] = "RUNNABLE"]
                    ELSE state
  BY ZenonT(60) DEF Kill, First, Target
<1>a. UNCHANGED <<pid, parent, chan, kstack, nextpid, lock, mode, cur, pos, pc, ctx, np, tickslock, due>>
  BY ZenonT(60) DEF Kill, cpus, locals, clock
<1>b. q # initproc
  BY <1>i, <1>0, ProcAssumption, ZenonT(60) DEF InitInv
<1>c. \A r \in Slot : \/ state'[r] = state[r]
                      \/ state[r] = "SLEEPING" /\ state'[r] = "RUNNABLE"
  BY <1>i, <1>0, Zenon DEF TypeInv
<1>1. TypeInv'
  BY <1>i, <1>0, <1>a, Zenon DEF TypeInv
<1>2. CpuInv'
  BY <1>i, <1>a, <1>c, Constants, SMTT(60) DEF TypeInv, CpuInv
<1>3. CtxInv'
  BY <1>i, <1>a, <1>c, SMTT(60) DEF TypeInv, CtxInv, Alive
<1>4. SlotInv'
  BY <1>i, <1>a, <1>c, SMTT(60) DEF TypeInv, SlotInv, Alive
<1>5. ForkInv'
  BY <1>i, <1>a, Zenon DEF Framed
<1>6. InitInv'
  BY <1>i, <1>0, <1>a, <1>b, <1>c, Constants, SMTT(60) DEF TypeInv, InitInv, Alive
<1>7. ParentLive'
  BY <1>i, <1>a, <1>c, SMTT(60) DEF TypeInv, ParentLive, Alive
<1>8. WaitInv'
  <2>1. \A r \in Slot : state'[r] = "SLEEPING" => r # q
    BY <1>i, <1>0, Zenon DEF TypeInv
  <2>2. \A r \in Slot : r # q /\ killed'[r] => killed[r]
    BY <1>i, <1>0, Zenon DEF TypeInv
  <2> QED
    BY <1>i, <2>1, <2>2, <1>a, <1>c, StillAsleep, ZenonT(60)
<1> QED
  BY <1>1, <1>2, <1>3, <1>4, <1>5, <1>6, <1>7, <1>8, Zenon DEF IInv

--------------------------------------------------------------------------------
(* sys_sleep() with tickslock: p moves between its labels and takes or     *)
(* releases the lock.                                                      *)
LEMMA TickslockIInv ==
  ASSUME IInv, NEW c \in CPU, NEW p \in Slot, On(c, p), NEW there \in Label,
         pc[p] \in {"user", "tick_check", "tick_acquire"}, there \notin Fork \cup {"exit"},
         pc' = [pc EXCEPT ![p] = there],
         tickslock \in {p, NoProc},
         tickslock' = IF there \in {"tick_check", "tick_sleep"} THEN p ELSE NoProc,
         due' \in [Slot -> BOOLEAN],
         UNCHANGED <<table, cpus, ctx, np>>
  PROVE  IInv'
<1>i. TypeInv /\ CtxInv /\ ForkInv /\ InitInv /\ Framed
  BY Frame, Zenon DEF IInv
<1>a. UNCHANGED <<state, pid, parent, chan, killed, kstack, nextpid, lock, mode, cur, pos, ctx, np>>
  BY Zenon DEF table, cpus
<1>b. state[p] = "RUNNING" /\ ctx[p] = "none"
  BY OnFacts, ZenonT(60)
<1>1. TypeInv'
  BY <1>i, <1>a, Zenon DEF TypeInv
<1>2. CtxInv'
  <2>1. \A q \in Slot : state'[q] \in {"SLEEPING", "RUNNABLE"} => ctx'[q] # "none"
    BY <1>i, <1>a, <1>b, Constants, Zenon DEF TypeInv, CtxInv
  <2>2. \A d \in CPU : mode'[d] = "resume" => ctx'[cur'[d]] # "none"
    BY <1>i, <1>a, <1>b, Constants DEF TypeInv, CtxInv
  <2>3. \A d \in CPU : mode'[d] = "run" => ctx'[cur'[d]] = "none"
    BY <1>i, <1>a, <1>b, Constants DEF TypeInv, CtxInv
  <2>4. \A q \in Slot : tickslock' = q => state'[q] = "RUNNING" /\ ctx'[q] = "none"
    BY <1>i, <1>a, <1>b, Constants DEF TypeInv, CtxInv
  <2>5. \A q \in Slot : tickslock' = q <=> pc'[q] \in {"tick_check", "tick_sleep"}
    BY <1>i, <1>a, <1>b, Constants DEF TypeInv, CtxInv
  <2>6. \A q \in Slot : ~ Alive(q)' => pc'[q] = "exit"
    BY <1>i, <1>a, <1>b, Constants DEF TypeInv, CtxInv, Alive
  <2> QED
    BY <2>1, <2>2, <2>3, <2>4, <2>5, <2>6, Zenon DEF CtxInv
<1>3. ForkInv'
  BY <1>i, <1>a DEF TypeInv, ForkInv, Fork
<1>4. InitInv'
  BY <1>i, <1>a, Constants, ZenonT(60) DEF TypeInv, InitInv, Alive
<1> QED
  BY <1>i, <1>1, <1>2, <1>3, <1>4, <1>a, Zenon DEF IInv, Framed

(* sys_sleep() acquires tickslock. *)
LEMMA SysSleepIInv ==
  ASSUME IInv, NEW c \in CPU, NEW p \in Slot, SysSleep(c, p)
  PROVE  IInv'
<1>i. TypeInv /\ Framed
  BY Frame, Zenon DEF IInv
<1>1. due' \in [Slot -> BOOLEAN]
  BY <1>i, Zenon DEF SysSleep, TypeInv
<1> QED
  BY <1>1, TickslockIInv, ZenonT(60) DEF SysSleep, Goto, Label, Fork

(* sleep() acquires tickslock again. *)
LEMMA SysSleepAcquireIInv ==
  ASSUME IInv, NEW c \in CPU, NEW p \in Slot, SysSleepAcquire(c, p)
  PROVE  IInv'
<1>i. TypeInv /\ Framed
  BY Frame, Zenon DEF IInv
<1>1. due' \in [Slot -> BOOLEAN]
  BY <1>i, Zenon DEF SysSleepAcquire, TypeInv
<1> QED
  BY <1>1, TickslockIInv, ZenonT(60) DEF SysSleepAcquire, Goto, Label, Fork

(* The test of the loop of sys_sleep(). *)
LEMMA SysSleepCheckIInv ==
  ASSUME IInv, NEW c \in CPU, NEW p \in Slot, SysSleepCheck(c, p)
  PROVE  IInv'
<1>i. TypeInv /\ CtxInv /\ Framed
  BY Frame, Zenon DEF IInv
<1>1. due' \in [Slot -> BOOLEAN] /\ tickslock = p
  BY <1>i, Zenon DEF SysSleepCheck, TypeInv, CtxInv
<1>2. CASE due[p] \/ killed[p]
  BY <1>1, <1>2, TickslockIInv, Zenon DEF SysSleepCheck, Goto, Label, Fork
<1>3. CASE ~ (due[p] \/ killed[p])
  BY <1>1, <1>3, TickslockIInv, Zenon DEF SysSleepCheck, Goto, Label, Fork
<1> QED
  BY <1>2, <1>3, Zenon

(* sleep() exchanges tickslock for ptable.lock. *)
LEMMA SysSleepSleepIInv ==
  ASSUME IInv, NEW c \in CPU, NEW p \in Slot, SysSleepSleep(c, p)
  PROVE  IInv'
<1>i. TypeInv /\ CpuInv /\ CtxInv /\ SlotInv /\ ForkInv /\ InitInv /\ ParentLive /\ WaitInv /\ Framed
  BY Frame, Zenon DEF IInv
<1>0. /\ state[p] = "RUNNING" /\ cur[c] = p /\ mode[c] = "run" /\ tickslock = p
      /\ \A d \in CPU : cur[d] = p => d = c
      /\ \A d \in CPU : mode[d] \in {"idle", "run"}
  <2>1. On(c, p) /\ Free /\ pc[p] = "tick_sleep"
    BY Zenon DEF SysSleepSleep
  <2>2. /\ state[p] = "RUNNING" /\ cur[c] = p /\ mode[c] = "run"
        /\ \A d \in CPU : cur[d] = p => d = c
    BY <2>1, OnFacts, Zenon
  <2>3. \A d \in CPU : mode[d] \in {"idle", "run"}
    BY <2>1, FreeFacts, Zenon
  <2>4. tickslock = p
    BY <1>i, <2>1, Zenon DEF CtxInv
  <2> QED
    BY <2>2, <2>3, <2>4, Zenon
<1>a. /\ tickslock' = NoProc
      /\ chan' = [chan EXCEPT ![p] = Ticks]
      /\ state' = [state EXCEPT ![p] = "SLEEPING"]
      /\ ctx' = [ctx EXCEPT ![p] = "ticks"]
      /\ pc[p] = "tick_sleep" /\ pc' = [pc EXCEPT ![p] = "tick_acquire"]
      /\ lock' = c /\ mode' = [mode EXCEPT ![c] = "sched"]
      /\ UNCHANGED <<cur, pos, pid, parent, killed, kstack, nextpid, np, due>>
  BY Zenon DEF SysSleepSleep, Goto, Sched
<1>1. TypeInv'
  BY <1>i, <1>a, Zenon DEF TypeInv, Label
<1>2. CpuInv'
  <2>1. \A d \in CPU : lock' = d <=> mode'[d] \in {"scan", "resume", "sched"}
    BY <1>i, <1>0, <1>a, Constants DEF TypeInv, CpuInv
  <2>2. \A d \in CPU : cur'[d] = NoProc <=> mode'[d] \in {"idle", "scan"}
    BY <1>i, <1>0, <1>a, Constants DEF TypeInv, CpuInv
  <2>3. \A d, e \in CPU : cur'[d] # NoProc /\ cur'[d] = cur'[e] => d = e
    BY <1>i, <1>0, <1>a, Constants DEF CpuInv
  <2>4. \A q \in Slot : state'[q] = "RUNNING" => \E d \in CPU : cur'[d] = q
    BY <1>i, <1>0, <1>a, Constants DEF TypeInv, CpuInv
  <2>5. \A d \in CPU : mode'[d] \in {"resume", "run"} => state'[cur'[d]] = "RUNNING"
    BY <1>i, <1>0, <1>a, Constants DEF TypeInv, CpuInv
  <2>6. \A d \in CPU : mode'[d] = "sched" => state'[cur'[d]] \in {"SLEEPING", "RUNNABLE", "ZOMBIE"}
    BY <1>i, <1>0, <1>a, Constants DEF TypeInv, CpuInv
  <2> QED
    BY <2>1, <2>2, <2>3, <2>4, <2>5, <2>6, Zenon DEF CpuInv
<1>3. CtxInv'
  <2>1. \A q \in Slot : state'[q] \in {"SLEEPING", "RUNNABLE"} => ctx'[q] # "none"
    BY <1>i, <1>0, <1>a, Constants DEF TypeInv, CtxInv
  <2>2. \A d \in CPU : mode'[d] = "resume" => ctx'[cur'[d]] # "none"
    BY <1>i, <1>0, <1>a, Constants DEF TypeInv, CtxInv, CpuInv
  <2>3. \A d \in CPU : mode'[d] = "run" => ctx'[cur'[d]] = "none"
    BY <1>i, <1>0, <1>a, Constants DEF TypeInv, CtxInv, CpuInv
  <2>4. \A q \in Slot : tickslock' = q => state'[q] = "RUNNING" /\ ctx'[q] = "none"
    BY <1>i, <1>0, <1>a, Constants DEF TypeInv, CtxInv
  <2>5. \A q \in Slot : tickslock' = q <=> pc'[q] \in {"tick_check", "tick_sleep"}
    BY <1>i, <1>0, <1>a, Constants DEF TypeInv, CtxInv
  <2>6. \A q \in Slot : ~ Alive(q)' => pc'[q] = "exit"
    BY <1>i, <1>0, <1>a, Constants DEF TypeInv, CtxInv, Alive
  <2> QED
    BY <2>1, <2>2, <2>3, <2>4, <2>5, <2>6, Zenon DEF CtxInv
<1>4. SlotInv'
  BY <1>i, <1>0, <1>a, SMTT(60) DEF TypeInv, SlotInv, Alive
<1>5. ForkInv'
  BY <1>i, <1>a, SMTT(60) DEF TypeInv, ForkInv, Fork
<1>6. InitInv'
  BY <1>i, <1>a, Constants, Zenon DEF TypeInv, InitInv, Alive
<1>7. ParentLive'
  BY <1>i, <1>0, <1>a, SMTT(60) DEF TypeInv, ParentLive, Alive
<1>8. WaitInv'
  BY <1>i, <1>0, <1>a, Constants DEF TypeInv, WaitInv
<1> QED
  BY <1>1, <1>2, <1>3, <1>4, <1>5, <1>6, <1>7, <1>8, Zenon DEF IInv

(* sleep() in sys_sleep() is woken. *)
LEMMA SysSleepResumeIInv ==
  ASSUME IInv, NEW c \in CPU, SysSleepResume(c)
  PROVE  IInv'
<1>0. PICK p \in Slot : p = cur[c]
  BY ResumeFacts, ZenonT(60) DEF SysSleepResume
<1>a. AtWait(c, p)
  <2>1. mode[c] = "resume"
    BY Zenon DEF SysSleepResume
  <2>2. /\ cur[c] = p /\ state[p] = "RUNNING" /\ tickslock # p
        /\ \A d \in CPU : cur[d] = p => d = c
        /\ \A d \in CPU \ {c} : mode[d] \in {"idle", "run"}
    BY <1>0, <2>1, ResumeFacts, Zenon
  <2> QED
    BY <2>1, <2>2, Zenon DEF AtWait
<1>b. /\ chan' = [chan EXCEPT ![p] = NoChan]
      /\ lock' = NoCPU
      /\ mode' = [mode EXCEPT ![c] = "run"]
      /\ ctx' = [ctx EXCEPT ![p] = "none"]
      /\ UNCHANGED <<state, pid, parent, killed, kstack, cur, pos, nextpid, pc, np, tickslock, due>>
  BY <1>0, Zenon DEF SysSleepResume, clock
<1> QED
  BY <1>a, <1>b, BackFromSleep, ZenonT(60)

(* The clock interrupt wakes the sleepers. *)
LEMMA TickIInv ==
  ASSUME IInv, Tick
  PROVE  IInv'
<1>i. TypeInv /\ CpuInv /\ CtxInv /\ SlotInv /\ ForkInv /\ InitInv /\ ParentLive /\ WaitInv /\ Framed
  BY Frame, Zenon DEF IInv
<1>a. UNCHANGED <<pid, parent, chan, killed, kstack, nextpid, lock, mode, cur, pos, pc, ctx, np, tickslock>>
  BY Zenon DEF Tick, cpus, locals
<1>b. \A r \in Slot : \/ state'[r] = state[r]
                      \/ state[r] = "SLEEPING" /\ state'[r] = "RUNNABLE"
  BY Zenon DEF Tick, Wakeup1
<1>1. TypeInv'
  <2>1. state' \in [Slot -> {"UNUSED", "EMBRYO", "SLEEPING", "RUNNABLE", "RUNNING", "ZOMBIE"}]
    BY <1>i, Zenon DEF Tick, Wakeup1, TypeInv
  <2>2. due' \in [Slot -> BOOLEAN]
    BY Zenon DEF Tick
  <2> QED
    BY <1>i, <2>1, <2>2, <1>a, Zenon DEF TypeInv
<1>2. CpuInv'
  <2>1. \A d \in CPU : lock' = d <=> mode'[d] \in {"scan", "resume", "sched"}
    BY <1>i, <1>a, <1>b, Constants, Zenon DEF TypeInv, CpuInv
  <2>2. \A d \in CPU : cur'[d] = NoProc <=> mode'[d] \in {"idle", "scan"}
    BY <1>i, <1>a, <1>b, Constants, Zenon DEF TypeInv, CpuInv
  <2>3. \A d, e \in CPU : cur'[d] # NoProc /\ cur'[d] = cur'[e] => d = e
    BY <1>i, <1>a, Zenon DEF CpuInv
  <2>4. \A q \in Slot : state'[q] = "RUNNING" => \E d \in CPU : cur'[d] = q
    BY <1>i, <1>a, <1>b, Constants DEF TypeInv, CpuInv
  <2>5. \A d \in CPU : mode'[d] \in {"resume", "run"} => state'[cur'[d]] = "RUNNING"
    BY <1>i, <1>a, <1>b, Constants DEF TypeInv, CpuInv
  <2>6. \A d \in CPU : mode'[d] = "sched" => state'[cur'[d]] \in {"SLEEPING", "RUNNABLE", "ZOMBIE"}
    BY <1>i, <1>a, <1>b, Constants DEF TypeInv, CpuInv
  <2> QED
    BY <2>1, <2>2, <2>3, <2>4, <2>5, <2>6, Zenon DEF CpuInv
<1>3. CtxInv'
  BY <1>i, <1>a, <1>b DEF TypeInv, CtxInv, Alive
<1>4. SlotInv'
  BY <1>i, <1>a, <1>b, SMTT(60) DEF TypeInv, SlotInv, Alive
<1>5. ForkInv'
  BY <1>i, <1>a, Zenon DEF Framed
<1>6. InitInv'
  BY <1>i, <1>a, <1>b, Constants, Zenon DEF TypeInv, InitInv, Alive
<1>7. ParentLive'
  BY <1>i, <1>a, <1>b, SMTT(60) DEF TypeInv, ParentLive, Alive
<1>8. WaitInv'
  BY <1>i, <1>a, <1>b, Zenon DEF WaitInv
<1> QED
  BY <1>1, <1>2, <1>3, <1>4, <1>5, <1>6, <1>7, <1>8, Zenon DEF IInv

(* Every step of Proc keeps the inductive invariant. *)
LEMMA NextIInv == IInv /\ [Next]_vars => IInv'
<1> SUFFICES ASSUME IInv, [Next]_vars PROVE IInv'
  BY Zenon
<1>1. ASSUME NEW c \in CPU,
             \/ SchedulerStart(c) \/ SchedulerPick(c) \/ SchedulerEnd(c) \/ SwtchOut(c)
             \/ Resume(c) \/ WaitResume(c) \/ SysSleepResume(c)
      PROVE  IInv'
  BY <1>1, SchedulerStartIInv, SchedulerPickIInv, SchedulerEndIInv, SwtchOutIInv,
     ResumeIInv, WaitResumeIInv, SysSleepResumeIInv, Zenon
<1>2. ASSUME NEW c \in CPU, NEW p \in Slot,
             \/ Yield(c, p)
             \/ ForkAlloc(c, p) \/ ExitStart(c, p) \/ Wait(c, p) \/ SysSleep(c, p)
             \/ \E k \in KillPids : Kill(c, p, k)
      PROVE  IInv'
  BY <1>2, YieldIInv, ForkAllocIInv, ExitStartIInv, WaitIInv, SysSleepIInv, KillIInv, Zenon
<1>3. ASSUME NEW c \in CPU, NEW p \in Slot, Continue(c, p)
      PROVE  IInv'
  BY <1>3, ForkKstackIInv, ForkCopyIInv, ForkRunIInv, ExitLockedIInv, SysSleepCheckIInv, Zenon,
     SysSleepSleepIInv, SysSleepAcquireIInv DEF Continue
<1>4. CASE UNCHANGED vars
  <2>1. UNCHANGED <<state, pid, parent, chan, killed, kstack, nextpid, lock, mode, cur, pos, pc, ctx,
                   np, tickslock, due>>
    BY <1>4, Zenon DEF vars, table, cpus, locals, clock
  <2>2. TypeInv'
    BY <2>1, Zenon DEF IInv, TypeInv
  <2> QED
    BY <2>1, <2>2, Frame, Zenon DEF IInv, Framed
<1> QED
  BY <1>1, <1>2, <1>3, <1>4, TickIInv, Zenon DEF Next

--------------------------------------------------------------------------------
(* The inductive invariant holds in every reachable state. *)
THEOREM Invariance == Spec => []IInv
  BY InitIInv, NextIInv, PTL DEF Spec

(* A process is on at most one CPU, and the table agrees with the CPUs, as *)
(* ptable.lock passes from sched() to scheduler() and on to the next       *)
(* process.                                                                *)
THEOREM AlwaysOneCPU == Spec => []OneCPU
<1>1. IInv => OneCPU
  BY SMTT(60) DEF IInv, TypeInv, CpuInv, OneCPU
<1> QED
  BY <1>1, Invariance, PTL

(* No CPU is on a kernel stack that has been freed: wait() frees a child's *)
(* stack only once the child's CPU has left it.                            *)
THEOREM StacksAlwaysLive == Spec => []StackLive
<1>1. IInv => StackLive
  BY Constants, SMTT(60) DEF IInv, TypeInv, CpuInv, SlotInv, StackLive, Alive
<1> QED
  BY <1>1, Invariance, PTL

(* The panics of sched() are unreachable, and so is "zombie exit". *)
THEOREM SchedNeverPanics == Spec => []SchedOK
<1>1. IInv => SchedOK
  BY Constants DEF IInv, TypeInv, CpuInv, CtxInv, SchedOK
<1> QED
  BY <1>1, Invariance, PTL

(* Every process but init has a live parent, however exits, forks and      *)
(* reuse of slots interleave.                                              *)
THEOREM ParentsAlwaysLive == Spec => []ParentLive
<1>1. IInv => ParentLive
  BY Zenon DEF IInv
<1> QED
  BY <1>1, Invariance, PTL

(* wait() loses no wakeup: who sleeps there has a child, none of its       *)
(* children is a zombie, and it has not been killed.                       *)
THEOREM WaitAlwaysSound == Spec => []WaitSound
<1>1. IInv => WaitSound
  BY Zenon DEF IInv, WaitInv, WaitSound, Zombies, Children
<1> QED
  BY <1>1, Invariance, PTL

(* fork() leaks no slot, stack or parent on any of its paths. *)
THEOREM NeverLeaks == Spec => []NoLeak
<1>1. IInv => NoLeak
  BY Constants DEF IInv, TypeInv, SlotInv, NoLeak
<1> QED
  BY <1>1, Invariance, PTL
================================================================================
