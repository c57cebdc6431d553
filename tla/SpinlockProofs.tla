------------------------------ MODULE SpinlockProofs ------------------------------
(***************************************************************************)
(* Proofs about Spinlock: for any set of CPUs, any set of locks and any    *)
(* bound on nesting, the invariant IInv is inductive, the invariants of    *)
(* Spinlock hold and it implements AbsLock.                                *)
(***************************************************************************)
EXTENDS Spinlock, FiniteSetTheorems, TLAPS

(***************************************************************************)
(* The inductive invariant, in four parts.                                 *)
(***************************************************************************)
Low == {"run", "readeflags", "cli"}
PushLabel == {"readeflags", "cli", "push"}
AcquireLabel == {"acq_locked", "acq_cpu", "xchg", "setcpu"}
ReleaseLabel == {"rel_locked", "rel_cpu", "clearcpu", "clearlocked"}

(* The pushcli() of this label's frame is not yet accounted for by a held  *)
(* lock.                                                                   *)
Pend(label) == IF label \in AcquireLabel \cup {"popcli"} THEN 1 ELSE 0

(* Handlers do not nest; only the running frame holds locks; a suspended   *)
(* frame was stopped before its cli(); operands match labels.              *)
FrameInv ==
  \A c \in CPU :
    /\ level[c] \in {0, 1}
    /\ \A k \in Frame :
         /\ k # level[c] => held[c][k] = {} /\ pc[c][k] \in Low
         /\ k > level[c] => pc[c][k] = "run"
         /\ pc[c][k] # "panic"
         /\ pc[c][k] = "run" => arg[c][k] = NoLock
         /\ pc[c][k] \in AcquireLabel => arg[c][k] \in Lock
         /\ pc[c][k] \in PushLabel \cup AcquireLabel
              => arg[c][k] \notin held[c][k]
         /\ pc[c][k] \in ReleaseLabel => arg[c][k] \in held[c][k]

(* ncli counts the locks held and the pushcli() in progress. *)
CountInv ==
  \A c \in CPU :
    /\ IsFiniteSet(Held(c)) /\ Cardinality(Held(c)) \in Nat
    /\ ncli[c] = Cardinality(Held(c)) + Pend(pc[c][level[c]])

(* Interrupts are on exactly in a thread that holds nothing and has not    *)
(* executed cli(); intena and eflags remember which frame will need them.  *)
MaskInv ==
  \A c \in CPU :
    /\ fl_if[c] <=> level[c] = 0 /\ pc[c][level[c]] \in Low /\ ncli[c] = 0
    /\ ncli[c] > 0 => (intena[c] <=> level[c] = 0)
    /\ \A k \in Frame :
         pc[c][k] \in {"cli", "push"}
           => (eflags[c][k] <=> k = 0 /\ held[c][k] = {})

(* Frame k of c holds l and lk->cpu says so. *)
Marks(c, k, l) ==
  l \in held[c][k] /\ ~ (pc[c][k] = "clearlocked" /\ arg[c][k] = l)

OwnInv ==
  /\ MutualExclusion
  /\ \A l \in Lock : locked[l] <=> \E c \in CPU, k \in Frame : Owns(c, k, l)
  /\ \A l \in Lock, c \in CPU : cpu[l] = c <=> \E k \in Frame : Marks(c, k, l)

IInv == TypeOK /\ FrameInv /\ CountInv /\ MaskInv /\ OwnInv

--------------------------------------------------------------------------------
(* scheduler() starts with interrupts on and no lock held. *)
LEMMA InitIInv == Init => IInv
<1> SUFFICES ASSUME Init PROVE IInv
  BY Zenon
<1> USE SpinlockAssumption DEF Init
<1>1. TypeOK
  BY DEF TypeOK, Frame, Label
<1>2. FrameInv
  BY DEF FrameInv, Frame, Low, PushLabel, AcquireLabel, ReleaseLabel
<1>3. CountInv
  BY FS_EmptySet DEF CountInv, Held, Pend, Frame, AcquireLabel
<1>4. MaskInv
  BY DEF MaskInv, Frame, Low
<1>5. OwnInv
  BY DEF OwnInv, MutualExclusion, Owns, Marks, Frame
<1> QED
  BY <1>1, <1>2, <1>3, <1>4, <1>5, Zenon DEF IInv

(* Outside acquire() and popcli(), ncli is 0 exactly when nothing is held. *)
LEMMA NcliZero ==
  ASSUME IInv, NEW c \in CPU,
         pc[c][level[c]] \notin AcquireLabel \cup {"popcli"}
  PROVE  ncli[c] = 0 <=> Held(c) = {}
  BY FS_EmptySet DEF IInv, CountInv, Pend

(* lk->cpu is written only by an owner. *)
LEMMA MarksOwns ==
  ASSUME NEW c, NEW k, NEW l, Marks(c, k, l)
  PROVE  Owns(c, k, l)
  BY Zenon DEF Marks, Owns

(* Two frames that own a lock are one frame. *)
LEMMA OwnsUnique ==
  ASSUME OwnInv, NEW c \in CPU, NEW d \in CPU, NEW j \in Frame, NEW k \in Frame,
         NEW l \in Lock, Owns(c, j, l), Owns(d, k, l)
  PROVE  c = d /\ j = k
  BY Zenon DEF OwnInv, MutualExclusion

(* lk->cpu names the CPU whose ownership is marked. *)
LEMMA MarkedCpu ==
  ASSUME OwnInv, NEW c \in CPU, NEW l \in Lock
  PROVE  cpu[l] = c <=> \E k \in Frame : Marks(c, k, l)
  BY Zenon DEF OwnInv

(* CountInv need only be re-established for the CPU that moved. *)
LEMMA CountStep ==
  ASSUME CountInv, NEW c \in CPU,
         \A d \in CPU : d # c => /\ Held(d)' = Held(d)
                                /\ ncli'[d] = ncli[d]
                                /\ pc'[d][level'[d]] = pc[d][level[d]],
         IsFiniteSet(Held(c)'), Cardinality(Held(c)') \in Nat,
         ncli'[c] = Cardinality(Held(c)') + Pend(pc'[c][level'[c]])
  PROVE  CountInv'
  BY Zenon DEF CountInv

(* lk->cpu = mycpu() in acquire(): c's ownership of l0 becomes marked. *)
LEMMA OwnMark ==
  ASSUME OwnInv, NEW c \in CPU, NEW k0 \in Frame, NEW l0 \in Lock,
         locked' = locked, Owns(c, k0, l0),
         \A d \in CPU, k \in Frame : ~ Marks(d, k, l0),
         \A l \in Lock : cpu'[l] = IF l = l0 THEN c ELSE cpu[l],
         \A d \in CPU, k \in Frame, l \in Lock :
           /\ Owns(d, k, l)' <=> Owns(d, k, l)
           /\ Marks(d, k, l)' <=> Marks(d, k, l) \/ (d = c /\ k = k0 /\ l = l0)
  PROVE  OwnInv'
  BY DEF OwnInv, MutualExclusion

(* lk->cpu = 0 in release(): c's ownership of l0 is no longer marked. *)
LEMMA OwnUnmark ==
  ASSUME OwnInv, NEW c \in CPU, NEW k0 \in Frame, NEW l0 \in Lock,
         locked' = locked,
         \A d \in CPU, k \in Frame : Marks(d, k, l0) => d = c /\ k = k0,
         \A l \in Lock : cpu'[l] = IF l = l0 THEN NoCPU ELSE cpu[l],
         \A d \in CPU, k \in Frame, l \in Lock :
           /\ Owns(d, k, l)' <=> Owns(d, k, l)
           /\ Marks(d, k, l)' <=> Marks(d, k, l) /\ ~ (d = c /\ k = k0 /\ l = l0)
  PROVE  OwnInv'
  BY SpinlockAssumption DEF OwnInv, MutualExclusion

(* The freeing store of release(): l0 has no owner any more. *)
LEMMA OwnFree ==
  ASSUME OwnInv, NEW c \in CPU, NEW k0 \in Frame, NEW l0 \in Lock,
         cpu' = cpu, Owns(c, k0, l0),
         \A l \in Lock : locked'[l] <=> locked[l] /\ l # l0,
         \A d \in CPU, k \in Frame, l \in Lock :
           /\ Owns(d, k, l)' <=> Owns(d, k, l) /\ ~ (d = c /\ k = k0 /\ l = l0)
           /\ Marks(d, k, l)' <=> Marks(d, k, l)
  PROVE  OwnInv'
  BY DEF OwnInv, MutualExclusion

(* A step that leaves locked, cpu and every ownership alone keeps OwnInv. *)
LEMMA OwnSame ==
  ASSUME OwnInv, locked' = locked, cpu' = cpu,
         \A d \in CPU, k \in Frame, l \in Lock :
           /\ Owns(d, k, l)' <=> Owns(d, k, l)
           /\ Marks(d, k, l)' <=> Marks(d, k, l)
  PROVE  OwnInv'
  BY DEF OwnInv, MutualExclusion

(* Entering acquire(), in lock order. *)
LEMMA CallAcquireStep ==
  ASSUME IInv, NEW c \in CPU, NEW l0 \in Lock, CallAcquire(c, l0)
  PROVE  IInv'
<1> USE SpinlockAssumption DEF At, Goto, Arg, Held
<1>1. TypeOK'
  BY Zenon DEF IInv, CallAcquire, TypeOK, Frame, Label
<1>2. FrameInv'
  BY DEF IInv, CallAcquire, TypeOK, Frame, FrameInv, Low, PushLabel,
     AcquireLabel, ReleaseLabel
<1>3. CountInv'
  BY DEF IInv, CallAcquire, TypeOK, Frame, CountInv, Pend, AcquireLabel
<1>4. MaskInv'
  BY DEF IInv, CallAcquire, TypeOK, Frame, MaskInv, Low
<1>5. OwnInv'
  <2>1. \A d \in CPU, k \in Frame, l \in Lock :
          (Owns(d, k, l)' <=> Owns(d, k, l)) /\ (Marks(d, k, l)' <=> Marks(d, k, l))
    BY DEF IInv, CallAcquire, TypeOK, Frame, Owns, Marks
  <2> QED
    BY <2>1, OwnSame, Zenon DEF IInv, CallAcquire
<1> QED
  BY <1>1, <1>2, <1>3, <1>4, <1>5, Zenon DEF IInv

(* Entering release() with a lock that is held. *)
LEMMA CallReleaseStep ==
  ASSUME IInv, NEW c \in CPU, NEW l0 \in Lock, CallRelease(c, l0)
  PROVE  IInv'
<1> USE SpinlockAssumption DEF At, Goto, Arg, Held
<1>0. ncli[c] = 0 <=> Held(c) = {}
  BY NcliZero, Zenon DEF IInv, CallRelease, AcquireLabel
<1>1. TypeOK'
  BY Zenon DEF IInv, CallRelease, TypeOK, Frame, Label
<1>2. FrameInv'
  BY DEF IInv, CallRelease, TypeOK, Frame, FrameInv, Low, PushLabel,
     AcquireLabel, ReleaseLabel
<1>3. CountInv'
  BY DEF IInv, CallRelease, TypeOK, Frame, CountInv, Pend, AcquireLabel
<1>4. MaskInv'
  BY <1>0 DEF IInv, CallRelease, TypeOK, Frame, MaskInv, Low
<1>5. OwnInv'
  <2>1. \A d \in CPU, k \in Frame, l \in Lock :
          (Owns(d, k, l)' <=> Owns(d, k, l)) /\ (Marks(d, k, l)' <=> Marks(d, k, l))
    BY DEF IInv, CallRelease, TypeOK, Frame, Owns, Marks
  <2> QED
    BY <2>1, OwnSame, Zenon DEF IInv, CallRelease
<1> QED
  BY <1>1, <1>2, <1>3, <1>4, <1>5, Zenon DEF IInv

(* Entering myproc(). *)
LEMMA CallMyprocStep ==
  ASSUME IInv, NEW c \in CPU, CallMyproc(c)
  PROVE  IInv'
<1> USE SpinlockAssumption DEF At, Goto, Arg, Held
<1>1. TypeOK'
  BY Zenon DEF IInv, CallMyproc, TypeOK, Frame, Label
<1>2. FrameInv'
  BY DEF IInv, CallMyproc, TypeOK, Frame, FrameInv, Low, PushLabel,
     AcquireLabel, ReleaseLabel
<1>3. CountInv'
  BY DEF IInv, CallMyproc, TypeOK, Frame, CountInv, Pend, AcquireLabel
<1>4. MaskInv'
  BY DEF IInv, CallMyproc, TypeOK, Frame, MaskInv, Low
<1>5. OwnInv'
  <2>1. \A d \in CPU, k \in Frame, l \in Lock :
          (Owns(d, k, l)' <=> Owns(d, k, l)) /\ (Marks(d, k, l)' <=> Marks(d, k, l))
    BY DEF IInv, CallMyproc, TypeOK, Frame, Owns, Marks
  <2> QED
    BY <2>1, OwnSame, Zenon DEF IInv, CallMyproc
<1> QED
  BY <1>1, <1>2, <1>3, <1>4, <1>5, Zenon DEF IInv

(* pushcli() reads eflags. *)
LEMMA PushcliReadStep ==
  ASSUME IInv, NEW c \in CPU, PushcliRead(c)
  PROVE  IInv'
<1> USE SpinlockAssumption DEF At, Goto, Arg, Held
<1>0. ncli[c] = 0 <=> Held(c) = {}
  BY NcliZero, Zenon DEF IInv, PushcliRead, AcquireLabel
<1>1. TypeOK'
  BY Zenon DEF IInv, PushcliRead, TypeOK, Frame, Label
<1>2. FrameInv'
  BY DEF IInv, PushcliRead, TypeOK, Frame, FrameInv, Low, PushLabel,
     AcquireLabel, ReleaseLabel
<1>3. CountInv'
  BY DEF IInv, PushcliRead, TypeOK, Frame, CountInv, Pend, AcquireLabel
<1>4. MaskInv'
  BY <1>0 DEF IInv, PushcliRead, TypeOK, Frame, FrameInv, MaskInv, Low
<1>5. OwnInv'
  <2>1. \A d \in CPU, k \in Frame, l \in Lock :
          (Owns(d, k, l)' <=> Owns(d, k, l)) /\ (Marks(d, k, l)' <=> Marks(d, k, l))
    BY DEF IInv, PushcliRead, TypeOK, Frame, Owns, Marks
  <2> QED
    BY <2>1, OwnSame, Zenon DEF IInv, PushcliRead
<1> QED
  BY <1>1, <1>2, <1>3, <1>4, <1>5, Zenon DEF IInv

(* pushcli() executes cli(). *)
LEMMA PushcliCliStep ==
  ASSUME IInv, NEW c \in CPU, PushcliCli(c)
  PROVE  IInv'
<1> USE SpinlockAssumption DEF At, Goto, Arg, Held
<1>1. TypeOK'
  BY Zenon DEF IInv, PushcliCli, TypeOK, Frame, Label
<1>2. FrameInv'
  BY DEF IInv, PushcliCli, TypeOK, Frame, FrameInv, Low, PushLabel,
     AcquireLabel, ReleaseLabel
<1>3. CountInv'
  BY DEF IInv, PushcliCli, TypeOK, Frame, CountInv, Pend, AcquireLabel
<1>4. MaskInv'
  BY DEF IInv, PushcliCli, TypeOK, Frame, MaskInv, Low
<1>5. OwnInv'
  <2>1. \A d \in CPU, k \in Frame, l \in Lock :
          (Owns(d, k, l)' <=> Owns(d, k, l)) /\ (Marks(d, k, l)' <=> Marks(d, k, l))
    BY DEF IInv, PushcliCli, TypeOK, Frame, Owns, Marks
  <2> QED
    BY <2>1, OwnSame, Zenon DEF IInv, PushcliCli
<1> QED
  BY <1>1, <1>2, <1>3, <1>4, <1>5, Zenon DEF IInv

(* pushcli() saves intena at the outermost level and counts. *)
LEMMA PushcliCountStep ==
  ASSUME IInv, NEW c \in CPU, PushcliCount(c)
  PROVE  IInv'
<1> USE SpinlockAssumption DEF At, Goto, Arg, Held
<1>0. ncli[c] = 0 <=> Held(c) = {}
  BY NcliZero, Zenon DEF IInv, PushcliCount, AcquireLabel
<1>1. TypeOK'
  BY DEF IInv, PushcliCount, TypeOK, Frame, Label
<1>2. FrameInv'
  BY DEF IInv, PushcliCount, TypeOK, Frame, FrameInv, Low, PushLabel,
     AcquireLabel, ReleaseLabel
<1>3. CountInv'
  <2>1. Pend(pc'[c][level'[c]]) = 1 /\ Pend(pc[c][level[c]]) = 0
    BY Zenon DEF IInv, PushcliCount, TypeOK, Pend, AcquireLabel
  <2>2. \A d \in CPU : d # c => pc'[d] = pc[d] /\ ncli'[d] = ncli[d]
    BY Zenon DEF IInv, PushcliCount, TypeOK
  <2> QED
    BY <2>1, <2>2 DEF IInv, PushcliCount, TypeOK, CountInv
<1>4. MaskInv'
  <2>1. CASE ncli[c] = 0
    BY <2>1, <1>0 DEF IInv, PushcliCount, TypeOK, Frame, MaskInv, Low
  <2>2. CASE ncli[c] # 0
    BY <2>2 DEF IInv, PushcliCount, TypeOK, Frame, MaskInv, Low
  <2> QED
    BY <2>1, <2>2, Zenon
<1>5. OwnInv'
  <2>1. \A d \in CPU, k \in Frame, l \in Lock :
          (Owns(d, k, l)' <=> Owns(d, k, l)) /\ (Marks(d, k, l)' <=> Marks(d, k, l))
    BY DEF IInv, PushcliCount, TypeOK, Frame, Owns, Marks
  <2> QED
    BY <2>1, OwnSame, Zenon DEF IInv, PushcliCount
<1> QED
  BY <1>1, <1>2, <1>3, <1>4, <1>5, Zenon DEF IInv

(* acquire() reads lk->locked in holding(). *)
LEMMA AcquireHoldingLockedStep ==
  ASSUME IInv, NEW c \in CPU, AcquireHoldingLocked(c)
  PROVE  IInv'
<1> USE SpinlockAssumption DEF At, Goto, Arg, Held
<1>1. TypeOK'
  BY Zenon DEF IInv, AcquireHoldingLocked, TypeOK, Frame, Label
<1>2. FrameInv'
  BY DEF IInv, AcquireHoldingLocked, TypeOK, Frame, FrameInv, Low, PushLabel,
     AcquireLabel, ReleaseLabel
<1>3. CountInv'
  BY DEF IInv, AcquireHoldingLocked, TypeOK, Frame, CountInv, Pend, AcquireLabel
<1>4. MaskInv'
  BY DEF IInv, AcquireHoldingLocked, TypeOK, Frame, MaskInv, Low
<1>5. OwnInv'
  <2>1. \A d \in CPU, k \in Frame, l \in Lock :
          (Owns(d, k, l)' <=> Owns(d, k, l)) /\ (Marks(d, k, l)' <=> Marks(d, k, l))
    BY DEF IInv, AcquireHoldingLocked, TypeOK, Frame, Owns, Marks
  <2> QED
    BY <2>1, OwnSame, Zenon DEF IInv, AcquireHoldingLocked
<1> QED
  BY <1>1, <1>2, <1>3, <1>4, <1>5, Zenon DEF IInv

(* acquire() reads lk->cpu in holding(), and does not panic. *)
LEMMA AcquireHoldingCpuStep ==
  ASSUME IInv, NEW c \in CPU, AcquireHoldingCpu(c)
  PROVE  IInv'
<1> USE SpinlockAssumption DEF At, Goto, Arg, Held
<1>0. Goto(c, "xchg")
  <2>1. Arg(c) \in Lock /\ \A k \in Frame : Arg(c) \notin held[c][k]
    BY ZenonT(60) DEF IInv, AcquireHoldingCpu, TypeOK, FrameInv, AcquireLabel, PushLabel
  <2>2. cpu[Arg(c)] # c
    <3>1. \A k \in Frame : ~ Marks(c, k, Arg(c))
      BY <2>1, Zenon DEF Marks
    <3> HIDE DEF Arg
    <3> QED
      BY <2>1, <3>1, MarkedCpu, ZenonT(60) DEF IInv
  <2> QED
    BY <2>2, Zenon DEF AcquireHoldingCpu
<1>1. TypeOK'
  BY Zenon DEF IInv, AcquireHoldingCpu, TypeOK, Frame, Label
<1>2. FrameInv'
  BY <1>0 DEF IInv, AcquireHoldingCpu, TypeOK, Frame, FrameInv, Low, PushLabel,
     AcquireLabel, ReleaseLabel
<1>3. CountInv'
  BY <1>0 DEF IInv, AcquireHoldingCpu, TypeOK, Frame, CountInv, Pend,
     AcquireLabel
<1>4. MaskInv'
  BY DEF IInv, AcquireHoldingCpu, TypeOK, Frame, MaskInv, Low
<1>5. OwnInv'
  <2>1. \A d \in CPU, k \in Frame, l \in Lock :
          (Owns(d, k, l)' <=> Owns(d, k, l)) /\ (Marks(d, k, l)' <=> Marks(d, k, l))
    BY DEF IInv, AcquireHoldingCpu, TypeOK, Frame, Owns, Marks
  <2> QED
    BY <2>1, OwnSame, Zenon DEF IInv, AcquireHoldingCpu
<1> QED
  BY <1>1, <1>2, <1>3, <1>4, <1>5, Zenon DEF IInv

(* acquire() wins the xchg. *)
LEMMA AcquireXchgStep ==
  ASSUME IInv, NEW c \in CPU, AcquireXchg(c)
  PROVE  IInv'
<1> USE SpinlockAssumption DEF At, Goto, Arg, Held
<1>1. TypeOK'
  BY ZenonT(60) DEF IInv, AcquireXchg, TypeOK, Frame, Label
<1>2. FrameInv'
  BY DEF IInv, AcquireXchg, TypeOK, Frame, FrameInv, Low, PushLabel,
     AcquireLabel, ReleaseLabel
<1>3. CountInv'
  BY DEF IInv, AcquireXchg, TypeOK, Frame, CountInv, Pend, AcquireLabel
<1>4. MaskInv'
  BY DEF IInv, AcquireXchg, TypeOK, Frame, MaskInv, Low
<1>5. OwnInv'
  <2>1. level[c] \in Frame /\ Arg(c) \in Lock
    BY Zenon DEF IInv, AcquireXchg, TypeOK, FrameInv, AcquireLabel
  <2>2. \A d \in CPU, k \in Frame, l \in Lock :
          /\ Owns(d, k, l)'
               <=> Owns(d, k, l) \/ (d = c /\ k = level[c] /\ l = Arg(c))
          /\ Marks(d, k, l)' <=> Marks(d, k, l)
    BY <2>1 DEF IInv, AcquireXchg, TypeOK, Owns, Marks
  <2>3. \A l \in Lock : locked'[l] <=> locked[l] \/ l = Arg(c)
    BY <2>1, Zenon DEF IInv, AcquireXchg, TypeOK
  <2>4. ~ locked[Arg(c)] /\ cpu' = cpu
    BY Zenon DEF AcquireXchg
  <2> HIDE DEF Arg
  <2> QED
    BY <2>1, <2>2, <2>3, <2>4 DEF IInv, OwnInv, MutualExclusion
<1> QED
  BY <1>1, <1>2, <1>3, <1>4, <1>5, Zenon DEF IInv

(* acquire() records its CPU in lk->cpu. *)
LEMMA AcquireSetCpuStep ==
  ASSUME IInv, NEW c \in CPU, AcquireSetCpu(c)
  PROVE  IInv'
<1> USE SpinlockAssumption DEF At, Goto, Arg, Held
<1>0. level[c] \in Frame /\ Arg(c) \in Lock /\ Arg(c) \notin Held(c)
  BY Zenon DEF IInv, AcquireSetCpu, TypeOK, FrameInv, AcquireLabel, PushLabel
<1>1. TypeOK'
  BY <1>0, SMTT(60) DEF IInv, AcquireSetCpu, TypeOK, Frame, Label
<1>2. FrameInv'
  BY SMTT(60) DEF IInv, AcquireSetCpu, TypeOK, Frame, FrameInv, Low, PushLabel,
     AcquireLabel, ReleaseLabel
<1>3. CountInv'
  <2>1. Held(c)' = Held(c) \cup {Arg(c)}
    BY Zenon DEF IInv, AcquireSetCpu, TypeOK
  <2>2. /\ IsFiniteSet(Held(c)') /\ Cardinality(Held(c)') \in Nat
        /\ Cardinality(Held(c)') = Cardinality(Held(c)) + 1
    <3> HIDE DEF Held, Arg
    <3> QED
      BY <1>0, <2>1, FS_AddElement, FS_CardinalityType DEF IInv, CountInv
  <2>3. /\ Pend(pc'[c][level'[c]]) = 0 /\ Pend(pc[c][level[c]]) = 1
        /\ ncli'[c] = ncli[c]
    BY Zenon DEF IInv, AcquireSetCpu, TypeOK, Pend, AcquireLabel
  <2>4. \A d \in CPU : d # c => /\ Held(d)' = Held(d)
                               /\ ncli'[d] = ncli[d]
                               /\ pc'[d][level'[d]] = pc[d][level[d]]
    BY Zenon DEF IInv, AcquireSetCpu, TypeOK
  <2> HIDE DEF Held
  <2>5. Cardinality(Held(c)) \in Nat
        /\ ncli[c] = Cardinality(Held(c)) + Pend(pc[c][level[c]])
    BY Zenon DEF IInv, CountInv
  <2>6. ncli'[c] = Cardinality(Held(c)') + Pend(pc'[c][level'[c]])
    BY <2>2, <2>3, <2>5
  <2>7. CountInv
    BY Zenon DEF IInv
  <2> QED
    BY <2>2, <2>4, <2>6, <2>7, CountStep, Zenon
<1>4. MaskInv'
  <2>1. ncli[c] > 0
    BY DEF IInv, AcquireSetCpu, CountInv, Pend, AcquireLabel
  <2> QED
    BY <2>1 DEF IInv, AcquireSetCpu, TypeOK, Frame, MaskInv, Low
<1>5. OwnInv'
  <2>1. Owns(c, level[c], Arg(c))
    BY Zenon DEF AcquireSetCpu, Owns
  <2>2. \A d \in CPU, k \in Frame : ~ Marks(d, k, Arg(c))
    <3> HIDE DEF Arg
    <3> SUFFICES ASSUME NEW d \in CPU, NEW k \in Frame, Marks(d, k, Arg(c))
                 PROVE  FALSE
      BY Zenon
    <3>1. d = c /\ k = level[c]
      <4>1. Owns(d, k, Arg(c))
        BY MarksOwns, Zenon
      <4> QED
        BY <1>0, <2>1, <4>1, OwnsUnique, ZenonT(60) DEF IInv
    <3> QED
      BY <1>0, <3>1, Zenon DEF Marks
  <2>3. \A d \in CPU, k \in Frame, l \in Lock :
          /\ Owns(d, k, l)' <=> Owns(d, k, l)
          /\ Marks(d, k, l)'
               <=> Marks(d, k, l) \/ (d = c /\ k = level[c] /\ l = Arg(c))
    BY <1>0 DEF IInv, AcquireSetCpu, TypeOK, Owns, Marks
  <2>4. \A l \in Lock : cpu'[l] = IF l = Arg(c) THEN c ELSE cpu[l]
    BY <1>0, Zenon DEF IInv, AcquireSetCpu, TypeOK
  <2> QED
    BY <1>0, <2>1, <2>2, <2>3, <2>4, OwnMark DEF IInv, AcquireSetCpu
<1> QED
  BY <1>1, <1>2, <1>3, <1>4, <1>5, Zenon DEF IInv

--------------------------------------------------------------------------------
(* release() reads lk->locked in holding(), and does not panic. *)
LEMMA ReleaseHoldingLockedStep ==
  ASSUME IInv, NEW c \in CPU, ReleaseHoldingLocked(c)
  PROVE  IInv'
<1> USE SpinlockAssumption DEF At, Goto, Arg, Held
<1>0. /\ level[c] \in Frame /\ Arg(c) \in Lock /\ Arg(c) \in Held(c)
      /\ Owns(c, level[c], Arg(c))
  BY DEF IInv, ReleaseHoldingLocked, TypeOK, FrameInv, ReleaseLabel, Owns
<1>1. TypeOK'
  BY Zenon DEF IInv, ReleaseHoldingLocked, TypeOK, Frame, Label
<1>2. FrameInv'
  <2>1. Goto(c, "rel_cpu")
    BY <1>0, ZenonT(60) DEF IInv, ReleaseHoldingLocked, OwnInv
  <2> QED
    BY <2>1 DEF IInv, ReleaseHoldingLocked, TypeOK, Frame, FrameInv, Low,
       PushLabel, AcquireLabel, ReleaseLabel
<1>3. CountInv'
  BY DEF IInv, ReleaseHoldingLocked, TypeOK, Frame, CountInv, Pend, AcquireLabel
<1>4. MaskInv'
  BY DEF IInv, ReleaseHoldingLocked, TypeOK, Frame, MaskInv, Low
<1>5. OwnInv'
  <2>1. \A d \in CPU, k \in Frame, l \in Lock :
          (Owns(d, k, l)' <=> Owns(d, k, l)) /\ (Marks(d, k, l)' <=> Marks(d, k, l))
    BY DEF IInv, ReleaseHoldingLocked, TypeOK, Frame, Owns, Marks
  <2> QED
    BY <2>1, OwnSame, Zenon DEF IInv, ReleaseHoldingLocked
<1> QED
  BY <1>1, <1>2, <1>3, <1>4, <1>5, Zenon DEF IInv

(* release() reads lk->cpu in holding(), and does not panic. *)
LEMMA ReleaseHoldingCpuStep ==
  ASSUME IInv, NEW c \in CPU, ReleaseHoldingCpu(c)
  PROVE  IInv'
<1> USE SpinlockAssumption DEF At, Goto, Arg, Held
<1>0. /\ level[c] \in Frame /\ Arg(c) \in Lock /\ Arg(c) \in Held(c)
      /\ Owns(c, level[c], Arg(c))
  BY DEF IInv, ReleaseHoldingCpu, TypeOK, FrameInv, ReleaseLabel, Owns
<1>1. TypeOK'
  BY Zenon DEF IInv, ReleaseHoldingCpu, TypeOK, Frame, Label
<1>2. FrameInv'
  <2>1. Marks(c, level[c], Arg(c))
    BY <1>0, Zenon DEF ReleaseHoldingCpu, Marks
  <2>2. Goto(c, "clearcpu")
    <3>1. cpu[Arg(c)] = c
      <4> HIDE DEF Arg
      <4> QED
        BY <1>0, <2>1, MarkedCpu, ZenonT(60) DEF IInv
    <3> QED
      BY <3>1, Zenon DEF ReleaseHoldingCpu
  <2> QED
    BY <2>2 DEF IInv, ReleaseHoldingCpu, TypeOK, Frame, FrameInv, Low,
       PushLabel, AcquireLabel, ReleaseLabel
<1>3. CountInv'
  BY DEF IInv, ReleaseHoldingCpu, TypeOK, Frame, CountInv, Pend, AcquireLabel
<1>4. MaskInv'
  BY DEF IInv, ReleaseHoldingCpu, TypeOK, Frame, MaskInv, Low
<1>5. OwnInv'
  <2>1. \A d \in CPU, k \in Frame, l \in Lock :
          (Owns(d, k, l)' <=> Owns(d, k, l)) /\ (Marks(d, k, l)' <=> Marks(d, k, l))
    BY SMTT(60) DEF IInv, ReleaseHoldingCpu, TypeOK, Frame, Owns, Marks
  <2> QED
    BY <2>1, OwnSame, Zenon DEF IInv, ReleaseHoldingCpu
<1> QED
  BY <1>1, <1>2, <1>3, <1>4, <1>5, Zenon DEF IInv

(* release() clears lk->cpu. *)
LEMMA ReleaseClearCpuStep ==
  ASSUME IInv, NEW c \in CPU, ReleaseClearCpu(c)
  PROVE  IInv'
<1> USE SpinlockAssumption DEF At, Goto, Arg, Held
<1>0. /\ level[c] \in Frame /\ Arg(c) \in Lock /\ Arg(c) \in Held(c)
      /\ Owns(c, level[c], Arg(c))
  BY DEF IInv, ReleaseClearCpu, TypeOK, FrameInv, ReleaseLabel, Owns
<1>1. TypeOK'
  BY ZenonT(60) DEF IInv, ReleaseClearCpu, TypeOK, Frame, Label
<1>2. FrameInv'
  BY DEF IInv, ReleaseClearCpu, TypeOK, Frame, FrameInv, Low, PushLabel,
     AcquireLabel, ReleaseLabel
<1>3. CountInv'
  BY DEF IInv, ReleaseClearCpu, TypeOK, Frame, CountInv, Pend, AcquireLabel
<1>4. MaskInv'
  BY DEF IInv, ReleaseClearCpu, TypeOK, Frame, MaskInv, Low
<1>5. OwnInv'
  <2>1. \A d \in CPU, k \in Frame : Marks(d, k, Arg(c)) => d = c /\ k = level[c]
    <3> HIDE DEF Arg
    <3> SUFFICES ASSUME NEW d \in CPU, NEW k \in Frame, Marks(d, k, Arg(c))
                 PROVE  d = c /\ k = level[c]
      BY Zenon
    <3>1. Owns(d, k, Arg(c))
      BY MarksOwns, Zenon
    <3> QED
      BY <1>0, <3>1, OwnsUnique, Zenon DEF IInv
  <2>2. \A d \in CPU, k \in Frame, l \in Lock :
          /\ Owns(d, k, l)' <=> Owns(d, k, l)
          /\ Marks(d, k, l)'
               <=> Marks(d, k, l) /\ ~ (d = c /\ k = level[c] /\ l = Arg(c))
    BY <1>0 DEF IInv, ReleaseClearCpu, TypeOK, Owns, Marks
  <2>3. \A l \in Lock : cpu'[l] = IF l = Arg(c) THEN NoCPU ELSE cpu[l]
    BY <1>0, Zenon DEF IInv, ReleaseClearCpu, TypeOK
  <2> QED
    BY <1>0, <2>1, <2>2, <2>3, OwnUnmark, SMTT(60) DEF IInv, ReleaseClearCpu
<1> QED
  BY <1>1, <1>2, <1>3, <1>4, <1>5, Zenon DEF IInv

(* release() frees the lock. *)
LEMMA ReleaseClearLockedStep ==
  ASSUME IInv, NEW c \in CPU, ReleaseClearLocked(c)
  PROVE  IInv'
<1> USE SpinlockAssumption DEF At, Goto, Arg, Held
<1>0. /\ level[c] \in Frame /\ Arg(c) \in Lock /\ Arg(c) \in Held(c)
      /\ Owns(c, level[c], Arg(c))
  BY DEF IInv, ReleaseClearLocked, TypeOK, FrameInv, ReleaseLabel, Owns
<1>1. TypeOK'
  BY ZenonT(60) DEF IInv, ReleaseClearLocked, TypeOK, Frame, Label
<1>2. FrameInv'
  BY DEF IInv, ReleaseClearLocked, TypeOK, Frame, FrameInv, Low, PushLabel,
     AcquireLabel, ReleaseLabel
<1>3. CountInv'
  <2>1. Held(c)' = Held(c) \ {Arg(c)}
    BY Zenon DEF IInv, ReleaseClearLocked, TypeOK
  <2>2. /\ IsFiniteSet(Held(c)') /\ Cardinality(Held(c)') \in Nat
        /\ Cardinality(Held(c)') = Cardinality(Held(c)) - 1
    <3> HIDE DEF Held, Arg
    <3> QED
      BY <1>0, <2>1, FS_RemoveElement, FS_CardinalityType DEF IInv, CountInv
  <2>3. /\ Pend(pc'[c][level'[c]]) = 1 /\ Pend(pc[c][level[c]]) = 0
        /\ ncli'[c] = ncli[c]
    BY Zenon DEF IInv, ReleaseClearLocked, TypeOK, Pend, AcquireLabel
  <2>4. \A d \in CPU : d # c => /\ Held(d)' = Held(d)
                               /\ ncli'[d] = ncli[d]
                               /\ pc'[d][level'[d]] = pc[d][level[d]]
    BY Zenon DEF IInv, ReleaseClearLocked, TypeOK
  <2> HIDE DEF Held
  <2>5. Cardinality(Held(c)) \in Nat
        /\ ncli[c] = Cardinality(Held(c)) + Pend(pc[c][level[c]])
    BY Zenon DEF IInv, CountInv
  <2>6. ncli'[c] = Cardinality(Held(c)') + Pend(pc'[c][level'[c]])
    BY <2>2, <2>3, <2>5
  <2>7. CountInv
    BY Zenon DEF IInv
  <2> QED
    BY <2>2, <2>4, <2>6, <2>7, CountStep, Zenon
<1>4. MaskInv'
  BY DEF IInv, ReleaseClearLocked, TypeOK, Frame, MaskInv, Low
<1>5. OwnInv'
  <2>1. \A d \in CPU, k \in Frame, l \in Lock :
          /\ Owns(d, k, l)'
               <=> Owns(d, k, l) /\ ~ (d = c /\ k = level[c] /\ l = Arg(c))
          /\ Marks(d, k, l)' <=> Marks(d, k, l)
    BY <1>0, SMTT(60) DEF IInv, ReleaseClearLocked, TypeOK, Owns, Marks
  <2>2. \A l \in Lock : locked'[l] <=> locked[l] /\ l # Arg(c)
    BY <1>0, Zenon DEF IInv, ReleaseClearLocked, TypeOK
  <2> QED
    BY <1>0, <2>1, <2>2, OwnFree, SMTT(60) DEF IInv, ReleaseClearLocked
<1> QED
  BY <1>1, <1>2, <1>3, <1>4, <1>5, Zenon DEF IInv

(* popcli() does not panic, counts down, and executes sti() if it must. *)
LEMMA PopcliStep ==
  ASSUME IInv, NEW c \in CPU, Popcli(c)
  PROVE  IInv'
<1> USE SpinlockAssumption DEF At, Goto, Arg, Held
<1>0. /\ At(c, "popcli") /\ ncli[c] \in Nat \ {0}
      /\ ncli' = [ncli EXCEPT ![c] = @ - 1]
      /\ fl_if' = IF ncli[c] = 1 /\ intena[c]
                  THEN [fl_if EXCEPT ![c] = TRUE] ELSE fl_if
      /\ arg' = [arg EXCEPT ![c][level[c]] = NoLock]
      /\ Goto(c, "run")
      /\ UNCHANGED <<locked, cpu, intena, level, eflags, held>>
  <2>1. At(c, "popcli")
    BY Zenon DEF Popcli
  <2>2. ncli[c] \in Nat \ {0}
    BY <2>1 DEF IInv, CountInv, Pend
  <2>3. ~ fl_if[c]
    BY <2>1, Zenon DEF IInv, MaskInv, Low
  <2> HIDE DEF Goto
  <2> QED
    BY <2>1, <2>2, <2>3, Zenon DEF Popcli
<1>1. TypeOK'
  BY <1>0, SMTT(60) DEF IInv, TypeOK, Frame, Label
<1>2. FrameInv'
  BY <1>0, SMTT(60) DEF IInv, TypeOK, Frame, FrameInv, Low, PushLabel, AcquireLabel,
     ReleaseLabel
<1>3. CountInv'
  BY <1>0, SMTT(60) DEF IInv, TypeOK, Frame, CountInv, Pend, AcquireLabel
<1>4. MaskInv'
  <2>1. CASE ncli[c] = 1 /\ intena[c]
    BY <1>0, <2>1 DEF IInv, TypeOK, Frame, MaskInv, Low
  <2>2. CASE ~ (ncli[c] = 1 /\ intena[c])
    BY <1>0, <2>2 DEF IInv, TypeOK, Frame, MaskInv, Low
  <2> QED
    BY <2>1, <2>2, Zenon
<1>5. OwnInv'
  <2>1. \A d \in CPU, k \in Frame, l \in Lock :
          /\ Owns(d, k, l)' <=> Owns(d, k, l)
          /\ Marks(d, k, l)' <=> Marks(d, k, l)
    BY <1>0 DEF IInv, TypeOK, Frame, Owns, Marks
  <2> QED
    BY <1>0, <2>1, OwnSame, Zenon DEF IInv
<1> QED
  BY <1>1, <1>2, <1>3, <1>4, <1>5, Zenon DEF IInv

(* An interrupt comes only to a thread that holds nothing. *)
LEMMA InterruptStep ==
  ASSUME IInv, NEW c \in CPU, Interrupt(c)
  PROVE  IInv'
<1> USE SpinlockAssumption DEF At, Goto, Arg, Held
<1>0. /\ level[c] = 0 /\ level'[c] = 1 /\ ncli[c] = 0 /\ Held(c) = {}
      /\ pc[c][level[c]] \in Low
  <2>1. level[c] = 0 /\ ncli[c] = 0 /\ pc[c][level[c]] \in Low
    BY Zenon DEF IInv, Interrupt, MaskInv
  <2>2. Held(c) = {}
    BY <2>1, NcliZero, Zenon DEF Low, AcquireLabel
  <2> QED
    BY <2>1, <2>2 DEF IInv, Interrupt, TypeOK
<1>1. TypeOK'
  BY DEF IInv, Interrupt, TypeOK, Frame, Label
<1>2. FrameInv'
  BY <1>0, SMTT(60) DEF IInv, Interrupt, TypeOK, Frame, FrameInv, Low, PushLabel,
     AcquireLabel, ReleaseLabel
<1>3. CountInv'
  <2>a. FrameInv /\ level'[c] \in Frame /\ level'[c] # level[c]
    BY <1>0, <1>1 DEF IInv, TypeOK
  <2>1. held[c][level'[c]] = {} /\ pc[c][level'[c]] \in Low
    BY <2>a, Zenon DEF FrameInv
  <2>2. Held(c)' = {} /\ Pend(pc'[c][level'[c]]) = 0
    BY <2>1, Zenon DEF Interrupt, Pend, Low, AcquireLabel
  <2>3. \A d \in CPU : d # c => /\ Held(d)' = Held(d)
                               /\ ncli'[d] = ncli[d]
                               /\ pc'[d][level'[d]] = pc[d][level[d]]
    BY Zenon DEF IInv, Interrupt, TypeOK
  <2>4. ncli'[c] = 0
    BY <1>0, Zenon DEF Interrupt
  <2> HIDE DEF Held
  <2>5. /\ IsFiniteSet(Held(c)') /\ Cardinality(Held(c)') \in Nat
        /\ ncli'[c] = Cardinality(Held(c)') + Pend(pc'[c][level'[c]])
    BY <2>2, <2>4, FS_EmptySet
  <2> QED
    BY <2>2, <2>3, <2>5, CountStep, ZenonT(60) DEF IInv
<1>4. MaskInv'
  BY DEF IInv, Interrupt, TypeOK, Frame, MaskInv, Low
<1>5. OwnInv'
  <2>1. \A d \in CPU, k \in Frame, l \in Lock :
          (Owns(d, k, l)' <=> Owns(d, k, l)) /\ (Marks(d, k, l)' <=> Marks(d, k, l))
    BY SMTT(60) DEF IInv, Interrupt, TypeOK, Frame, Owns, Marks
  <2> QED
    BY <2>1, OwnSame, Zenon DEF IInv, Interrupt
<1> QED
  BY <1>1, <1>2, <1>3, <1>4, <1>5, Zenon DEF IInv

(* A handler that holds nothing returns to the thread. *)
LEMMA IretStep ==
  ASSUME IInv, NEW c \in CPU, Iret(c)
  PROVE  IInv'
<1> USE SpinlockAssumption DEF At, Goto, Arg, Held
<1>0. level[c] = 1 /\ level'[c] = 0 /\ ncli[c] = 0
  <2>1. ncli[c] = 0
    BY NcliZero, Zenon DEF Iret, AcquireLabel
  <2> QED
    BY <2>1 DEF IInv, Iret, TypeOK, FrameInv
<1>1. TypeOK'
  BY SMTT(60) DEF IInv, Iret, TypeOK, Frame, Label
<1>2. FrameInv'
  BY SMTT(60) DEF IInv, Iret, TypeOK, Frame, FrameInv, Low, PushLabel,
     AcquireLabel, ReleaseLabel
<1>3. CountInv'
  <2>a. FrameInv /\ level'[c] \in Frame /\ level'[c] # level[c]
    BY <1>0, <1>1, SMTT(60) DEF IInv, TypeOK
  <2>1. held[c][level'[c]] = {} /\ pc[c][level'[c]] \in Low
    BY <2>a, Zenon DEF FrameInv
  <2>2. Held(c)' = {} /\ Pend(pc'[c][level'[c]]) = 0
    BY <2>1, Zenon DEF Iret, Pend, Low, AcquireLabel
  <2>3. \A d \in CPU : d # c => /\ Held(d)' = Held(d)
                               /\ ncli'[d] = ncli[d]
                               /\ pc'[d][level'[d]] = pc[d][level[d]]
    BY Zenon DEF IInv, Iret, TypeOK
  <2>4. ncli'[c] = 0
    BY <1>0, Zenon DEF Iret
  <2> HIDE DEF Held
  <2>5. /\ IsFiniteSet(Held(c)') /\ Cardinality(Held(c)') \in Nat
        /\ ncli'[c] = Cardinality(Held(c)') + Pend(pc'[c][level'[c]])
    BY <2>2, <2>4, FS_EmptySet
  <2> QED
    BY <2>2, <2>3, <2>5, CountStep, ZenonT(60) DEF IInv
<1>4. MaskInv'
  BY <1>0, SMTT(60) DEF IInv, Iret, TypeOK, Frame, FrameInv, MaskInv, Low
<1>5. OwnInv'
  <2>1. \A d \in CPU, k \in Frame, l \in Lock :
          (Owns(d, k, l)' <=> Owns(d, k, l)) /\ (Marks(d, k, l)' <=> Marks(d, k, l))
    BY DEF IInv, Iret, TypeOK, Frame, Owns, Marks
  <2> QED
    BY <2>1, OwnSame, Zenon DEF IInv, Iret
<1> QED
  BY <1>1, <1>2, <1>3, <1>4, <1>5, Zenon DEF IInv

--------------------------------------------------------------------------------
(* Every step of the kernel code of Spinlock keeps the inductive invariant. *)
LEMMA NextIInv == IInv /\ [Next]_vars => IInv'
<1> SUFFICES ASSUME IInv, [Next]_vars PROVE IInv'
  BY Zenon
<1>1. ASSUME NEW c \in CPU, NEW l \in Lock, CallAcquire(c, l) \/ CallRelease(c, l)
      PROVE  IInv'
  BY <1>1, CallAcquireStep, CallReleaseStep, Zenon
<1>2. ASSUME NEW c \in CPU,
             \/ CallMyproc(c) \/ PushcliRead(c) \/ PushcliCli(c) \/ PushcliCount(c)
             \/ Popcli(c) \/ Interrupt(c) \/ Iret(c)
      PROVE  IInv'
  BY <1>2, CallMyprocStep, PushcliReadStep, PushcliCliStep, PushcliCountStep,
     PopcliStep, InterruptStep, IretStep, Zenon
<1>3. ASSUME NEW c \in CPU,
             \/ AcquireHoldingLocked(c) \/ AcquireHoldingCpu(c)
             \/ AcquireXchg(c) \/ AcquireSetCpu(c)
      PROVE  IInv'
  BY <1>3, AcquireHoldingLockedStep, AcquireHoldingCpuStep, AcquireXchgStep,
     AcquireSetCpuStep, Zenon
<1>4. ASSUME NEW c \in CPU,
             \/ ReleaseHoldingLocked(c) \/ ReleaseHoldingCpu(c)
             \/ ReleaseClearCpu(c) \/ ReleaseClearLocked(c)
      PROVE  IInv'
  BY <1>4, ReleaseHoldingLockedStep, ReleaseHoldingCpuStep, ReleaseClearCpuStep,
     ReleaseClearLockedStep, Zenon
<1>5. CASE UNCHANGED vars
  <2>0. /\ locked' = locked /\ cpu' = cpu /\ fl_if' = fl_if /\ ncli' = ncli
        /\ intena' = intena /\ level' = level /\ pc' = pc /\ arg' = arg
        /\ eflags' = eflags /\ held' = held
    BY <1>5, Zenon DEF vars
  <2>1. TypeOK'
    BY <2>0, Zenon DEF IInv, TypeOK
  <2>2. FrameInv'
    BY <2>0, SMTT(60) DEF IInv, FrameInv
  <2>3. CountInv'
    BY <2>0, ZenonT(60) DEF IInv, CountInv, Held
  <2>4. MaskInv'
    BY <2>0, Zenon DEF IInv, MaskInv
  <2>5. OwnInv'
    BY <2>0 DEF IInv, OwnInv, MutualExclusion, Owns, Marks
  <2> QED
    BY <2>1, <2>2, <2>3, <2>4, <2>5, Zenon DEF IInv
<1> QED
  BY <1>1, <1>2, <1>3, <1>4, <1>5, Zenon DEF Next

--------------------------------------------------------------------------------
(* The inductive invariant holds in every reachable state. *)
THEOREM Invariance == Spec => []IInv
  BY InitIInv, NextIInv, PTL DEF Spec

(* Type correctness: in particular ncli never goes below zero and handlers *)
(* stay within the frames of the model.                                    *)
THEOREM TypeCorrect == Spec => []TypeOK
  BY Invariance, PTL DEF IInv

(* Spin locks exclude, for any number of CPUs and locks, and against       *)
(* interrupt handlers on the same CPU.                                     *)
THEOREM MutualExclusionHolds == Spec => []MutualExclusion
<1>1. IInv => MutualExclusion
  BY Zenon DEF IInv, OwnInv
<1> QED
  BY <1>1, Invariance, PTL

(* None of the four panics of spinlock.c can be reached. *)
THEOREM NeverPanics == Spec => []NoPanic
<1>1. IInv => NoPanic
  BY Zenon DEF IInv, FrameInv, NoPanic
<1> QED
  BY <1>1, Invariance, PTL

(* Interrupts are off on a CPU that holds a spin lock. *)
THEOREM AlwaysMasked == Spec => []Masked
<1>1. IInv => Masked
  <2> SUFFICES ASSUME IInv, NEW c \in CPU, NEW k \in 0 .. level[c],
                      held[c][k] # {} \/ pc[c][k] \in Critical
               PROVE  k = level[c] /\ ~ fl_if[c]
    BY Zenon DEF Masked
  <2>1. k \in Frame
    BY SpinlockAssumption DEF IInv, TypeOK, Frame
  <2>2. k = level[c]
    BY <2>1, Zenon DEF IInv, FrameInv, Critical, Low, Label
  <2>3. CASE pc[c][k] \in Critical
    BY <2>2, <2>3, Zenon DEF IInv, MaskInv, Critical, Low
  <2>4. CASE held[c][k] # {} /\ pc[c][k] \notin Critical
    <3>1. pc[c][k] \in Low
      BY <2>1, <2>4, SMTT(60) DEF IInv, TypeOK, FrameInv, Critical, Low
    <3>2. ncli[c] # 0
      BY <2>2, <2>4, <3>1, NcliZero, Zenon DEF Held, Low, AcquireLabel
    <3> QED
      BY <2>2, <3>2, Zenon DEF IInv, MaskInv
  <2> QED
    BY <2>2, <2>3, <2>4, Zenon
<1> QED
  BY <1>1, Invariance, PTL

(* Code that gives back its locks gets back its interrupt state. *)
THEOREM AlwaysRestored == Spec => []IntrRestored
<1>1. IInv => IntrRestored
  <2> SUFFICES ASSUME IInv, NEW c \in CPU
               PROVE  /\ level[c] <= 1
                      /\ At(c, "run") /\ Held(c) = {}
                           => (fl_if[c] <=> level[c] = 0)
    BY Zenon DEF IntrRestored
  <2>1. level[c] <= 1
    BY DEF IInv, FrameInv
  <2>2. ASSUME At(c, "run"), Held(c) = {} PROVE fl_if[c] <=> level[c] = 0
    <3>1. ncli[c] = 0
      BY <2>2, NcliZero, Zenon DEF At, AcquireLabel
    <3> QED
      BY <2>2, <3>1, Zenon DEF IInv, MaskInv, At, Low
  <2> QED
    BY <2>1, <2>2, Zenon
<1> QED
  BY <1>1, Invariance, PTL

(* holding() is exact for the CPU that asks. *)
THEOREM HoldingIsExact == Spec => []HoldingExact
<1>1. IInv => HoldingExact
  <2> SUFFICES ASSUME IInv, NEW c \in CPU, NEW l \in Lock
               PROVE  locked[l] /\ cpu[l] = c <=> \E k \in Frame : Marks(c, k, l)
    BY Zenon DEF HoldingExact, Marks
  <2>1. cpu[l] = c <=> \E k \in Frame : Marks(c, k, l)
    BY MarkedCpu, Zenon DEF IInv
  <2>2. ASSUME NEW k \in Frame, Marks(c, k, l) PROVE locked[l]
    BY <2>2, MarksOwns, Zenon DEF IInv, OwnInv
  <2> QED
    BY <2>1, <2>2, Zenon
<1> QED
  BY <1>1, Invariance, PTL

--------------------------------------------------------------------------------
(* Refinement: Owner is the function the abstract lock speaks of. *)
OwnerOK ==
  /\ Owner \in [Lock -> CPU \cup {NoCPU}]
  /\ \A l \in Lock, c \in CPU : Owner[l] = c <=> \E k \in Frame : Owns(c, k, l)

(* The owner of a locked lock is the CPU of the one frame that owns it. *)
LEMMA OwnerIs == IInv => OwnerOK
<1> SUFFICES ASSUME IInv, NEW l \in Lock
             PROVE  /\ Owner[l] \in CPU \cup {NoCPU}
                    /\ \A c \in CPU :
                         Owner[l] = c <=> \E k \in Frame : Owns(c, k, l)
  <2>1. Owner = [l \in Lock |-> Owner[l]]
    BY DEF Owner
  <2> QED
    BY <2>1, Zenon DEF OwnerOK
<1>1. CASE locked[l]
  <2> DEFINE P(c) == \E k \in Frame : Owns(c, k, l)
  <2>1. PICK d \in CPU : P(d)
    BY <1>1, Zenon DEF IInv, OwnInv
  <2>2. Owner[l] = CHOOSE c \in CPU : P(c)
    BY <1>1, ZenonT(60) DEF Owner
  <2>3. \A c \in CPU : P(c) => c = d
    BY <2>1, OwnsUnique, Zenon DEF IInv
  <2> HIDE DEF P
  <2>4. Owner[l] = d
    BY <2>1, <2>2, <2>3, Zenon
  <2> QED
    BY <2>1, <2>3, <2>4, Zenon DEF P
<1>2. CASE ~ locked[l]
  <2>1. Owner[l] = NoCPU
    BY <1>2, Zenon DEF Owner
  <2>2. \A c \in CPU, k \in Frame : ~ Owns(c, k, l)
    BY <1>2, Zenon DEF IInv, OwnInv
  <2> QED
    BY <2>1, <2>2, SpinlockAssumption, Zenon
<1> QED
  BY <1>1, <1>2, Zenon

(* The same after a step. *)
LEMMA OwnerIsNext == IInv' => OwnerOK'
  BY OwnerIs, PTL

(* A step that changes no ownership is a stuttering step of AbsLock. *)
LEMMA QuietStep ==
  ASSUME OwnerOK, OwnerOK',
         \A d \in CPU, k \in Frame, l \in Lock : Owns(d, k, l)' <=> Owns(d, k, l)
  PROVE  Owner' = Owner
<1> HIDE DEF Owner
<1>1. \A l \in Lock : Owner'[l] = Owner[l]
  BY DEF OwnerOK
<1> QED
  BY <1>1 DEF OwnerOK

(* Every step but the winning xchg and the freeing store changes no        *)
(* ownership.                                                              *)
LEMMA SameOwners ==
  ASSUME IInv, [Next]_vars, \A c \in CPU : ~ AcquireXchg(c) /\ ~ ReleaseClearLocked(c),
         NEW d \in CPU, NEW k \in Frame, NEW l \in Lock
  PROVE  Owns(d, k, l)' <=> Owns(d, k, l)
<1> USE SpinlockAssumption DEF IInv, TypeOK, At, Goto, Arg, Held, Owns
<1>1. ASSUME NEW c \in CPU, NEW m \in Lock, CallAcquire(c, m) \/ CallRelease(c, m)
      PROVE  Owns(d, k, l)' <=> Owns(d, k, l)
  BY <1>1, SMTT(60) DEF CallAcquire, CallRelease
<1>2. ASSUME NEW c \in CPU, CallMyproc(c) \/ PushcliRead(c) \/ PushcliCli(c)
      PROVE  Owns(d, k, l)' <=> Owns(d, k, l)
  <2>1. CASE CallMyproc(c)
    BY <2>1, Zenon DEF CallMyproc
  <2>2. CASE PushcliRead(c)
    BY <2>2, Zenon DEF PushcliRead
  <2>3. CASE PushcliCli(c)
    BY <2>3, Zenon DEF PushcliCli
  <2> QED
    BY <1>2, <2>1, <2>2, <2>3, Zenon
<1>3. ASSUME NEW c \in CPU, PushcliCount(c)
      PROVE  Owns(d, k, l)' <=> Owns(d, k, l)
  BY <1>3, Zenon DEF PushcliCount
<1>4. ASSUME NEW c \in CPU, AcquireHoldingLocked(c)
      PROVE  Owns(d, k, l)' <=> Owns(d, k, l)
  BY <1>4, Zenon DEF AcquireHoldingLocked
<1>5. ASSUME NEW c \in CPU, AcquireHoldingCpu(c)
      PROVE  Owns(d, k, l)' <=> Owns(d, k, l)
  BY <1>5, Zenon DEF AcquireHoldingCpu
<1>6. ASSUME NEW c \in CPU, AcquireSetCpu(c)
      PROVE  Owns(d, k, l)' <=> Owns(d, k, l)
  <2>1. Arg(c) \in Lock
    BY <1>6, Zenon DEF AcquireSetCpu, FrameInv, AcquireLabel
  <2> QED
    BY <1>6, <2>1, Zenon DEF AcquireSetCpu
<1>7. ASSUME NEW c \in CPU, ReleaseHoldingLocked(c)
      PROVE  Owns(d, k, l)' <=> Owns(d, k, l)
  BY <1>7, Zenon DEF ReleaseHoldingLocked
<1>8. ASSUME NEW c \in CPU, ReleaseHoldingCpu(c)
      PROVE  Owns(d, k, l)' <=> Owns(d, k, l)
  BY <1>8, Zenon DEF ReleaseHoldingCpu
<1>9. ASSUME NEW c \in CPU, ReleaseClearCpu(c)
      PROVE  Owns(d, k, l)' <=> Owns(d, k, l)
  BY <1>9, Zenon DEF ReleaseClearCpu
<1>10. ASSUME NEW c \in CPU, Popcli(c)
       PROVE  Owns(d, k, l)' <=> Owns(d, k, l)
  <2>1. At(c, "popcli") /\ held' = held
    BY <1>10, Zenon DEF Popcli
  <2>2. /\ \A e \in CPU, j \in Frame :
             e # c \/ j # level[c] => pc'[e][j] = pc[e][j] /\ arg'[e][j] = arg[e][j]
        /\ pc'[c][level[c]] # "setcpu"
    BY <1>10, SMTT(60) DEF Popcli
  <2>3. Owns(d, k, l)' <=> l \in held[d][k] \/ (pc'[d][k] = "setcpu" /\ arg'[d][k] = l)
    BY <2>1, Zenon
  <2>4. CASE d = c /\ k = level[c]
    BY <2>1, <2>2, <2>3, <2>4, Zenon
  <2>5. CASE ~ (d = c /\ k = level[c])
    <3> HIDE DEF IInv, TypeOK
    <3> QED
      BY <2>2, <2>3, <2>5, Zenon
  <2> QED
    BY <2>4, <2>5, Zenon
<1>11. ASSUME NEW c \in CPU, Interrupt(c) \/ Iret(c)
       PROVE  Owns(d, k, l)' <=> Owns(d, k, l)
  BY <1>11, Zenon DEF Interrupt, Iret
<1>12. CASE UNCHANGED vars
  BY <1>12, Zenon DEF vars
<1> QED
  BY <1>1, <1>2, <1>3, <1>4, <1>5, <1>6, <1>7, <1>8, <1>9, <1>10, <1>11, <1>12, ZenonT(60)
     DEF Next

(* The xchg that finds 0 takes the abstract lock. *)
LEMMA XchgTakes ==
  ASSUME IInv, OwnerOK, OwnerOK', NEW c \in CPU, AcquireXchg(c)
  PROVE  Abs!Acquire(c, Arg(c)) /\ Arg(c) \in Lock
<1> USE DEF At, Goto, Arg
<1>1. level[c] \in Frame /\ Arg(c) \in Lock
  BY Zenon DEF IInv, AcquireXchg, TypeOK, FrameInv, AcquireLabel
<1>2. \A d \in CPU, k \in Frame, l \in Lock :
        Owns(d, k, l)'
          <=> Owns(d, k, l) \/ (d = c /\ k = level[c] /\ l = Arg(c))
  BY <1>1 DEF IInv, AcquireXchg, TypeOK, Owns
<1>3. ~ locked[Arg(c)]
  BY Zenon DEF AcquireXchg
<1> HIDE DEF Arg, Owner
<1>4. Owner[Arg(c)] = NoCPU
  BY <1>1, <1>3, Zenon DEF Owner
<1>5. \A l \in Lock : Owner'[l] = IF l = Arg(c) THEN c ELSE Owner[l]
  <2> SUFFICES ASSUME NEW l \in Lock
               PROVE  Owner'[l] = IF l = Arg(c) THEN c ELSE Owner[l]
    BY Zenon
  <2>1. CASE l = Arg(c)
    BY <1>1, <1>2, <2>1, Zenon DEF OwnerOK
  <2>2. CASE l # Arg(c)
    BY <1>1, <1>2, <2>2 DEF OwnerOK
  <2> QED
    BY <2>1, <2>2, Zenon
<1>6. Owner' = [Owner EXCEPT ![Arg(c)] = c]
  BY <1>1, <1>5, Zenon DEF OwnerOK
<1> QED
  BY <1>1, <1>4, <1>6, Zenon DEF Abs!Acquire

(* The freeing store gives the abstract lock back. *)
LEMMA StoreReleases ==
  ASSUME IInv, OwnerOK, OwnerOK', NEW c \in CPU, ReleaseClearLocked(c)
  PROVE  Abs!Release(c, Arg(c)) /\ Arg(c) \in Lock
<1> USE DEF At, Goto, Arg, Held
<1>1. level[c] \in Frame /\ Arg(c) \in Lock /\ Arg(c) \in Held(c)
  BY SMTT(60) DEF IInv, ReleaseClearLocked, TypeOK, FrameInv, ReleaseLabel
<1>2. \A d \in CPU, k \in Frame, l \in Lock :
        Owns(d, k, l)'
          <=> Owns(d, k, l) /\ ~ (d = c /\ k = level[c] /\ l = Arg(c))
  BY <1>1 DEF IInv, ReleaseClearLocked, TypeOK, Owns
<1>3. Owns(c, level[c], Arg(c))
  BY <1>1, Zenon DEF Owns
<1> HIDE DEF Arg, Owner
<1>4. Owner[Arg(c)] = c
  BY <1>1, <1>3, Zenon DEF OwnerOK
<1>5. \A d \in CPU, k \in Frame, l \in Lock : l = Arg(c) => ~ Owns(d, k, l)'
  <2>1. \A d \in CPU, k \in Frame :
          Owns(d, k, Arg(c)) => d = c /\ k = level[c]
    BY <1>1, <1>3, OwnsUnique, Zenon DEF IInv
  <2> QED
    BY <1>1, <1>2, <2>1, Zenon
<1>6. \A l \in Lock : Owner'[l] = IF l = Arg(c) THEN NoCPU ELSE Owner[l]
  <2> SUFFICES ASSUME NEW l \in Lock
               PROVE  Owner'[l] = IF l = Arg(c) THEN NoCPU ELSE Owner[l]
    BY Zenon
  <2>1. CASE l = Arg(c)
    BY <1>1, <1>5, <2>1, Zenon DEF OwnerOK
  <2>2. CASE l # Arg(c)
    BY <1>1, <1>2, <2>2, SMTT(60) DEF OwnerOK
  <2> QED
    BY <2>1, <2>2, Zenon
<1>7. Owner' = [Owner EXCEPT ![Arg(c)] = NoCPU]
  BY <1>1, <1>6, Zenon DEF OwnerOK
<1> QED
  BY <1>1, <1>4, <1>7, Zenon DEF Abs!Release

(* acquire() and release() implement the abstract lock: each step of the   *)
(* code is a step of AbsLock or leaves every owner unchanged.              *)
THEOREM Refinement == Spec => ImplementsLock
<1>1. Init => Abs!Init
  BY Zenon DEF Init, Abs!Init, Owner
<1>2. IInv /\ IInv' /\ [Next]_vars => [Abs!Next]_Owner
  <2> SUFFICES ASSUME IInv, IInv', [Next]_vars
               PROVE  [Abs!Next]_Owner
    BY Zenon
  <2>1. OwnerOK /\ OwnerOK'
    BY OwnerIs, OwnerIsNext, Zenon
  <2> HIDE DEF Owner
  <2>2. ASSUME NEW c \in CPU, AcquireXchg(c) PROVE Abs!Next
    BY <2>1, <2>2, XchgTakes, Zenon DEF Abs!Next
  <2>3. ASSUME NEW c \in CPU, ReleaseClearLocked(c) PROVE Abs!Next
    BY <2>1, <2>3, StoreReleases, Zenon DEF Abs!Next
  <2>4. CASE \A c \in CPU : ~ AcquireXchg(c) /\ ~ ReleaseClearLocked(c)
    <3>1. Owner' = Owner
      BY <2>1, <2>4, SameOwners, QuietStep, Zenon
    <3> QED
      BY <3>1, Zenon
  <2> QED
    BY <2>2, <2>3, <2>4, Zenon
<1> QED
  BY <1>1, <1>2, Invariance, PTL DEF Spec, ImplementsLock, Abs!Spec
================================================================================
