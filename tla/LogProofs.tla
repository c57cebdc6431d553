-------------------------------- MODULE LogProofs --------------------------------
(***************************************************************************)
(* Proofs about Log: for any processes, blocks and contents, and any sizes *)
(* that satisfy LogAssumption, the steps of operations, the buffer cache   *)
(* and the committer, crashes and recovery preserve an inductive           *)
(* invariant, the invariants of Log hold and it implements AbsLog.         *)
(***************************************************************************)
EXTENDS Log, FiniteSetTheorems, TLAPS


(***************************************************************************)
(* The inductive invariant, in five parts and SleepJustified.              *)
(***************************************************************************)
Committer == {"commit", "write_log", "write_head", "install", "erase", "finish"}
Label == {"idle", "begin", "sleep", "op", "append"} \cup Committer

TypeInv ==
  /\ home \in [Block -> Value]
  /\ logblk \in [1 .. LOGSIZE -> Value]
  /\ head \in Seq(Block)
  /\ cache \in [Block -> Value \cup {NoValue}]
  /\ dirty \subseteq Block
  /\ lh \in Seq(Block)
  /\ outstanding \in Nat
  /\ committing \in BOOLEAN
  /\ pc \in [Proc -> Label]
  /\ buf \in [Proc -> Block \cup {NoBlock}]
  /\ wrote \in [Proc -> SUBSET Block]
  /\ tail \in Nat
  /\ boot \in {"up", "read_head", "install", "erase"}

(* outstanding counts the operations in progress; one process commits, and *)
(* none is in an operation then; nothing runs during recovery; a buffer is *)
(* locked by one process, in the middle of its log_write().                *)
ProcInv ==
  /\ IsFiniteSet(Active) /\ outstanding = Cardinality(Active)
  /\ committing <=> \E p \in Proc : pc[p] \in Committer
  /\ \A p, q \in Proc : pc[p] \in Committer /\ pc[q] \in Committer => p = q
  /\ committing => Active = {}
  /\ boot # "up" => \A p \in Proc : pc[p] = "idle"
  /\ \A p \in Proc : pc[p] = "append" <=> buf[p] # NoBlock
  /\ \A p, q \in Proc : buf[p] = buf[q] /\ buf[p] # NoBlock => p = q

(* The blocks that the operations in progress may still add to lh, one     *)
(* pair for each.                                                          *)
Reserve ==
  {x \in Active \X (1 .. OpBlocks) : Cardinality(wrote[x[1]]) < x[2]}

(* lh, and what may be added to it, leaves two entries of LOGSIZE unused.  *)
SpaceInv ==
  /\ Len(lh) + Cardinality(Reserve) + 2 <= LOGSIZE
  /\ Len(head) + 2 <= LOGSIZE
  /\ \A p \in Proc :
       /\ IsFiniteSet(wrote[p])
       /\ wrote[p] \subseteq Range(lh)
       /\ pc[p] \notin {"op", "append"} => wrote[p] = {}
       /\ pc[p] = "append" => Cardinality(wrote[p] \cup {buf[p]}) <= OpBlocks

Injective(s) == \A i, j \in DOMAIN s : s[i] = s[j] => i = j

(* A buffer that bget() may recycle holds what the disk holds; a pinned or *)
(* locked one stays; header and lh name each block once.                   *)
CacheInv ==
  /\ \A b \in Block : b \notin dirty /\ Unlocked(b) => Bread(b) = home[b]
  /\ \A b \in dirty : cache[b] # NoValue
  /\ \A p \in Proc : buf[p] # NoBlock => cache[buf[p]] # NoValue
  /\ Injective(lh) /\ Injective(head)

Logged(n) == \A i \in 1 .. n : logblk[i] = Bread(lh[i])
Installed(n) == \A i \in 1 .. n : home[lh[i]] = logblk[i]

(* How far the committer or recovery has come. *)
StageInv ==
  /\ boot = "read_head" => lh = <<>> /\ tail = 1
  /\ boot = "install" => lh = head /\ tail \in 1 .. Len(lh) /\ Installed(tail - 1)
  /\ boot = "erase" => lh = head /\ Installed(Len(lh))
  /\ boot # "up" => dirty = {}
  /\ boot = "up" /\ Active = {} /\ ~ committing => lh = <<>>
  /\ boot = "up" /\ (\A p \in Proc : pc[p] \notin {"install", "erase"})
       => head = <<>> /\ dirty = Range(lh)
  /\ \A p \in Proc :
       /\ pc[p] = "write_log" => tail \in 1 .. Len(lh) /\ Logged(tail - 1)
       /\ pc[p] = "write_head" => tail = 1 /\ lh # <<>> /\ Logged(Len(lh))
       /\ pc[p] = "install" => /\ head = lh /\ tail \in 1 .. Len(lh)
                               /\ Logged(Len(lh)) /\ Installed(tail - 1)
                               /\ dirty = {lh[i] : i \in tail .. Len(lh)}
       /\ pc[p] = "erase" => head = lh /\ dirty = {} /\ Installed(Len(lh))
       /\ pc[p] = "finish" => lh = <<>>

IInv == TypeInv /\ ProcInv /\ SpaceInv /\ CacheInv /\ StageInv /\ SleepJustified

--------------------------------------------------------------------------------
(* A sequence that gets a new last element. *)
LEMMA AppendFacts ==
  ASSUME NEW s \in Seq(Block), NEW b \in Block
  PROVE  /\ Append(s, b) \in Seq(Block)
         /\ Len(Append(s, b)) = Len(s) + 1
         /\ Range(Append(s, b)) = Range(s) \cup {b}
         /\ Injective(s) /\ b \notin Range(s) => Injective(Append(s, b))
<1> DEFINE t == Append(s, b)
<1>1. /\ t \in Seq(Block) /\ Len(t) = Len(s) + 1
      /\ DOMAIN t = 1 .. Len(s) + 1 /\ DOMAIN s = 1 .. Len(s) /\ Len(s) \in Nat
      /\ t[Len(s) + 1] = b /\ \A i \in 1 .. Len(s) : t[i] = s[i]
  OBVIOUS
<1> HIDE DEF t
<1>2. Range(t) = Range(s) \cup {b}
  BY <1>1 DEF Range
<1>3. Injective(s) /\ b \notin Range(s) => Injective(t)
  BY <1>1 DEF Range, Injective
<1>4. QED
  BY <1>1, <1>2, <1>3, Zenon DEF t

(* The empty sequence. *)
LEMMA EmptyFacts ==
  /\ <<>> \in Seq(Block) /\ Len(<<>>) = 0 /\ Range(<<>>) = {} /\ Injective(<<>>)
  BY DEF Range, Injective

(* Reserve is finite, and has at most OpBlocks pairs for each operation. *)
LEMMA ReserveFinite ==
  ASSUME IsFiniteSet(Active)
  PROVE  /\ IsFiniteSet(Reserve) /\ Cardinality(Reserve) \in Nat
         /\ Cardinality(Reserve) <= Cardinality(Active) * OpBlocks
         /\ Active = {} => Cardinality(Reserve) = 0
<1>1. OpBlocks \in Nat
  BY LogAssumption, Zenon
<1>2. IsFiniteSet(1 .. OpBlocks) /\ Cardinality(1 .. OpBlocks) = OpBlocks
  BY <1>1, FS_Interval
<1>3. /\ IsFiniteSet(Active \X (1 .. OpBlocks))
      /\ Cardinality(Active \X (1 .. OpBlocks)) = Cardinality(Active) * OpBlocks
  BY <1>2, FS_Product, ZenonT(60)
<1>4. Reserve \subseteq Active \X (1 .. OpBlocks)
  BY Zenon DEF Reserve
<1>5. IsFiniteSet(Reserve) /\ Cardinality(Reserve) <= Cardinality(Active) * OpBlocks
  BY <1>3, <1>4, FS_Subset, Zenon
<1>6. Active = {} => Reserve = {}
  BY Zenon DEF Reserve
<1>7. QED
  BY <1>5, <1>6, FS_CardinalityType, FS_EmptySet, Zenon

(* Operations that each leave a block of their reservation unused. *)
LEMMA OneBlockLess ==
  ASSUME NEW k \in Nat, NEW m \in Nat, NEW n \in Nat, k >= 2, m < n
  PROVE  k * m + 2 <= k * n
<1>1. PICK d \in Nat : n = m + 1 + d
  <2>1. n - m - 1 \in Nat /\ n = m + 1 + (n - m - 1)
    OBVIOUS
  <2>2. QED
    BY <2>1, Zenon
<1>2. k * n = k * m + k + k * d
  BY <1>1
<1>3. k * d \in Nat /\ k * m \in Nat
  OBVIOUS
<1>4. QED
  BY <1>2, <1>3

(* The initial states, and those after a crash. *)
LEMMA InitIInv == Init => IInv
<1> SUFFICES ASSUME Init PROVE IInv
  BY Zenon
<1>0. Active = {} /\ IsFiniteSet({}) /\ Cardinality({}) = 0
  BY FS_EmptySet, Zenon DEF Init, Active
<1>1. TypeInv
  BY EmptyFacts, ZenonT(60) DEF Init, TypeInv, Label
<1>2. ProcInv
  BY <1>0, Zenon DEF Init, ProcInv, Committer
<1>3. SpaceInv
  <2>1. Cardinality(Reserve) = 0
    BY <1>0, ReserveFinite, Zenon
  <2>2. QED
    BY <1>0, <2>1, EmptyFacts, LogAssumption DEF Init, SpaceInv
<1>4. CacheInv
  BY EmptyFacts, Zenon DEF Init, CacheInv, Bread
<1>5. StageInv
  BY Zenon DEF Init, StageInv
<1>6. SleepJustified
  BY Zenon DEF Init, SleepJustified
<1>7. QED
  BY <1>1, <1>2, <1>3, <1>4, <1>5, <1>6, Zenon DEF IInv

(* No operation is in progress exactly when outstanding is 0. *)
LEMMA NoneOutstanding ==
  ASSUME ProcInv
  PROVE  outstanding = 0 <=> Active = {}
  BY FS_EmptySet, Zenon DEF ProcInv

(***************************************************************************)
(* Each action preserves the invariant.                                    *)
(***************************************************************************)
(* begin_op() reserves MAXOPBLOCKS blocks, or sleeps with a reason. *)
LEMMA BeginOpIInv ==
  ASSUME IInv, NEW p \in Proc, BeginOp(p)
  PROVE  IInv'
<1>0. /\ boot = "up" /\ pc[p] \in {"idle", "begin"}
      /\ UNCHANGED <<home, logblk, head, cache, dirty, lh, committing, buf, wrote, tail, boot>>
  BY Zenon DEF BeginOp, disk
<1>1. CASE committing \/ NoRoom
  <2>1. pc' = [pc EXCEPT ![p] = "sleep"] /\ outstanding' = outstanding
    BY <1>1, Zenon DEF BeginOp, Goto
  <2>2. Active' = Active
    BY <1>0, <2>1, Zenon DEF IInv, TypeInv, Active
  <2>3. TypeInv'
    BY <1>0, <2>1, Zenon DEF IInv, TypeInv, Label
  <2>4. ProcInv'
    BY <1>0, <2>1, <2>2 DEF IInv, TypeInv, ProcInv, Committer
  <2>5. SpaceInv'
    <3>1. Reserve' = Reserve
      BY <1>0, <2>2, Zenon DEF Reserve
    <3>2. QED
      BY <1>0, <2>1, <3>1, ZenonT(60) DEF IInv, TypeInv, SpaceInv
  <2>6. CacheInv'
    BY <1>0, Zenon DEF IInv, CacheInv, Unlocked, Bread
  <2>7. StageInv'
    BY <1>0, <2>1, <2>2 DEF IInv, TypeInv, StageInv, Logged, Installed, Bread
  <2>8. SleepJustified'
    <3>1. committing \/ outstanding > 0
      <4>1. SUFFICES ASSUME ~ committing, outstanding = 0 PROVE FALSE
        BY DEF IInv, TypeInv
      <4>2. lh = <<>>
        BY <1>0, <4>1, NoneOutstanding, Zenon DEF IInv, StageInv
      <4>3. QED
        BY <1>1, <4>1, <4>2, LogAssumption DEF NoRoom
    <3>2. NoRoom' = NoRoom
      BY <1>0, <2>1, Zenon DEF NoRoom
    <3>3. QED
      BY <1>0, <1>1, <2>1, <3>1, <3>2, Zenon DEF IInv, TypeInv, SleepJustified
  <2>9. QED
    BY <2>3, <2>4, <2>5, <2>6, <2>7, <2>8, Zenon DEF IInv
<1>2. CASE ~ committing /\ ~ NoRoom
  <2>1. pc' = [pc EXCEPT ![p] = "op"] /\ outstanding' = outstanding + 1
    BY <1>2, Zenon DEF BeginOp, Goto
  <2>2. Active' = Active \cup {p} /\ p \notin Active
    BY <1>0, <2>1, Zenon DEF IInv, TypeInv, Active
  <2>a. IsFiniteSet(Active') /\ Cardinality(Active') = outstanding + 1
    BY <2>2, FS_AddElement, Zenon DEF IInv, ProcInv
  <2>3. TypeInv'
    BY <1>0, <2>1 DEF IInv, TypeInv, Label
  <2>4. ProcInv'
    BY <1>0, <1>2, <2>1, <2>a DEF IInv, TypeInv, ProcInv, Committer
  <2>5. SpaceInv'
    <3>1. Cardinality(Reserve') \in Nat /\ Cardinality(Reserve') <= (outstanding + 1) * OpBlocks
      <4>1. (IsFiniteSet(Active) => /\ Cardinality(Reserve) \in Nat
                                   /\ Cardinality(Reserve) <= Cardinality(Active) * OpBlocks)'
        BY ReserveFinite, PTL
      <4>2. QED
        BY <2>a, <4>1, Zenon
    <3>2. Len(lh) + Cardinality(Reserve') + 2 <= LOGSIZE
      <4>1. CASE outstanding = 0
        <5>1. Len(lh) = 0
          BY <1>0, <1>2, <4>1, NoneOutstanding, EmptyFacts, Zenon DEF IInv, StageInv
        <5>2. QED
          BY <3>1, <4>1, <5>1, LogAssumption
      <4>2. CASE outstanding # 0
        <5>1. Len(lh) \in Nat /\ outstanding + 1 \in Nat /\ outstanding + 1 >= 2
          BY <4>2 DEF IInv, TypeInv
        <5>2. Len(lh) + (outstanding + 1) * MAXOPBLOCKS <= LOGSIZE
          BY <1>2, <5>1, LogAssumption DEF NoRoom
        <5>3. (outstanding + 1) * OpBlocks + 2 <= (outstanding + 1) * MAXOPBLOCKS
          BY <5>1, LogAssumption, OneBlockLess, Zenon
        <5>4. QED
          BY <3>1, <5>1, <5>2, <5>3, LogAssumption, SMTT(60)
      <4>3. QED
        BY <4>1, <4>2, Zenon
    <3>3. QED
      BY <1>0, <2>1, <3>2, ZenonT(60) DEF IInv, TypeInv, SpaceInv
  <2>6. CacheInv'
    BY <1>0, Zenon DEF IInv, CacheInv, Unlocked, Bread
  <2>7. StageInv'
    BY <1>0, <1>2, <2>1, <2>2 DEF IInv, TypeInv, StageInv, Logged, Installed, Bread
  <2>8. SleepJustified'
    BY <1>0, <1>2, <2>1, Zenon DEF IInv, TypeInv, SleepJustified
  <2>9. QED
    BY <2>3, <2>4, <2>5, <2>6, <2>7, <2>8, Zenon DEF IInv
<1>3. QED
  BY <1>1, <1>2, Zenon

(* While an operation is in progress nobody commits or recovers. *)
LEMMA InOperation ==
  ASSUME IInv, NEW p \in Active
  PROVE  /\ boot = "up" /\ ~ committing /\ outstanding > 0
         /\ \A q \in Proc : pc[q] \notin Committer
<1>1. p \in Proc /\ pc[p] # "idle" /\ Active # {}
  BY Zenon DEF Active
<1>2. outstanding # 0
  BY <1>1, NoneOutstanding, Zenon DEF IInv
<1>3. QED
  BY <1>1, <1>2 DEF IInv, TypeInv, ProcInv

(* An operation changes a buffer it has locked; log_write() does not panic. *)
LEMMA OpWriteIInv ==
  ASSUME IInv, NEW p \in Proc, NEW b \in Block, NEW v \in Value, OpWrite(p, b, v)
  PROVE  IInv'
<1>0. /\ pc[p] = "op" /\ Unlocked(b) /\ Cardinality(wrote[p] \cup {b}) <= OpBlocks
      /\ cache' = [cache EXCEPT ![b] = v] /\ buf' = [buf EXCEPT ![p] = b]
      /\ UNCHANGED <<home, logblk, head, dirty, lh, outstanding, committing, wrote, tail, boot>>
  BY Zenon DEF OpWrite, disk, log
<1>1. boot = "up" /\ ~ committing /\ outstanding > 0 /\ \A q \in Proc : pc[q] \notin Committer
  BY <1>0, InOperation, Zenon DEF Active
<1>2. pc' = [pc EXCEPT ![p] = "append"]
  <2>1. Len(lh) \in Nat /\ Cardinality(Reserve) \in Nat
    BY ReserveFinite DEF IInv, TypeInv, ProcInv
  <2>2. ~ TooBig
    BY <2>1, LogAssumption DEF IInv, SpaceInv, TooBig
  <2>3. ~ (outstanding < 1)
    BY <1>1 DEF IInv, TypeInv
  <2>4. QED
    BY <2>2, <2>3, ZenonT(60) DEF OpWrite, Goto
<1>3. Active' = Active
  BY <1>0, <1>2, Zenon DEF IInv, TypeInv, Active
<1>4. TypeInv'
  BY <1>0, <1>2, Zenon DEF IInv, TypeInv, Label
<1>5. ProcInv'
  BY <1>0, <1>1, <1>2, <1>3, LogAssumption, SMTT(60) DEF IInv, TypeInv, ProcInv, Committer, Unlocked
<1>6. SpaceInv'
  <2>1. Reserve' = Reserve
    BY <1>0, <1>3, Zenon DEF Reserve
  <2>2. QED
    BY <1>0, <1>2, <2>1, ZenonT(60) DEF IInv, TypeInv, SpaceInv
<1>7. CacheInv'
  <2>1. b # NoBlock /\ v # NoValue /\ buf'[p] = b /\ \A q \in Proc : q # p => buf'[q] = buf[q]
    BY <1>0, LogAssumption, Zenon DEF IInv, TypeInv
  <2>2. \A c \in Block : c # b /\ (Unlocked(c))' => Unlocked(c)
    <3>1. buf[p] = NoBlock
      BY <1>0, Zenon DEF IInv, ProcInv
    <3>2. QED
      BY <2>1, <3>1, LogAssumption, Zenon DEF Unlocked
  <2>3. ~ (Unlocked(b))'
    BY <2>1, Zenon DEF Unlocked
  <2>4. QED
    BY <1>0, <2>1, <2>2, <2>3 DEF IInv, TypeInv, CacheInv, Bread
<1>8. StageInv'
  BY <1>0, <1>1, <1>2, <1>3, Zenon DEF IInv, TypeInv, StageInv, Committer
<1>9. SleepJustified'
  BY <1>0, <1>2, Zenon DEF IInv, TypeInv, SleepJustified, NoRoom
<1>10. QED
  BY <1>4, <1>5, <1>6, <1>7, <1>8, <1>9, Zenon DEF IInv

(* The rest of log_write() uses one block of the reservation at most. *)
LEMMA LogWriteIInv ==
  ASSUME IInv, NEW p \in Proc, LogWrite(p)
  PROVE  IInv'
<1> DEFINE b == buf[p]
<1>0. /\ pc[p] = "append" /\ pc' = [pc EXCEPT ![p] = "op"]
      /\ lh' = IF b \in Range(lh) THEN lh ELSE Append(lh, b)
      /\ dirty' = dirty \cup {b}
      /\ wrote' = [wrote EXCEPT ![p] = @ \cup {b}]
      /\ buf' = [buf EXCEPT ![p] = NoBlock]
      /\ UNCHANGED <<home, logblk, head, cache, outstanding, committing, tail, boot>>
  BY Zenon DEF LogWrite, disk, Goto
<1>1. boot = "up" /\ ~ committing /\ outstanding > 0 /\ \A q \in Proc : pc[q] \notin Committer
  BY <1>0, InOperation, Zenon DEF Active
<1>2. b \in Block /\ b # NoBlock
  BY <1>0, LogAssumption, Zenon DEF IInv, TypeInv, ProcInv
<1> HIDE DEF b
<1>3. Active' = Active
  BY <1>0, Zenon DEF IInv, TypeInv, Active
<1>a. /\ lh' \in Seq(Block) /\ Range(lh') = Range(lh) \cup {b} /\ Injective(lh')
      /\ Len(lh) \in Nat /\ Len(lh') \in Nat
      /\ Len(lh) <= Len(lh') /\ Len(lh') <= Len(lh) + 1
  BY <1>0, <1>2, AppendFacts DEF IInv, TypeInv, CacheInv
<1>4. TypeInv'
  BY <1>0, <1>2, <1>a, Zenon DEF IInv, TypeInv, Label
<1>5. ProcInv'
  BY <1>0, <1>1, <1>3, Zenon DEF IInv, TypeInv, ProcInv, Committer
<1>6. SpaceInv'
  <2>0. Len(lh) + Cardinality(Reserve) + 2 <= LOGSIZE /\ IsFiniteSet(wrote[p]) /\ IsFiniteSet(Reserve)
    BY ReserveFinite, ZenonT(60) DEF IInv, ProcInv, SpaceInv
  <2>1. Len(lh') + Cardinality(Reserve') + 2 <= LOGSIZE
    <3>1. CASE b \in wrote[p]
      <4>1. lh' = lh /\ wrote' = wrote
        BY <1>0, <3>1, ZenonT(60) DEF IInv, TypeInv, SpaceInv
      <4>2. Reserve' = Reserve
        BY <1>3, <4>1, Zenon DEF Reserve
      <4>3. QED
        BY <2>0, <4>1, <4>2, Zenon
    <3>2. CASE b \notin wrote[p]
      <4> DEFINE c == Cardinality(wrote[p])
      <4>1. c \in Nat /\ Cardinality(wrote[p] \cup {b}) = c + 1
        BY <2>0, <3>2, FS_AddElement, FS_CardinalityType, ZenonT(60)
      <4>2. c + 1 <= OpBlocks
        BY <1>0, <4>1, Zenon DEF IInv, SpaceInv, b
      <4>3. \A q \in Proc : wrote'[q] = IF q = p THEN wrote[p] \cup {b} ELSE wrote[q]
        BY <1>0, Zenon DEF IInv, TypeInv
      <4> HIDE DEF c
      <4>4. p \in Active /\ Active \subseteq Proc
        BY <1>0, Zenon DEF Active
      <4>5. <<p, c + 1>> \in Reserve
        BY <4>1, <4>2, <4>4, LogAssumption DEF Reserve, c
      <4>6. Reserve' = Reserve \ {<<p, c + 1>>}
        <5>1. \A q \in Active, k \in 1 .. OpBlocks :
                Cardinality(wrote'[q]) < k <=> Cardinality(wrote[q]) < k /\ ~ (q = p /\ k = c + 1)
          <6> SUFFICES ASSUME NEW q \in Active, NEW k \in 1 .. OpBlocks
                       PROVE  Cardinality(wrote'[q]) < k
                                <=> Cardinality(wrote[q]) < k /\ ~ (q = p /\ k = c + 1)
            BY Zenon
          <6>1. ASSUME q # p PROVE wrote'[q] = wrote[q]
            BY <4>3, <4>4, <6>1, Zenon
          <6>2. ASSUME q = p PROVE Cardinality(wrote'[q]) = c + 1 /\ Cardinality(wrote[q]) = c
            BY <4>1, <4>3, <4>4, <6>2, Zenon DEF c
          <6>3. k \in Int
            BY LogAssumption
          <6>4. c + 1 < k <=> c < k /\ k # c + 1
            BY <4>1, <6>3
          <6> QED
            BY <6>1, <6>2, <6>4, Zenon
        <5>2. \A x \in Active \X (1 .. OpBlocks) :
                /\ x[1] \in Active /\ x[2] \in 1 .. OpBlocks
                /\ x = <<p, c + 1>> <=> x[1] = p /\ x[2] = c + 1
          OBVIOUS
        <5>3. QED
          BY <1>3, <5>1, <5>2, Zenon DEF Reserve
      <4>7. Cardinality(Reserve') = Cardinality(Reserve) - 1
        BY <2>0, <4>5, <4>6, FS_RemoveElement, ZenonT(60)
      <4>8. Cardinality(Reserve) \in Nat /\ LOGSIZE \in Nat
        BY <2>0, FS_CardinalityType, LogAssumption, Zenon
      <4>9. QED
        BY <1>a, <2>0, <4>7, <4>8
    <3>3. QED
      BY <3>1, <3>2, Zenon
  <2>2. \A q \in Proc : IsFiniteSet(wrote'[q]) /\ wrote'[q] \subseteq Range(lh')
    BY <1>0, <1>a, <2>0, FS_AddElement, ZenonT(60) DEF IInv, TypeInv, SpaceInv
  <2>3. QED
    BY <1>0, <2>1, <2>2, ZenonT(60) DEF IInv, TypeInv, SpaceInv
<1>7. CacheInv'
  <2>1. \A c \in Block : c # b /\ (Unlocked(c))' => Unlocked(c)
    BY <1>0, LogAssumption, Zenon DEF IInv, TypeInv, Unlocked, b
  <2>2. cache[b] # NoValue
    BY <1>2, Zenon DEF IInv, CacheInv, b
  <2>3. QED
    BY <1>0, <1>a, <2>1, <2>2, Zenon DEF IInv, TypeInv, CacheInv, Bread
<1>8. StageInv'
  <2>1. \A q \in Proc : pc'[q] \notin Committer
    BY <1>0, <1>1, Zenon DEF IInv, TypeInv, Committer
  <2>2. head' = <<>> /\ dirty' = Range(lh')
    BY <1>0, <1>1, <1>a, Zenon DEF IInv, StageInv, Committer
  <2>3. boot' = "up" /\ Active' # {}
    BY <1>0, <1>1, <1>3, Zenon DEF Active
  <2>4. QED
    BY <2>1, <2>2, <2>3, Zenon DEF StageInv, Committer
<1>9. SleepJustified'
  <2>1. NoRoom => NoRoom'
    BY <1>0, <1>a, LogAssumption, SMTT(60) DEF IInv, TypeInv, NoRoom
  <2>2. QED
    BY <1>0, <2>1, Zenon DEF IInv, TypeInv, SleepJustified
<1>10. QED
  BY <1>4, <1>5, <1>6, <1>7, <1>8, <1>9, Zenon DEF IInv

(* end_op() ends an operation; the last one becomes the committer. *)
LEMMA EndOpIInv ==
  ASSUME IInv, NEW p \in Proc, EndOp(p)
  PROVE  IInv'
<1>1. pc[p] = "op" /\ p \in Active
  BY Zenon DEF EndOp, Active
<1>2. boot = "up" /\ ~ committing /\ outstanding > 0 /\ \A q \in Proc : pc[q] \notin Committer
  BY <1>1, InOperation, Zenon
<1>3. /\ outstanding' = outstanding - 1 /\ committing' = (outstanding = 1)
      /\ wrote' = [wrote EXCEPT ![p] = {}]
      /\ UNCHANGED <<home, logblk, head, cache, dirty, lh, buf, tail, boot>>
  BY <1>2, Zenon DEF EndOp, disk
<1>4. \A q \in Proc : pc'[q] = IF q = p THEN (IF outstanding = 1 THEN "commit" ELSE "idle")
                              ELSE IF pc[q] = "sleep" /\ outstanding # 1 THEN "begin" ELSE pc[q]
  BY <1>2, Zenon DEF EndOp, Goto, WakeupAndGoto, IInv, TypeInv
<1>a. pc' \in [Proc -> Label]
  <2>1. CASE outstanding = 1
    BY <1>2, <2>1, Zenon DEF EndOp, Goto, IInv, TypeInv, Label, Committer
  <2>2. CASE outstanding # 1
    BY <1>2, <2>2 DEF EndOp, WakeupAndGoto, IInv, TypeInv, Label
  <2>3. QED
    BY <2>1, <2>2, Zenon
<1>5. Active' = Active \ {p}
  BY <1>1, <1>4, Zenon DEF Active
<1>6. IsFiniteSet(Active') /\ Cardinality(Active') = outstanding'
  BY <1>1, <1>3, <1>5, FS_RemoveElement, Zenon DEF IInv, ProcInv
<1>7. outstanding \in Nat /\ (outstanding = 1 <=> Active' = {})
  BY <1>3, <1>6, FS_EmptySet DEF IInv, TypeInv
<1>8. TypeInv'
  <2>1. outstanding' \in Nat /\ committing' \in BOOLEAN
    BY <1>2, <1>3, <1>7
  <2>2. QED
    BY <1>3, <1>a, <2>1, ZenonT(60) DEF IInv, TypeInv
<1>9. ProcInv'
  BY <1>1, <1>2, <1>3, <1>4, <1>6, <1>7, ZenonT(60) DEF IInv, ProcInv, Committer
<1>10. SpaceInv'
  <2>1. \A q \in Proc : wrote'[q] = IF q = p THEN {} ELSE wrote[q]
    BY <1>3, Zenon DEF IInv, TypeInv
  <2>2. Reserve' \subseteq Reserve
    BY <1>5, <2>1, Zenon DEF Reserve, Active
  <2>3. /\ Cardinality(Reserve) \in Nat /\ Cardinality(Reserve') \in Nat
        /\ Cardinality(Reserve') <= Cardinality(Reserve)
    BY <2>2, ReserveFinite, FS_Subset, FS_CardinalityType, Zenon DEF IInv, ProcInv
  <2>4. Len(lh) \in Nat /\ LOGSIZE \in Nat
    BY LogAssumption DEF IInv, TypeInv
  <2>5. Len(lh') + Cardinality(Reserve') + 2 <= LOGSIZE
    BY <1>3, <2>3, <2>4, SMTT(60) DEF IInv, SpaceInv
  <2>6. QED
    BY <1>3, <1>4, <2>1, <2>5, FS_EmptySet DEF IInv, SpaceInv
<1>11. CacheInv'
  BY <1>3, Zenon DEF IInv, CacheInv, Unlocked, Bread
<1>12. StageInv'
  BY <1>2, <1>3, <1>4, <1>7, ZenonT(60) DEF IInv, StageInv, Committer
<1>13. SleepJustified'
  BY <1>3, <1>4, ZenonT(60) DEF SleepJustified
<1>14. QED
  BY <1>8, <1>9, <1>10, <1>11, <1>12, <1>13, Zenon DEF IInv

(* A step that changes only the cache, and no block's contents. *)
LEMMA CacheStep ==
  ASSUME IInv, UNCHANGED <<home, logblk, head, dirty, lh, outstanding, committing, pc, buf, wrote,
                           tail, boot>>,
         cache' \in [Block -> Value \cup {NoValue}],
         \A b \in Block : (Bread(b))' = Bread(b),
         \A b \in dirty : cache'[b] # NoValue,
         \A p \in Proc : buf[p] # NoBlock => cache'[buf[p]] # NoValue
  PROVE  IInv'
<1>1. Active' = Active /\ Reserve' = Reserve
  BY Zenon DEF Active, Reserve
<1>2. TypeInv' /\ ProcInv' /\ SleepJustified'
  BY <1>1, Zenon DEF IInv, TypeInv, ProcInv, SleepJustified, NoRoom
<1>3. SpaceInv'
  BY <1>1, ZenonT(60) DEF IInv, SpaceInv
<1>4. CacheInv'
  BY Zenon DEF IInv, CacheInv, Unlocked
<1>5. StageInv'
  <2>1. \A n \in Nat : n <= Len(lh) /\ Logged(n) => (Logged(n))'
    <3>1. \A i \in 1 .. Len(lh) : lh[i] \in Block /\ lh'[i] = lh[i] /\ logblk'[i] = logblk[i]
      BY DEF IInv, TypeInv
    <3>2. QED
      BY <3>1 DEF Logged, Bread
  <2>2. \A n : Installed(n) => (Installed(n))'
    BY Zenon DEF Installed
  <2>3. \A p \in Proc :
          /\ pc[p] = "write_log" => (Logged(tail - 1))'
          /\ pc[p] \in {"write_head", "install"} => (Logged(Len(lh)))'
    BY <2>1, SMTT(60) DEF IInv, TypeInv, StageInv
  <2>4. QED
    BY <1>1, <2>2, <2>3, SMTT(60) DEF IInv, StageInv
<1>6. QED
  BY <1>2, <1>3, <1>4, <1>5, Zenon DEF IInv

(* bread() brings a block into the cache. *)
LEMMA FetchIInv ==
  ASSUME IInv, NEW b \in Block, Fetch(b)
  PROVE  IInv'
<1>1. /\ cache' = [cache EXCEPT ![b] = home[b]] /\ cache[b] = NoValue
      /\ UNCHANGED <<home, logblk, head, dirty, lh, outstanding, committing, pc, buf, wrote,
                     tail, boot>>
  BY ZenonT(60) DEF Fetch, Bread, disk, log, procs
<1>2. home[b] \in Value /\ home[b] # NoValue
  BY LogAssumption DEF IInv, TypeInv
<1>3. cache' \in [Block -> Value \cup {NoValue}] /\ \A c \in Block : (Bread(c))' = Bread(c)
  BY <1>1, <1>2, Zenon DEF IInv, TypeInv, Bread
<1>4. QED
  BY <1>1, <1>2, <1>3, CacheStep, Zenon DEF IInv, TypeInv, CacheInv

(* bget() recycles a buffer that is neither pinned nor locked. *)
LEMMA EvictIInv ==
  ASSUME IInv, NEW b \in Block, Evict(b)
  PROVE  IInv'
<1>1. /\ cache' = [cache EXCEPT ![b] = NoValue] /\ Unlocked(b) /\ b \notin dirty
      /\ UNCHANGED <<home, logblk, head, dirty, lh, outstanding, committing, pc, buf, wrote,
                     tail, boot>>
  BY Zenon DEF Evict, disk, log, procs
<1>2. cache' \in [Block -> Value \cup {NoValue}]
  BY <1>1, Zenon DEF IInv, TypeInv
<1>3. \A c \in Block : (Bread(c))' = Bread(c)
  BY <1>1, Zenon DEF IInv, TypeInv, CacheInv, Bread
<1>4. QED
  BY <1>1, <1>2, <1>3, CacheStep DEF IInv, TypeInv, CacheInv, Unlocked

--------------------------------------------------------------------------------
(* While a process commits, nobody is in an operation, and no buffer is    *)
(* locked between two of its steps.                                        *)
LEMMA InCommit ==
  ASSUME IInv, NEW p \in Proc, pc[p] \in Committer
  PROVE  /\ boot = "up" /\ committing /\ outstanding = 0 /\ Active = {}
         /\ \A q \in Proc : pc[q] \in {"idle", "begin", "sleep"} \/ q = p
         /\ \A q \in Proc : buf[q] = NoBlock
         /\ \A b \in Block : Unlocked(b)
<1>1. committing /\ Active = {} /\ boot = "up"
  BY Zenon DEF IInv, ProcInv, Committer
<1>2. outstanding = 0
  BY <1>1, NoneOutstanding, Zenon DEF IInv
<1>3. \A q \in Proc : pc[q] \in {"idle", "begin", "sleep"} \/ q = p
  BY <1>1 DEF IInv, TypeInv, ProcInv, Active, Label
<1>4. \A q \in Proc : buf[q] = NoBlock
  BY <1>3, Zenon DEF IInv, ProcInv, Committer
<1>5. QED
  BY <1>1, <1>2, <1>3, <1>4, LogAssumption, Zenon DEF Unlocked

(* What SpaceInv says of lengths. *)
LEMMA SizeFacts ==
  ASSUME IInv
  PROVE  Len(lh) \in Nat /\ Len(lh) + 2 <= LOGSIZE /\ Len(head) + 2 <= LOGSIZE
<1>1. Len(lh) \in Nat /\ LOGSIZE \in Nat /\ Cardinality(Reserve) \in Nat
  BY ReserveFinite, LogAssumption DEF IInv, TypeInv, ProcInv
<1>2. QED
  BY <1>1 DEF IInv, SpaceInv

(* What a step of the committer that goes on committing leaves to show.    *)
LEMMA CommitStep ==
  ASSUME IInv, NEW p \in Proc, pc[p] \in Committer,
         NEW l \in Committer, pc' = [pc EXCEPT ![p] = l],
         UNCHANGED <<outstanding, committing, buf, wrote, boot>>,
         TypeInv', CacheInv', StageInv', Len(lh') + 2 <= LOGSIZE, Len(head') + 2 <= LOGSIZE
  PROVE  IInv'
<1>1. /\ boot = "up" /\ committing /\ outstanding = 0 /\ Active = {}
      /\ \A q \in Proc : pc[q] \in {"idle", "begin", "sleep"} \/ q = p
      /\ \A q \in Proc : buf[q] = NoBlock
  BY InCommit, Zenon
<1>2. Active' = {}
  BY <1>1, Zenon DEF IInv, TypeInv, Active, Committer
<1>3. ProcInv'
  BY <1>1, <1>2, FS_EmptySet DEF IInv, TypeInv, ProcInv, Committer
<1>4. SpaceInv'
  <2>1. \A q \in Proc : wrote'[q] = {} /\ pc'[q] # "append"
    BY <1>1, ZenonT(60) DEF IInv, TypeInv, SpaceInv, Committer
  <2>2. Reserve' = {}
    BY <1>2, Zenon DEF Reserve
  <2>3. Len(lh') + Cardinality(Reserve') + 2 <= LOGSIZE
    BY <2>2, FS_EmptySet DEF TypeInv
  <2>4. QED
    BY <2>1, <2>3, FS_EmptySet, ZenonT(60) DEF SpaceInv
<1>5. SleepJustified'
  BY <1>1, Zenon DEF SleepJustified
<1>6. QED
  BY <1>3, <1>4, <1>5, Zenon DEF IInv

(* commit() begins, or has nothing to do. *)
LEMMA CommitIInv ==
  ASSUME IInv, NEW p \in Proc, Commit(p)
  PROVE  IInv'
<1>1. /\ pc[p] = "commit" /\ tail' = 1
      /\ UNCHANGED <<home, logblk, head, cache, dirty, lh, outstanding, committing, buf, wrote, boot>>
      /\ pc' = [pc EXCEPT ![p] = IF lh = <<>> THEN "finish" ELSE "write_log"]
  BY Zenon DEF Commit, Goto, disk, log
<1>2. /\ boot = "up" /\ committing
      /\ \A q \in Proc : pc[q] \in {"idle", "begin", "sleep"} \/ q = p
  BY <1>1, InCommit, Zenon DEF Committer
<1>3. TypeInv'
  BY <1>1, Zenon DEF IInv, TypeInv, Label, Committer
<1>4. CacheInv'
  BY <1>1, Zenon DEF IInv, CacheInv, Bread, Unlocked
<1>5. StageInv'
  <2>1. head = <<>> /\ dirty = Range(lh)
    BY <1>1, <1>2, Zenon DEF IInv, StageInv
  <2>2. lh # <<>> => 1 \in 1 .. Len(lh)
    BY DEF IInv, TypeInv
  <2>3. (Logged(tail - 1))'
    BY <1>1 DEF Logged
  <2>4. QED
    BY <1>1, <1>2, <2>1, <2>2, <2>3, SMTT(60) DEF IInv, TypeInv, StageInv
<1>6. Len(lh') + 2 <= LOGSIZE /\ Len(head') + 2 <= LOGSIZE
  BY <1>1, SizeFacts, Zenon
<1>7. QED
  BY <1>1, <1>3, <1>4, <1>5, <1>6, CommitStep, ZenonT(60) DEF Committer

(* write_log() copies one buffer to the log. *)
LEMMA WriteLogIInv ==
  ASSUME IInv, NEW p \in Proc, WriteLog(p)
  PROVE  IInv'
<1>1. /\ pc[p] = "write_log"
      /\ logblk' = [logblk EXCEPT ![tail] = Bread(lh[tail])]
      /\ tail' = IF tail = Len(lh) THEN 1 ELSE tail + 1
      /\ pc' = [pc EXCEPT ![p] = IF tail = Len(lh) THEN "write_head" ELSE "write_log"]
      /\ UNCHANGED <<home, head, cache, dirty, lh, outstanding, committing, buf, wrote, boot>>
  BY Zenon DEF WriteLog, Goto, log
<1>2. /\ boot = "up" /\ committing
      /\ \A q \in Proc : pc[q] \in {"idle", "begin", "sleep"} \/ q = p
  BY <1>1, InCommit, Zenon DEF Committer
<1>3. tail \in 1 .. Len(lh) /\ Logged(tail - 1)
  BY <1>1, Zenon DEF IInv, StageInv
<1>4. /\ Len(lh) \in Nat /\ Len(lh) + 2 <= LOGSIZE /\ Len(head) + 2 <= LOGSIZE
      /\ tail \in 1 .. LOGSIZE /\ lh[tail] \in Block
  BY <1>3, SizeFacts, LogAssumption, SMTT(60) DEF IInv, TypeInv
<1>5. TypeInv'
  <2>1. Bread(lh[tail]) \in Value
    BY <1>4, Zenon DEF IInv, TypeInv, Bread
  <2>2. QED
    BY <1>1, <1>4, <2>1, SMTT(60) DEF IInv, TypeInv, Label, Committer
<1>6. CacheInv'
  BY <1>1, Zenon DEF IInv, CacheInv, Bread, Unlocked
<1>7. StageInv'
  <2>1. \A i \in 1 .. tail : logblk'[i] = Bread(lh[i])
    BY <1>1, <1>3, <1>4 DEF IInv, TypeInv, Logged
  <2>2. \A b : (Bread(b))' = Bread(b)
    BY <1>1, Zenon DEF Bread
  <2>3. head = <<>> /\ dirty = Range(lh)
    BY <1>1, <1>2, Zenon DEF IInv, StageInv
  <2>4. \A q \in Proc : pc'[q] = IF q # p THEN pc[q]
                                 ELSE IF tail = Len(lh) THEN "write_head" ELSE "write_log"
    BY <1>1, Zenon DEF IInv, TypeInv
  <2>5. CASE tail = Len(lh)
    <3>1. (Logged(Len(lh)))' /\ lh' # <<>> /\ tail' = 1
      BY <1>1, <1>3, <2>1, <2>2, <2>5, SMTT(60) DEF Logged
    <3>2. QED
      BY <1>1, <1>2, <2>3, <2>4, <2>5, <3>1 DEF StageInv
  <2>6. CASE tail # Len(lh)
    <3>1. (Logged(tail - 1))' /\ tail' \in 1 .. Len(lh')
      BY <1>1, <1>3, <1>4, <2>1, <2>2, <2>6 DEF Logged
    <3>2. QED
      BY <1>1, <1>2, <2>3, <2>4, <2>6, <3>1, Zenon DEF StageInv
  <2>7. QED
    BY <2>5, <2>6, Zenon
<1>8. QED
  BY <1>1, <1>4, <1>5, <1>6, <1>7, CommitStep, ZenonT(60) DEF Committer

(* write_head() makes the transaction durable. *)
LEMMA WriteHeadIInv ==
  ASSUME IInv, NEW p \in Proc, WriteHead(p)
  PROVE  IInv'
<1>1. /\ pc[p] = "write_head" /\ head' = lh
      /\ pc' = [pc EXCEPT ![p] = "install"]
      /\ UNCHANGED <<home, logblk, cache, dirty, lh, outstanding, committing, buf, wrote, tail, boot>>
  BY Zenon DEF WriteHead, Goto, log
<1>2. /\ boot = "up" /\ committing
      /\ \A q \in Proc : pc[q] \in {"idle", "begin", "sleep"} \/ q = p
  BY <1>1, InCommit, Zenon DEF Committer
<1>3. TypeInv'
  BY <1>1, Zenon DEF IInv, TypeInv, Label, Committer
<1>4. CacheInv'
  BY <1>1, Zenon DEF IInv, CacheInv, Bread, Unlocked
<1>5. StageInv'
  <2>1. tail = 1 /\ lh # <<>> /\ Logged(Len(lh)) /\ dirty = Range(lh)
    BY <1>1, <1>2, Zenon DEF IInv, StageInv
  <2>2. tail \in 1 .. Len(lh) /\ dirty = {lh[i] : i \in 1 .. Len(lh)}
    BY <2>1 DEF IInv, TypeInv, Range
  <2>3. (Logged(Len(lh)) /\ Installed(tail - 1))'
    BY <1>1, <2>1 DEF Logged, Installed, Bread
  <2>4. \A q \in Proc : pc'[q] = IF q = p THEN "install" ELSE pc[q]
    BY <1>1, Zenon DEF IInv, TypeInv
  <2>5. QED
    BY <1>1, <1>2, <2>1, <2>2, <2>3, <2>4, SMTT(60) DEF StageInv
<1>6. Len(lh') + 2 <= LOGSIZE /\ Len(head') + 2 <= LOGSIZE
  BY <1>1, SizeFacts, Zenon
<1>7. QED
  BY <1>1, <1>3, <1>4, <1>5, <1>6, CommitStep, ZenonT(60) DEF Committer

(* One round of install_trans(), in a commit or in recovery. *)
LEMMA InstallFacts ==
  ASSUME IInv, InstallBlock, UNCHANGED <<logblk, head, lh, buf>>,
         tail \in 1 .. Len(lh), Installed(tail - 1)
  PROVE  /\ home' \in [Block -> Value] /\ cache' \in [Block -> Value \cup {NoValue}]
         /\ dirty' \subseteq Block /\ tail' \in Nat
         /\ CacheInv'
         /\ \A i \in 1 .. tail : home'[lh[i]] = logblk[i]
         /\ tail = Len(lh) => (Installed(Len(lh)))'
         /\ tail # Len(lh) => (tail \in 1 .. Len(lh) /\ Installed(tail - 1))'
         /\ \A b \in Block : (Bread(b))' = IF b = lh[tail] THEN logblk[tail] ELSE Bread(b)
<1>1. /\ home' = [home EXCEPT ![lh[tail]] = logblk[tail]]
      /\ cache' = [cache EXCEPT ![lh[tail]] = logblk[tail]]
      /\ dirty' = dirty \ {lh[tail]}
      /\ tail' = IF tail = Len(lh) THEN 1 ELSE tail + 1
  BY Zenon DEF InstallBlock
<1>2. /\ Len(lh) \in Nat /\ tail \in 1 .. LOGSIZE /\ lh[tail] \in Block /\ DOMAIN lh = 1 .. Len(lh)
      /\ \A i \in 1 .. Len(lh) : lh[i] \in Block
  BY SizeFacts, LogAssumption, SMTT(60) DEF IInv, TypeInv
<1>3. /\ home' \in [Block -> Value] /\ cache' \in [Block -> Value \cup {NoValue}]
      /\ dirty' \subseteq Block /\ tail' \in Nat
  <2>1. logblk[tail] \in Value
    BY <1>2, Zenon DEF IInv, TypeInv
  <2>2. home' \in [Block -> Value] /\ cache' \in [Block -> Value \cup {NoValue}]
    BY <1>1, <2>1, Zenon DEF IInv, TypeInv
  <2>3. dirty' \subseteq Block /\ tail' \in Nat
    BY <1>1 DEF IInv, TypeInv
  <2>4. QED
    BY <2>2, <2>3, Zenon
<1>4. \A b \in Block : (Bread(b))' = IF b = lh[tail] THEN logblk[tail] ELSE Bread(b)
  <2>1. logblk[tail] # NoValue
    <3>1. logblk[tail] \in Value
      BY <1>2, Zenon DEF IInv, TypeInv
    <3> QED
      BY <3>1, LogAssumption, Zenon
  <2>2. QED
    BY <1>1, <2>1, Zenon DEF IInv, TypeInv, Bread
<1>5. CacheInv'
  <2>1. \A b \in Block : home'[b] = IF b = lh[tail] THEN logblk[tail] ELSE home[b]
    BY <1>1, <1>2, ZenonT(60) DEF IInv, TypeInv
  <2>2. \A b \in Block : cache'[b] = IF b = lh[tail] THEN logblk[tail] ELSE cache[b]
    BY <1>1, <1>2, ZenonT(60) DEF IInv, TypeInv
  <2>3. logblk[tail] # NoValue
    <3>1. logblk[tail] \in Value
      BY <1>2, Zenon DEF IInv, TypeInv
    <3> QED
      BY <3>1, LogAssumption, Zenon
  <2>4. \A b \in Block : b \notin dirty' /\ (Unlocked(b))' => (Bread(b))' = home'[b]
    BY <1>1, <1>4, <2>1, Zenon DEF IInv, CacheInv, Unlocked
  <2>5. QED
    BY <1>1, <1>2, <2>2, <2>3, <2>4, ZenonT(60) DEF IInv, TypeInv, CacheInv
<1>6. \A i \in 1 .. tail : home'[lh[i]] = logblk[i]
  <2>1. SUFFICES ASSUME NEW i \in 1 .. tail PROVE home'[lh[i]] = logblk[i]
    BY Zenon
  <2>2. i \in 1 .. Len(lh) /\ (i = tail \/ i \in 1 .. tail - 1)
    BY <1>2
  <2>3. lh[i] \in Block /\ (lh[i] = lh[tail] => i = tail)
    BY <1>2, <2>2, Zenon DEF IInv, CacheInv, Injective
  <2>4. home'[lh[i]] = IF lh[i] = lh[tail] THEN logblk[tail] ELSE home[lh[i]]
    BY <1>1, <2>3, Zenon DEF IInv, TypeInv
  <2>5. QED
    BY <2>2, <2>3, <2>4, Zenon DEF Installed
<1>7. tail = Len(lh) => (Installed(Len(lh)))'
  BY <1>6, Zenon DEF Installed
<1>8. tail # Len(lh) => (tail \in 1 .. Len(lh) /\ Installed(tail - 1))'
  <2>1. SUFFICES ASSUME tail # Len(lh)
                 PROVE  tail' \in 1 .. Len(lh') /\ (Installed(tail - 1))'
    BY Zenon
  <2>2. tail' = tail + 1 /\ tail \in Nat /\ lh' = lh
    BY <1>1, <2>1, Zenon DEF IInv, TypeInv
  <2>3. tail' \in 1 .. Len(lh')
    <3>1. tail >= 1 /\ tail <= Len(lh)
      OBVIOUS
    <3>2. Len(lh) \in Nat
      BY <1>2, Zenon
    <3>3. tail + 1 >= 1 /\ tail + 1 <= Len(lh) /\ tail + 1 \in Nat
      BY <2>1, <2>2, <3>1, <3>2
    <3>4. QED
      BY <2>2, <3>2, <3>3
  <2>4. tail' - 1 = tail
    BY <2>2, SMTT(60)
  <2>5. QED
    BY <1>6, <2>3, <2>4, ZenonT(60) DEF Installed
<1>9. QED
  BY <1>3, <1>4, <1>5, <1>6, <1>7, <1>8, Zenon

(* install_trans() copies one block of the transaction home. *)
LEMMA InstallIInv ==
  ASSUME IInv, NEW p \in Proc, Install(p)
  PROVE  IInv'
<1>1. /\ pc[p] = "install" /\ InstallBlock
      /\ pc' = [pc EXCEPT ![p] = IF tail = Len(lh) THEN "erase" ELSE "install"]
      /\ UNCHANGED <<logblk, head, lh, outstanding, committing, buf, wrote, boot>>
  BY Zenon DEF Install, Goto, log
<1>2. /\ boot = "up" /\ committing
      /\ \A q \in Proc : pc[q] \in {"idle", "begin", "sleep"} \/ q = p
  BY <1>1, InCommit, Zenon DEF Committer
<1>3. /\ head = lh /\ tail \in 1 .. Len(lh) /\ Logged(Len(lh)) /\ Installed(tail - 1)
      /\ dirty = {lh[i] : i \in tail .. Len(lh)}
  BY <1>1, Zenon DEF IInv, StageInv
<1>4. /\ home' \in [Block -> Value] /\ cache' \in [Block -> Value \cup {NoValue}]
      /\ dirty' \subseteq Block /\ tail' \in Nat
      /\ CacheInv'
      /\ tail = Len(lh) => (Installed(Len(lh)))'
      /\ tail # Len(lh) => (tail \in 1 .. Len(lh) /\ Installed(tail - 1))'
      /\ \A b \in Block : (Bread(b))' = IF b = lh[tail] THEN logblk[tail] ELSE Bread(b)
  BY <1>1, <1>3, InstallFacts, ZenonT(60)
<1>5. TypeInv'
  BY <1>1, <1>4, Zenon DEF IInv, TypeInv, Label, Committer
<1>6. StageInv'
  <2>1. \A q \in Proc : pc'[q] = IF q # p THEN pc[q]
                                 ELSE IF tail = Len(lh) THEN "erase" ELSE "install"
    BY <1>1, Zenon DEF IInv, TypeInv
  <2>2. dirty' = {lh[i] : i \in tail + 1 .. Len(lh)}
    <3>1. dirty' = dirty \ {lh[tail]} /\ DOMAIN lh = 1 .. Len(lh) /\ Len(lh) \in Nat
      BY <1>1, SMTT(60) DEF InstallBlock, IInv, TypeInv
    <3>2. QED
      BY <1>3, <3>1, SMTT(60) DEF IInv, CacheInv, Injective
  <2>3. CASE tail = Len(lh)
    <3>1. dirty' = {}
      BY <2>2, <2>3, SizeFacts, SMTT(60)
    <3>2. QED
      BY <1>1, <1>2, <1>3, <1>4, <2>1, <2>3, <3>1, SMTT(60) DEF StageInv
  <2>4. CASE tail # Len(lh)
    <3>1. (Logged(Len(lh)))'
      <4>1. \A i \in 1 .. Len(lh) : lh[i] \in Block
        BY DEF IInv, TypeInv
      <4>2. \A i \in 1 .. Len(lh) : logblk[i] = (Bread(lh[i]))'
        <5>1. SUFFICES ASSUME NEW i \in 1 .. Len(lh) PROVE logblk[i] = (Bread(lh[i]))'
          BY Zenon
        <5>2. lh[i] = lh[tail] => i = tail
          BY <1>3, SMTT(60) DEF IInv, TypeInv, CacheInv, Injective
        <5>3. (Bread(lh[i]))' = IF lh[i] = lh[tail] THEN logblk[tail] ELSE Bread(lh[i])
          BY <1>1, <1>4, <4>1, ZenonT(60) DEF Bread
        <5>4. QED
          BY <1>3, <5>2, <5>3, Zenon DEF Logged
      <4>3. QED
        BY <1>1, <4>2, Zenon DEF Logged, Bread
    <3>2. tail' = tail + 1
      BY <1>1, <2>4, Zenon DEF InstallBlock
    <3>3. QED
      BY <1>1, <1>2, <1>3, <1>4, <2>1, <2>2, <2>4, <3>1, <3>2, SMTT(60) DEF StageInv
  <2>5. QED
    BY <2>3, <2>4, Zenon
<1>7. Len(lh') + 2 <= LOGSIZE /\ Len(head') + 2 <= LOGSIZE
  BY <1>1, SizeFacts, Zenon
<1>8. QED
  BY <1>1, <1>4, <1>5, <1>6, <1>7, CommitStep, ZenonT(60) DEF Committer

(* commit() erases the transaction when all its blocks are home. *)
LEMMA EraseIInv ==
  ASSUME IInv, NEW p \in Proc, Erase(p)
  PROVE  IInv'
<1>1. /\ pc[p] = "erase" /\ lh' = <<>> /\ head' = <<>>
      /\ pc' = [pc EXCEPT ![p] = "finish"]
      /\ UNCHANGED <<home, logblk, cache, dirty, outstanding, committing, buf, wrote, tail, boot>>
  BY Zenon DEF Erase, Goto
<1>2. /\ boot = "up" /\ committing
      /\ \A q \in Proc : pc[q] \in {"idle", "begin", "sleep"} \/ q = p
  BY <1>1, InCommit, Zenon DEF Committer
<1>3. TypeInv'
  BY <1>1, EmptyFacts, Zenon DEF IInv, TypeInv, Label, Committer
<1>4. CacheInv'
  BY <1>1, EmptyFacts, ZenonT(60) DEF IInv, CacheInv, Bread, Unlocked
<1>5. StageInv'
  <2>1. dirty = {}
    BY <1>1, Zenon DEF IInv, StageInv
  <2>2. \A q \in Proc : pc'[q] = IF q = p THEN "finish" ELSE pc[q]
    BY <1>1, Zenon DEF IInv, TypeInv
  <2>3. QED
    BY <1>1, <1>2, <2>1, <2>2, EmptyFacts DEF StageInv
<1>6. Len(lh') + 2 <= LOGSIZE /\ Len(head') + 2 <= LOGSIZE
  BY <1>1, LogAssumption, SMTT(60)
<1>7. QED
  BY <1>1, <1>3, <1>4, <1>5, <1>6, CommitStep, ZenonT(60) DEF Committer

(* The end of end_op() lets operations begin again. *)
LEMMA FinishIInv ==
  ASSUME IInv, NEW p \in Proc, Finish(p)
  PROVE  IInv'
<1>1. /\ pc[p] = "finish" /\ committing' = FALSE
      /\ pc' = [q \in Proc |-> IF q = p THEN "idle"
                               ELSE IF pc[q] = "sleep" THEN "begin" ELSE pc[q]]
      /\ UNCHANGED <<home, logblk, head, cache, dirty, lh, outstanding, buf, wrote, tail, boot>>
  BY Zenon DEF Finish, WakeupAndGoto, disk
<1>2. /\ boot = "up" /\ outstanding = 0 /\ Active = {}
      /\ \A q \in Proc : pc[q] \in {"idle", "begin", "sleep"} \/ q = p
      /\ \A q \in Proc : buf[q] = NoBlock
  BY <1>1, InCommit, Zenon DEF Committer
<1>3. \A q \in Proc : pc'[q] \in {"idle", "begin"}
  BY <1>1, <1>2, Zenon
<1>4. Active' = {}
  BY <1>3, Zenon DEF Active
<1>5. TypeInv'
  BY <1>1, <1>3, ZenonT(60) DEF IInv, TypeInv, Label
<1>6. ProcInv'
  BY <1>1, <1>2, <1>3, <1>4, FS_EmptySet DEF ProcInv, Committer
<1>7. SpaceInv'
  <2>1. Reserve' = {} /\ Cardinality({}) = 0
    BY <1>4, FS_EmptySet, Zenon DEF Reserve
  <2>2. \A q \in Proc : wrote[q] = {}
    BY <1>1, <1>2, ZenonT(60) DEF IInv, SpaceInv
  <2>3. Len(lh') + Cardinality(Reserve') + 2 <= LOGSIZE /\ Len(head') + 2 <= LOGSIZE
    BY <1>1, <2>1, SizeFacts, SMTT(60)
  <2>4. QED
    BY <1>1, <1>3, <2>2, <2>3, FS_EmptySet, ZenonT(60) DEF SpaceInv
<1>8. CacheInv'
  <2>1. CacheInv
    BY Zenon DEF IInv
  <2>2. UNCHANGED <<home, head, cache, dirty, lh, buf>>
    BY <1>1, Zenon
  <2> QED
    BY <2>1, <2>2, ZenonT(60) DEF CacheInv, Bread, Unlocked
<1>9. StageInv'
  BY <1>1, <1>2, <1>3, ZenonT(60) DEF IInv, StageInv
<1>10. SleepJustified'
  BY <1>3, Zenon DEF SleepJustified
<1>11. QED
  BY <1>5, <1>6, <1>7, <1>8, <1>9, <1>10, Zenon DEF IInv

--------------------------------------------------------------------------------
(***************************************************************************)
(* Crashes, recovery and the theorems.                                     *)
(***************************************************************************)
(* A crash at any step, recovery included, leaves a disk to recover. *)
LEMMA CrashIInv ==
  ASSUME IInv, Crash
  PROVE  IInv'
<1>1. /\ UNCHANGED <<home, logblk, head>> /\ cache' = [b \in Block |-> NoValue]
      /\ dirty' = {} /\ lh' = <<>> /\ outstanding' = 0 /\ committing' = FALSE
      /\ pc' = [p \in Proc |-> "idle"] /\ buf' = [p \in Proc |-> NoBlock]
      /\ wrote' = [p \in Proc |-> {}] /\ tail' = 1 /\ boot' = "read_head"
  BY Zenon DEF Crash, disk
<1>2. Active' = {}
  BY <1>1, Zenon DEF Active
<1>3. TypeInv'
  BY <1>1, EmptyFacts, ZenonT(60) DEF IInv, TypeInv, Label
<1>4. ProcInv'
  BY <1>1, <1>2, FS_EmptySet, Zenon DEF ProcInv, Committer
<1>5. SpaceInv'
  <2>1. Reserve' = {} /\ Cardinality({}) = 0 /\ IsFiniteSet({})
    BY <1>2, FS_EmptySet, Zenon DEF Reserve
  <2>2. Len(lh') + Cardinality(Reserve') + 2 <= LOGSIZE /\ Len(head') + 2 <= LOGSIZE
    BY <1>1, <2>1, SizeFacts, LogAssumption
  <2>3. QED
    BY <1>1, <2>1, <2>2, Zenon DEF SpaceInv
<1>6. CacheInv'
  BY <1>1, EmptyFacts, Zenon DEF IInv, CacheInv, Bread
<1>7. StageInv'
  BY <1>1, Zenon DEF StageInv
<1>8. SleepJustified'
  BY <1>1, Zenon DEF SleepJustified
<1>9. QED
  BY <1>3, <1>4, <1>5, <1>6, <1>7, <1>8, Zenon DEF IInv

(* What a step of recovery leaves to show. *)
LEMMA RecoverStep ==
  ASSUME IInv, boot # "up", UNCHANGED <<outstanding, committing, pc, buf, wrote>>,
         TypeInv', CacheInv', StageInv', Len(lh') + 2 <= LOGSIZE, Len(head') + 2 <= LOGSIZE
  PROVE  IInv'
<1>1. \A p \in Proc : pc[p] = "idle"
  BY Zenon DEF IInv, ProcInv
<1>2. Active = {} /\ Active' = {}
  BY <1>1, Zenon DEF Active
<1>3. ProcInv'
  BY <1>1, <1>2, Zenon DEF IInv, ProcInv
<1>4. SpaceInv'
  <2>1. Reserve' = {} /\ Cardinality({}) = 0 /\ IsFiniteSet({})
    BY <1>2, FS_EmptySet, Zenon DEF Reserve
  <2>2. \A p \in Proc : wrote[p] = {}
    BY <1>1, ZenonT(60) DEF IInv, SpaceInv
  <2>3. Len(lh') + Cardinality(Reserve') + 2 <= LOGSIZE
    BY <2>1 DEF TypeInv
  <2>4. QED
    BY <1>1, <2>1, <2>2, <2>3, ZenonT(60) DEF SpaceInv
<1>5. SleepJustified'
  BY <1>1, Zenon DEF SleepJustified
<1>6. QED
  BY <1>3, <1>4, <1>5, Zenon DEF IInv

(* recover_from_log() installs a committed transaction, if there is one. *)
LEMMA RecoverIInv ==
  ASSUME IInv, Recover
  PROVE  IInv'
<1>a. boot # "up"
  BY Zenon DEF Recover, ReadHead, RecoverInstall, RecoverErase
<1>b. dirty = {} /\ \A p \in Proc : pc[p] = "idle"
  BY <1>a, Zenon DEF IInv, StageInv, ProcInv
<1>1. CASE ReadHead
  <2>1. /\ boot = "read_head" /\ lh' = head
        /\ boot' = IF head = <<>> THEN "erase" ELSE "install"
        /\ UNCHANGED <<home, logblk, head, cache, dirty, outstanding, committing, pc, buf, wrote,
                       tail>>
    BY <1>1, Zenon DEF ReadHead, disk, procs
  <2>2. TypeInv'
    BY <2>1, Zenon DEF IInv, TypeInv
  <2>3. CacheInv'
    BY <2>1, Zenon DEF IInv, CacheInv, Bread, Unlocked
  <2>4. StageInv'
    <3>1. tail = 1 /\ (head # <<>> => 1 \in 1 .. Len(head))
      BY <2>1 DEF IInv, TypeInv, StageInv
    <3>2. head # <<>> => (Installed(tail - 1))'
      BY <2>1, <3>1 DEF Installed
    <3>3. head = <<>> => (Installed(Len(lh)))'
      BY <2>1, EmptyFacts DEF Installed
    <3>4. QED
      BY <1>b, <2>1, <3>1, <3>2, <3>3 DEF StageInv
  <2>5. QED
    BY <1>a, <2>1, <2>2, <2>3, <2>4, SizeFacts, RecoverStep, Zenon
<1>2. CASE RecoverInstall
  <2>1. /\ boot = "install" /\ InstallBlock
        /\ boot' = IF tail = Len(lh) THEN "erase" ELSE "install"
        /\ UNCHANGED <<logblk, head, lh, outstanding, committing, pc, buf, wrote>>
    BY <1>2, Zenon DEF RecoverInstall, log, procs
  <2>2. lh = head /\ tail \in 1 .. Len(lh) /\ Installed(tail - 1)
    BY <2>1, Zenon DEF IInv, StageInv
  <2>3. /\ home' \in [Block -> Value] /\ cache' \in [Block -> Value \cup {NoValue}]
        /\ dirty' \subseteq Block /\ tail' \in Nat
        /\ CacheInv'
        /\ tail = Len(lh) => (Installed(Len(lh)))'
        /\ tail # Len(lh) => (tail \in 1 .. Len(lh) /\ Installed(tail - 1))'
    BY <2>1, <2>2, InstallFacts, Zenon
  <2>4. TypeInv'
    BY <2>1, <2>3, Zenon DEF IInv, TypeInv
  <2>5. StageInv'
    <3>1. dirty' = {}
      BY <1>b, <2>1, Zenon DEF InstallBlock
    <3>2. QED
      BY <1>b, <2>1, <2>2, <2>3, <3>1, Zenon DEF StageInv
  <2>6. QED
    BY <1>a, <2>1, <2>3, <2>4, <2>5, SizeFacts, RecoverStep, Zenon
<1>3. CASE RecoverErase
  <2>1. /\ boot = "erase" /\ lh' = <<>> /\ head' = <<>> /\ boot' = "up"
        /\ UNCHANGED <<home, logblk, cache, dirty, outstanding, committing, pc, buf, wrote, tail>>
    BY <1>3, Zenon DEF RecoverErase, procs
  <2>2. TypeInv'
    BY <2>1, EmptyFacts, Zenon DEF IInv, TypeInv
  <2>3. CacheInv'
    BY <2>1, EmptyFacts, Zenon DEF IInv, CacheInv, Bread, Unlocked
  <2>4. StageInv'
    BY <1>b, <2>1, EmptyFacts, Zenon DEF StageInv
  <2>5. Len(lh') + 2 <= LOGSIZE /\ Len(head') + 2 <= LOGSIZE
    BY <2>1, LogAssumption
  <2>6. QED
    BY <1>a, <2>1, <2>2, <2>3, <2>4, <2>5, RecoverStep, Zenon
<1>4. QED
  BY <1>1, <1>2, <1>3, Zenon DEF Recover

(* Every step of Log keeps the inductive invariant. *)
LEMMA NextIInv == IInv /\ [Next]_vars => IInv'
<1> SUFFICES ASSUME IInv, [Next]_vars PROVE IInv'
  BY Zenon
<1>1. ASSUME NEW p \in Proc, BeginOp(p) \/ LogWrite(p) \/ EndOp(p) PROVE IInv'
  BY <1>1, BeginOpIInv, LogWriteIInv, EndOpIInv, Zenon
<1>2. ASSUME NEW p \in Proc, NEW b \in Block, NEW v \in Value, OpWrite(p, b, v) PROVE IInv'
  BY <1>2, OpWriteIInv, Zenon
<1>3. ASSUME NEW p \in Proc, Commit(p) \/ WriteLog(p) \/ WriteHead(p) PROVE IInv'
  BY <1>3, CommitIInv, WriteLogIInv, WriteHeadIInv
<1>4. ASSUME NEW p \in Proc, Install(p) \/ Erase(p) \/ Finish(p) PROVE IInv'
  BY <1>4, InstallIInv, EraseIInv, FinishIInv, Zenon
<1>5. ASSUME NEW b \in Block, Fetch(b) \/ Evict(b) PROVE IInv'
  BY <1>5, FetchIInv, EvictIInv, Zenon
<1>6. CASE Crash
  BY <1>6, CrashIInv, Zenon
<1>7. CASE Recover
  BY <1>7, RecoverIInv, Zenon
<1>8. CASE UNCHANGED vars
  <2>1. UNCHANGED <<home, logblk, head, cache, dirty, lh, outstanding, committing, pc, buf, wrote,
                    tail, boot>>
    BY <1>8, Zenon DEF vars, disk, log, procs
  <2>2. /\ cache' \in [Block -> Value \cup {NoValue}]
        /\ \A b \in Block : (Bread(b))' = Bread(b)
        /\ \A b \in dirty : cache'[b] # NoValue
        /\ \A p \in Proc : buf[p] # NoBlock => cache'[buf[p]] # NoValue
    BY <2>1, Zenon DEF IInv, TypeInv, CacheInv, Bread
  <2>3. QED
    BY <2>1, <2>2, CacheStep, Zenon
<1>9. QED
  BY <1>1, <1>2, <1>3, <1>4, <1>5, <1>6, <1>7, <1>8, Zenon DEF Next

--------------------------------------------------------------------------------
(***************************************************************************)
(* The inductive invariant: what struct log, the header and log blocks on  *)
(* disk and the buffers say of each other at every step of begin_op(),     *)
(* log_write(), end_op(), commit() and recover_from_log(), with crashes.   *)
(***************************************************************************)
THEOREM Invariance == Spec => []IInv
<1>1. Init => IInv
  BY InitIInv, Zenon
<1>2. IInv /\ [Next]_vars => IInv'
  BY NextIInv, Zenon
<1>3. QED
  BY <1>1, <1>2, PTL DEF Spec

(***************************************************************************)
(* begin_op()'s reservation of MAXOPBLOCKS blocks suffices: log_write()    *)
(* and end_op() never panic, and a transaction fits the log on disk.       *)
(***************************************************************************)
THEOREM AlwaysFits == Spec => []LogFits
<1>1. IInv => LogFits
  <2>1. SUFFICES ASSUME IInv PROVE LogFits
    BY Zenon
  <2>2. Len(lh) < NLOG
    BY <2>1, SizeFacts, LogAssumption
  <2>3. \A p \in Proc : pc[p] # "panic"
    BY <2>1, ZenonT(60) DEF IInv, TypeInv, Label, Committer
  <2>4. QED
    BY <2>2, <2>3, Zenon DEF LogFits
<1>2. QED
  BY <1>1, Invariance, PTL

(***************************************************************************)
(* Who sleeps in begin_op() has a reason to, and an operation or a commit  *)
(* that will wake it is in progress.                                       *)
(***************************************************************************)
THEOREM SleepAlwaysJustified == Spec => []SleepJustified
  BY Invariance, PTL DEF IInv

(***************************************************************************)
(* Only buffers of the running transaction are pinned by B_DIRTY.          *)
(***************************************************************************)
THEOREM NeverLeaksPins == Spec => []NoPinLeak
<1>1. IInv => NoPinLeak
  <2>1. SUFFICES ASSUME IInv PROVE NoPinLeak
    BY Zenon
  <2>2. CASE boot = "up" /\ \A p \in Proc : pc[p] \notin {"install", "erase"}
    BY <2>1, <2>2 DEF IInv, StageInv, NoPinLeak
  <2>3. ASSUME NEW p \in Proc, pc[p] \in {"install", "erase"} PROVE NoPinLeak
    BY <2>1, <2>3 DEF IInv, TypeInv, StageInv, NoPinLeak, Range
  <2>4. CASE boot # "up"
    BY <2>1, <2>4, Zenon DEF IInv, StageInv, NoPinLeak
  <2>5. QED
    BY <2>2, <2>3, <2>4, Zenon
<1>2. QED
  BY <1>1, Invariance, PTL

(***************************************************************************)
(* Write-ahead: home changes only in install_trans(), and only to what the *)
(* committed header and log blocks already hold.                           *)
(***************************************************************************)
THEOREM WritesAhead == Spec => WriteAhead
<1> DEFINE Ahead == \A b \in Block : home'[b] # home[b] =>
                      \E i \in 1 .. Len(head) : head[i] = b /\ logblk[i] = home'[b]
<1>1. ASSUME IInv, Next PROVE Ahead
  <2>1. ASSUME InstallBlock, head = lh, tail \in 1 .. Len(lh) PROVE Ahead
    <3>1. \A b \in Block : home'[b] # home[b] => b = lh[tail] /\ logblk[tail] = home'[b]
      BY <1>1, <2>1, Zenon DEF InstallBlock, IInv, TypeInv
    <3>2. QED
      BY <2>1, <3>1, Zenon
  <2>2. ASSUME NEW p \in Proc, Install(p) PROVE Ahead
    BY <1>1, <2>1, <2>2, SMTT(60) DEF Install, IInv, StageInv
  <2>3. CASE RecoverInstall
    BY <1>1, <2>1, <2>3, Zenon DEF RecoverInstall, IInv, StageInv
  <2>4. ASSUME home' = home PROVE Ahead
    BY <2>4, Zenon
  <2>5. ASSUME NEW p \in Proc,
               BeginOp(p) \/ LogWrite(p) \/ EndOp(p) \/ Commit(p) \/ WriteLog(p) \/ WriteHead(p)
                 \/ Erase(p) \/ Finish(p)
        PROVE  home' = home
    BY <2>5, Zenon DEF BeginOp, LogWrite, EndOp, Commit, WriteLog, WriteHead, Erase, Finish, disk
  <2>6. ASSUME NEW p \in Proc, NEW b \in Block, NEW v \in Value, OpWrite(p, b, v)
        PROVE  home' = home
    BY <2>6, Zenon DEF OpWrite, disk
  <2>7. ASSUME NEW b \in Block, Fetch(b) \/ Evict(b)
        PROVE  home' = home
    BY <2>7, Zenon DEF Fetch, Evict, disk
  <2>8. ASSUME Crash \/ ReadHead \/ RecoverErase
        PROVE  home' = home
    BY <2>8, Zenon DEF Crash, ReadHead, RecoverErase, disk
  <2> HIDE DEF Ahead
  <2>9. QED
    BY <1>1, <2>2, <2>3, <2>4, <2>5, <2>6, <2>7, <2>8, Zenon DEF Next, Recover
<1>2. IInv /\ [Next]_vars => [Ahead]_vars
  BY <1>1, Zenon
<1>3. QED
  BY <1>2, Invariance, PTL DEF Spec, WriteAhead

--------------------------------------------------------------------------------
(* What the refinement mapping makes of the disk: committed blocks are in  *)
(* the log, the others at home.                                            *)
DurableOK ==
  /\ Durable \in [Block -> Value]
  /\ \A i \in 1 .. Len(head) : Durable[head[i]] = logblk[i]
  /\ \A b \in Block : b \notin Range(head) => Durable[b] = home[b]

(* The function that Durable chooses exists and is what DurableOK says. *)
LEMMA DurableIs == IInv => DurableOK
<1> SUFFICES ASSUME IInv PROVE DurableOK
  BY Zenon
<1>1. /\ head \in Seq(Block) /\ Injective(head) /\ DOMAIN head = 1 .. Len(head)
      /\ Len(head) \in Nat /\ Len(head) <= LOGSIZE /\ LOGSIZE \in Nat
      /\ \A i \in 1 .. Len(head) : head[i] \in Block /\ logblk[i] \in Value
  <2>1. head \in Seq(Block) /\ Injective(head) /\ Len(head) + 2 <= LOGSIZE /\ LOGSIZE \in Nat
    BY LogAssumption, Zenon DEF IInv, TypeInv, CacheInv, SpaceInv
  <2>2. QED
    BY <2>1 DEF IInv, TypeInv
<1> DEFINE at(b) == CHOOSE i \in 1 .. Len(head) : head[i] = b
<1>2. \A i \in 1 .. Len(head) : at(head[i]) = i
  <2>1. SUFFICES ASSUME NEW i \in 1 .. Len(head) PROVE at(head[i]) = i
    BY Zenon
  <2>2. \E j \in 1 .. Len(head) : head[j] = head[i]
    BY Zenon
  <2>3. at(head[i]) \in 1 .. Len(head) /\ head[at(head[i])] = head[i]
    BY <2>2, Zenon
  <2>4. QED
    BY <1>1, <2>3, Zenon DEF Injective
<1>3. Durable = [b \in Block |-> IF b \in Range(head) THEN logblk[at(b)] ELSE home[b]]
  BY Zenon DEF Durable
<1> HIDE DEF at
<1>4. \A i \in 1 .. Len(head) : Durable[head[i]] = logblk[i]
  BY <1>1, <1>2, <1>3, Zenon DEF Range
<1>5. \A b \in Block : b \notin Range(head) => Durable[b] = home[b]
  BY <1>3, Zenon
<1>6. \A b \in Block : Durable[b] \in Value
  BY <1>1, <1>4, <1>5 DEF IInv, TypeInv, Range
<1>7. QED
  BY <1>3, <1>4, <1>5, <1>6, Zenon DEF DurableOK

(* A step that keeps the header, the log blocks it names and the other     *)
(* home locations keeps what a crash would leave.                          *)
LEMMA DurableSame ==
  ASSUME IInv, DurableOK, DurableOK', head' = head,
         \A i \in 1 .. Len(head) : logblk'[i] = logblk[i],
         \A b \in Block : b \notin Range(head) => home'[b] = home[b]
  PROVE  Durable' = Durable
<1>1. \A b \in Range(head) : \E i \in 1 .. Len(head) : b = head[i]
  BY DEF IInv, TypeInv, Range
<1>2. \A b \in Block : Durable'[b] = Durable[b]
  BY <1>1 DEF DurableOK
<1>3. QED
  BY <1>2 DEF DurableOK

(* Steps that change neither what operations read nor what a crash leaves, *)
(* but for the operations in progress.                                     *)
LEMMA QuietSteps ==
  ASSUME IInv, IInv', DurableOK, DurableOK', NEW p \in Proc,
         BeginOp(p) \/ LogWrite(p) \/ EndOp(p) \/ Commit(p) \/ Finish(p)
  PROVE  [Abs!Next]_(Abs!vars)
<1>1. UNCHANGED <<home, logblk, head, cache, boot>>
  BY Zenon DEF BeginOp, LogWrite, EndOp, Commit, Finish, disk
<1>2. Durable' = Durable
  BY <1>1, DurableSame, Zenon
<1>3. View' = View
  BY <1>1, <1>2, Zenon DEF View, Bread
<1>4. CASE BeginOp(p)
  <2>1. \/ pc' = [pc EXCEPT ![p] = "sleep"] \/ pc' = [pc EXCEPT ![p] = "op"]
    BY <1>4, Zenon DEF BeginOp, Goto
  <2>2. pc[p] \in {"idle", "begin"}
    BY <1>4, Zenon DEF BeginOp
  <2>3. Active' = Active \/ (p \notin Active /\ Active' = Active \cup {p})
    BY <2>1, <2>2, Zenon DEF IInv, TypeInv, Active
  <2>4. QED
    BY <1>2, <1>3, <2>3, Zenon DEF Abs!Next, Abs!Begin, Abs!vars
<1>5. CASE EndOp(p)
  <2>1. p \in Active /\ ~ committing
    BY <1>5, InOperation, Zenon DEF EndOp, Active
  <2>2. \A q \in Proc : pc'[q] = IF q = p THEN (IF outstanding = 1 THEN "commit" ELSE "idle")
                                ELSE IF pc[q] = "sleep" /\ outstanding # 1 THEN "begin" ELSE pc[q]
    BY <1>5, <2>1 DEF EndOp, Goto, WakeupAndGoto, IInv, TypeInv
  <2>3. Active' = Active \ {p}
    BY <2>1, <2>2, Zenon DEF Active
  <2>4. QED
    BY <1>2, <1>3, <2>1, <2>3, Zenon DEF Abs!Next, Abs!End, Abs!vars
<1>6. CASE LogWrite(p) \/ Commit(p) \/ Finish(p)
  <2>1. Active' = Active
    BY <1>6, ZenonT(60) DEF LogWrite, Commit, Finish, Goto, WakeupAndGoto, Active, IInv, TypeInv
  <2>2. QED
    BY <1>2, <1>3, <2>1, Zenon DEF Abs!vars
<1>7. QED
  BY <1>4, <1>5, <1>6, Zenon

(* A change of a buffer is a write. *)
LEMMA OpWriteWrites ==
  ASSUME IInv, IInv', DurableOK, DurableOK',
         NEW p \in Proc, NEW b \in Block, NEW v \in Value, OpWrite(p, b, v)
  PROVE  Abs!Next
<1>1. /\ cache' = [cache EXCEPT ![b] = v] /\ UNCHANGED <<home, logblk, head, boot>>
      /\ pc[p] = "op" /\ p \in Active
  BY ZenonT(60) DEF OpWrite, disk, Active
<1>2. Durable' = Durable
  BY <1>1, DurableSame, Zenon
<1>3. boot = "up" /\ boot' = "up"
  BY <1>1, InOperation, Zenon
<1>4. View' = [View EXCEPT ![b] = v]
  BY <1>1, <1>3, LogAssumption, ZenonT(60) DEF View, Bread, IInv, TypeInv
<1>5. Active' = Active
  <2>1. pc' = [pc EXCEPT ![p] = "append"]
    BY ZenonT(60) DEF OpWrite, Goto, IInv, TypeInv, Label, Committer
  <2>2. QED
    BY <1>1, <2>1, Zenon DEF Active, IInv, TypeInv
<1>6. QED
  BY <1>1, <1>2, <1>4, <1>5, ZenonT(60) DEF Abs!Next, Abs!Write

(* The write of the header is the abstract commit: the log holds what      *)
(* operations read, and the home locations outside it are up to date.      *)
LEMMA WriteHeadCommits ==
  ASSUME IInv, IInv', DurableOK, DurableOK', NEW p \in Proc, WriteHead(p)
  PROVE  Abs!Next
<1>1. /\ pc[p] = "write_head" /\ head' = lh /\ pc' = [pc EXCEPT ![p] = "install"]
      /\ UNCHANGED <<home, logblk, cache, dirty, lh, boot>>
  BY Zenon DEF WriteHead, Goto, log
<1>2. boot = "up" /\ Active = {} /\ \A b \in Block : Unlocked(b)
  BY <1>1, InCommit, Zenon DEF Committer
<1>3. Active' = {}
  BY <1>1, <1>2, SMTT(60) DEF Active, IInv, TypeInv
<1>4. Logged(Len(lh)) /\ dirty = Range(lh)
  <2>1. \A q \in Proc : pc[q] \notin {"install", "erase"}
    BY <1>1, Zenon DEF IInv, ProcInv, Committer
  <2>2. QED
    BY <1>1, <1>2, <2>1, Zenon DEF IInv, StageInv
<1>5. \A b \in Block : Durable'[b] = Bread(b)
  <2>1. SUFFICES ASSUME NEW b \in Block PROVE Durable'[b] = Bread(b)
    BY Zenon
  <2>2. CASE b \in Range(lh)
    <3>1. PICK i \in 1 .. Len(lh) : lh[i] = b
      BY <2>2 DEF IInv, TypeInv, Range
    <3>2. Durable'[b] = logblk[i]
      BY <1>1, <3>1, Zenon DEF DurableOK
    <3>3. QED
      BY <1>4, <3>1, <3>2, Zenon DEF Logged
  <2>3. CASE b \notin Range(lh)
    <3>1. Durable'[b] = home[b]
      BY <1>1, <2>3, Zenon DEF DurableOK
    <3>2. QED
      BY <1>2, <1>4, <2>3, <3>1, Zenon DEF IInv, CacheInv
  <2>4. QED
    BY <2>2, <2>3, Zenon
<1>6. View = [b \in Block |-> Bread(b)] /\ View' = [b \in Block |-> Bread(b)]
  BY <1>1, <1>2, Zenon DEF View, Bread
<1>7. Durable' = View
  BY <1>5, <1>6, Zenon DEF DurableOK
<1>8. QED
  BY <1>2, <1>3, <1>6, <1>7, Zenon DEF Abs!Next, Abs!Commit

(* Erasing a header whose blocks are installed changes nothing. *)
LEMMA EraseKeeps ==
  ASSUME IInv, DurableOK, DurableOK', head = lh, Installed(Len(lh)), head' = <<>>, home' = home
  PROVE  Durable' = Durable /\ Durable = home
<1>1. Durable' = home
  BY EmptyFacts DEF DurableOK, IInv, TypeInv
<1>2. \A b \in Range(head) : \E i \in 1 .. Len(head) : b = head[i]
  BY DEF IInv, TypeInv, Range
<1>3. \A b \in Block : Durable[b] = home[b]
  BY <1>2 DEF DurableOK, Installed
<1>4. QED
  BY <1>1, <1>3 DEF DurableOK, IInv, TypeInv

(* A round of install_trans() keeps what a crash would leave. *)
LEMMA InstallKeeps ==
  ASSUME IInv, IInv', DurableOK, DurableOK', InstallBlock, UNCHANGED <<logblk, head, lh>>,
         head = lh, tail \in 1 .. Len(lh)
  PROVE  Durable' = Durable
<1>1. home' = [home EXCEPT ![lh[tail]] = logblk[tail]] /\ lh[tail] \in Range(head)
  BY DEF InstallBlock, IInv, TypeInv, Range
<1>2. \A b \in Block : b \notin Range(head) => home'[b] = home[b]
  BY <1>1, Zenon DEF IInv, TypeInv
<1>3. QED
  BY <1>2, DurableSame, Zenon

(* Copying committed blocks to their home locations changes neither what   *)
(* operations read nor what a crash leaves.                                *)
LEMMA CommitterKeeps ==
  ASSUME IInv, IInv', DurableOK, DurableOK', NEW p \in Proc,
         WriteLog(p) \/ Install(p) \/ Erase(p)
  PROVE  UNCHANGED Abs!vars
<1>1. pc[p] \in Committer /\ boot' = boot
  BY Zenon DEF WriteLog, Install, Erase, Committer
<1>2. boot = "up" /\ Active = {}
  BY <1>1, InCommit, Zenon
<1>3. Active' = Active
  BY <1>2, Zenon DEF Active, IInv, TypeInv, WriteLog, Install, Erase, Goto
<1>4. CASE WriteLog(p)
  <2>1. pc[p] = "write_log" /\ UNCHANGED <<home, head, cache>>
    BY <1>4, Zenon DEF WriteLog
  <2>2. \A q \in Proc : pc[q] \notin {"install", "erase"}
    BY <2>1, Zenon DEF IInv, ProcInv, Committer
  <2>3. head = <<>>
    BY <1>2, <2>2, Zenon DEF IInv, StageInv
  <2>4. Durable' = Durable
    BY <2>1, <2>3, DurableSame, SMTT(60)
  <2>5. View' = View
    BY <1>1, <1>2, <2>1, Zenon DEF View, Bread
  <2>6. QED
    BY <1>3, <2>4, <2>5, Zenon DEF Abs!vars
<1>5. CASE Install(p)
  <2>1. pc[p] = "install" /\ InstallBlock /\ UNCHANGED <<logblk, head, lh, buf>>
    BY <1>5, Zenon DEF Install, log
  <2>2. head = lh /\ tail \in 1 .. Len(lh) /\ Logged(Len(lh)) /\ Installed(tail - 1)
    BY <2>1, Zenon DEF IInv, StageInv
  <2>3. Durable' = Durable
    BY <2>1, <2>2, InstallKeeps, Zenon
  <2>4. \A b \in Block : (Bread(b))' = Bread(b)
    <3>1. \A b \in Block : (Bread(b))' = IF b = lh[tail] THEN logblk[tail] ELSE Bread(b)
      BY <2>1, <2>2, InstallFacts, Zenon
    <3>2. QED
      BY <2>2, <3>1, Zenon DEF Logged
  <2>5. View' = View
    BY <1>1, <1>2, <2>4 DEF View
  <2>6. QED
    BY <1>3, <2>3, <2>5, Zenon DEF Abs!vars
<1>6. CASE Erase(p)
  <2>1. pc[p] = "erase" /\ head' = <<>> /\ UNCHANGED <<home, cache>>
    BY <1>6, Zenon DEF Erase
  <2>2. Durable' = Durable
    BY <2>1, EraseKeeps, Zenon DEF IInv, StageInv
  <2>3. View' = View
    BY <1>1, <1>2, <2>1, Zenon DEF View, Bread
  <2>4. QED
    BY <1>3, <2>2, <2>3, Zenon DEF Abs!vars
<1>7. QED
  BY <1>4, <1>5, <1>6, Zenon

(* The cache may fetch and recycle buffers unnoticed. *)
LEMMA CacheKeeps ==
  ASSUME IInv, IInv', DurableOK, DurableOK', NEW b \in Block, Fetch(b) \/ Evict(b)
  PROVE  UNCHANGED Abs!vars
<1>1. UNCHANGED <<home, logblk, head, boot, pc>>
  BY Zenon DEF Fetch, Evict, disk, procs
<1>2. Durable' = Durable /\ Active' = Active
  BY <1>1, DurableSame, Zenon DEF Active
<1>3. \A c \in Block : (Bread(c))' = Bread(c)
  <2>1. CASE Fetch(b)
    BY <1>1, <2>1, LogAssumption, Zenon DEF Fetch, Bread, IInv, TypeInv
  <2>2. CASE Evict(b)
    BY <1>1, <2>2 DEF Evict, Bread, IInv, TypeInv, CacheInv
  <2>3. QED
    BY <2>1, <2>2, Zenon
<1>4. View' = View
  BY <1>1, <1>2, <1>3, Zenon DEF View
<1>5. QED
  BY <1>2, <1>4, Zenon DEF Abs!vars

(* Recovery shows operations what the crash has left. *)
LEMMA RecoverKeeps ==
  ASSUME IInv, IInv', DurableOK, DurableOK', Recover
  PROVE  UNCHANGED Abs!vars
<1>1. boot # "up" /\ UNCHANGED <<pc, buf>>
  BY Zenon DEF Recover, ReadHead, RecoverInstall, RecoverErase, procs
<1>2. Active' = Active
  BY <1>1, Zenon DEF Active
<1>3. CASE ReadHead \/ RecoverInstall
  <2>1. boot' # "up"
    BY <1>3, Zenon DEF ReadHead, RecoverInstall
  <2>2. CASE ReadHead
    <3>1. Durable' = Durable
      BY <2>2, DurableSame, SMTT(60) DEF ReadHead, disk
    <3>2. QED
      BY <1>1, <1>2, <2>1, <3>1, Zenon DEF View, Abs!vars
  <2>3. CASE RecoverInstall
    <3>1. boot = "install" /\ InstallBlock /\ UNCHANGED <<logblk, head, lh, buf>>
      BY <1>1, <2>3, Zenon DEF RecoverInstall, log
    <3>2. Durable' = Durable
      BY <3>1, InstallKeeps, ZenonT(60) DEF IInv, StageInv
    <3>3. QED
      BY <1>1, <1>2, <2>1, <3>2, Zenon DEF View, Abs!vars
  <2>4. QED
    BY <1>3, <2>2, <2>3, Zenon
<1>4. CASE RecoverErase
  <2>1. boot = "erase" /\ boot' = "up" /\ head' = <<>> /\ UNCHANGED <<home, cache>>
    BY <1>4, SMTT(60) DEF RecoverErase
  <2>2. Durable' = Durable /\ Durable = home
    BY <2>1, EraseKeeps, Zenon DEF IInv, StageInv
  <2>3. \A b \in Block : (Bread(b))' = home[b]
    <3>0. StageInv /\ ProcInv
      BY Zenon DEF IInv
    <3>a. dirty = {}
      BY <1>1, <3>0, Zenon DEF StageInv
    <3>b. \A p \in Proc : pc[p] = "idle"
      BY <1>1, <3>0, ZenonT(60) DEF ProcInv
    <3>1. dirty = {} /\ \A p \in Proc : buf[p] = NoBlock
      BY <3>0, <3>a, <3>b, ZenonT(60) DEF ProcInv
    <3>2. \A b \in Block : Bread(b) = home[b]
      BY <3>1, LogAssumption, ZenonT(60) DEF IInv, CacheInv, Unlocked
    <3>3. QED
      BY <2>1, <3>2, Zenon DEF Bread
  <2>4. View' = home
    BY <2>1, <2>3 DEF View, IInv, TypeInv
  <2>5. QED
    BY <1>1, <1>2, <2>2, <2>4, Zenon DEF View, Abs!vars
<1>5. QED
  BY <1>3, <1>4, Zenon DEF Recover

(***************************************************************************)
(* log.c implements AbsLog: whatever the interleaving of operations,       *)
(* commits, evictions and crashes, also during recovery, the disk holds    *)
(* the effect of a set of whole operations.                                *)
(***************************************************************************)
THEOREM Refinement == Spec => ImplementsAtomicDisk
<1>1. Init => Abs!Init
  <2>1. SUFFICES ASSUME Init PROVE Abs!Init
    BY Zenon
  <2>2. DurableOK
    BY <2>1, InitIInv, DurableIs, Zenon
  <2>3. View = Durable /\ Active = {}
    BY <2>1, SMTT(60) DEF Init, View, Active
  <2>4. QED
    BY <2>2, <2>3 DEF Abs!Init, DurableOK
<1>2. IInv => DurableOK
  BY DurableIs, Zenon
<1>3. IInv /\ IInv' /\ DurableOK /\ DurableOK' /\ [Next]_vars => [Abs!Next]_(Abs!vars)
  <2> SUFFICES ASSUME IInv, IInv', DurableOK, DurableOK', [Next]_vars
               PROVE  [Abs!Next]_(Abs!vars)
    BY Zenon
  <2>1. ASSUME NEW p \in Proc,
               BeginOp(p) \/ LogWrite(p) \/ EndOp(p) \/ Commit(p) \/ Finish(p)
        PROVE  [Abs!Next]_(Abs!vars)
    BY <2>1, QuietSteps, Zenon
  <2>2. ASSUME NEW p \in Proc, NEW b \in Block, NEW v \in Value, OpWrite(p, b, v)
        PROVE  [Abs!Next]_(Abs!vars)
    BY <2>2, OpWriteWrites, Zenon
  <2>3. ASSUME NEW p \in Proc, WriteHead(p) PROVE [Abs!Next]_(Abs!vars)
    BY <2>3, WriteHeadCommits, Zenon
  <2>4. ASSUME NEW p \in Proc, WriteLog(p) \/ Install(p) \/ Erase(p)
        PROVE  [Abs!Next]_(Abs!vars)
    BY <2>4, CommitterKeeps, Zenon
  <2>5. ASSUME NEW b \in Block, Fetch(b) \/ Evict(b) PROVE [Abs!Next]_(Abs!vars)
    BY <2>5, CacheKeeps, Zenon
  <2>6. CASE Crash
    <3>1. UNCHANGED <<home, logblk, head>> /\ boot' = "read_head" /\ Active' = {}
      BY <2>6, Zenon DEF Crash, disk, Active
    <3>2. Durable' = Durable /\ View' = Durable'
      BY <3>1, DurableSame, Zenon DEF View
    <3>3. QED
      BY <3>1, <3>2, Zenon DEF Abs!Next, Abs!Crash
  <2>7. CASE Recover
    BY <2>7, RecoverKeeps, Zenon
  <2>8. CASE UNCHANGED vars
    <3>1. UNCHANGED <<home, logblk, head, cache, boot, pc>>
      BY <2>8, Zenon DEF vars, disk, procs
    <3>2. Durable' = Durable /\ Active' = Active
      BY <3>1, DurableSame, Zenon DEF Active
    <3>3. QED
      BY <3>1, <3>2, Zenon DEF View, Bread, Abs!vars
  <2>9. QED
    BY <2>1, <2>2, <2>3, <2>4, <2>5, <2>6, <2>7, <2>8, SMTT(60) DEF Next
<1>4. QED
  BY <1>1, <1>2, <1>3, Invariance, PTL DEF Spec, ImplementsAtomicDisk, Abs!Spec
================================================================================
