------------------------------- MODULE BioProofs --------------------------------
(***************************************************************************)
(* Proofs about Bio: bget(), sleep locks, brelse(), the changes of a       *)
(* buffer and the disk driver preserve an inductive invariant, and the     *)
(* invariants of Bio hold, for any processes, buffers, blocks and contents *)
(* that satisfy BioAssumption.                                             *)
(***************************************************************************)
EXTENDS Bio, FiniteSetTheorems, TLAPS


(***************************************************************************)
(* The inductive invariant, in six parts.                                  *)
(***************************************************************************)
Holder == {"use", "iderw", "io_sleep", "io_wait"}
Away == {"idle", "exhausted"}
Label == Away \cup {"lock", "lock_sleep", "unref"} \cup Holder
USE DEF Away

Buffer ==
  [blockno : Block \cup {NoBlock}, valid : BOOLEAN, dirty : BOOLEAN, refcnt : Nat, data : Value]

Command ==
  [cmd : {"idle"}] \cup [cmd : {"read"}, blockno : Block]
    \cup [cmd : {"write"}, blockno : Block, data : Value]

TypeInv ==
  /\ buf \in [Buf -> Buffer]
  /\ lru \in Seq(Buf)
  /\ holder \in [Buf -> Proc \cup {NoProc}]
  /\ idequeue \in Seq(Buf)
  /\ command \in Command
  /\ disk \in [Block -> Value]
  /\ pc \in [Proc -> Label]
  /\ bp \in [Proc -> Buf \cup {NoBuf}]
  /\ latest \in [Block -> Value]
  /\ failed \subseteq Buf

Users(b) == {p \in Proc : bp[p] = b}

(* refcnt counts the processes that use the buffer, whose block stays; a   *)
(* block has one buffer; every buffer is on the list.                      *)
RefInv ==
  /\ \A p \in Proc : bp[p] = NoBuf <=> pc[p] \in Away
  /\ \A b \in Buf : buf[b].refcnt = Cardinality(Users(b))
  /\ \A p \in Proc : bp[p] \in Buf => buf[bp[p]].blockno \in Block
  /\ \A b, c \in Buf : buf[b].blockno = buf[c].blockno /\ buf[b].blockno \in Block => b = c
  /\ \A b \in Buf : \E i \in DOMAIN lru : lru[i] = b

(* A sleep lock is held by the process that is between acquiresleep() and  *)
(* releasesleep() with that buffer.                                        *)
LockInv ==
  /\ \A p \in Proc : pc[p] \in Holder => holder[bp[p]] = p
  /\ \A b \in Buf : holder[b] # NoProc => bp[holder[b]] = b /\ pc[holder[b]] \in Holder
  /\ \A p \in Proc : pc[p] = "lock_sleep" => holder[bp[p]] # NoProc

(* The queue has the buffers whose holders wait for the disk, once each,   *)
(* and the disk works on the first.                                        *)
QueueInv ==
  /\ \A i, j \in DOMAIN idequeue : idequeue[i] = idequeue[j] => i = j
  /\ \A i \in DOMAIN idequeue :
       holder[idequeue[i]] # NoProc /\ pc[holder[idequeue[i]]] = "io_sleep"
  /\ \A p \in Proc : pc[p] = "io_sleep" => \E i \in DOMAIN idequeue : idequeue[i] = bp[p]
  /\ command = StartNext(idequeue)

(* What the flags say where the holder is. *)
FlagInv ==
  /\ \A p \in Proc :
       /\ pc[p] = "use" => buf[bp[p]].valid
       /\ pc[p] \in {"iderw", "io_sleep"} => ~ Done(bp[p])
       /\ pc[p] = "io_wait" => Done(bp[p])
  /\ \A b \in Buf : buf[b].dirty => buf[b].valid
  /\ \A b \in Buf : buf[b].valid => buf[b].blockno \in Block
  /\ Cardinality(Pinned) <= MaxPin

(* A valid buffer has the latest contents, and so has the disk, unless the *)
(* block's buffer is dirty.                                                *)
DataInv ==
  /\ \A b \in Buf : buf[b].valid /\ b \notin failed => buf[b].data = latest[buf[b].blockno]
  /\ \A b \in Buf : buf[b].dirty => b \notin failed
  /\ \A k \in Block : disk[k] = latest[k] \/ \E b \in Cached(k) : buf[b].dirty

IInv == TypeInv /\ RefInv /\ LockInv /\ QueueInv /\ FlagInv /\ DataInv

--------------------------------------------------------------------------------
(* A process that uses a buffer, alone if it holds the lock. *)
LEMMA UserFacts ==
  ASSUME IInv, NEW p \in Proc, pc[p] \notin Away
  PROVE  /\ bp[p] \in Buf /\ buf[bp[p]].blockno \in Block
         /\ pc[p] \in Holder =>
              /\ holder[bp[p]] = p /\ p # NoProc
              /\ \A q \in Proc : bp[q] = bp[p] /\ pc[q] \in Holder => q = p
<1>1. bp[p] \in Buf /\ p # NoProc
  BY BioAssumption DEF IInv, TypeInv, RefInv
<1>2. QED
  BY <1>1 DEF IInv, RefInv, LockInv

(* refcnt is a number of processes, positive if there is one. *)
LEMMA UsersFinite ==
  ASSUME NEW b
  PROVE  /\ IsFiniteSet(Users(b)) /\ Cardinality(Users(b)) \in Nat
         /\ Cardinality(Users(b)) = 0 <=> Users(b) = {}
<1>1. IsFiniteSet(Users(b))
  BY BioAssumption, FS_Subset, Zenon DEF Users
<1>2. QED
  BY <1>1, FS_CardinalityType, FS_EmptySet, Zenon

(* The pinned buffers become no more when none is added. *)
LEMMA PinnedFewer ==
  ASSUME IInv, Pinned' \subseteq Pinned
  PROVE  Cardinality(Pinned') <= MaxPin
<1>1. IsFiniteSet(Pinned)
  BY BioAssumption, FS_Subset, Zenon DEF Pinned
<1>2. Cardinality(Pinned') <= Cardinality(Pinned)
  BY <1>1, FS_Subset, Zenon
<1>3. Cardinality(Pinned') \in Nat /\ Cardinality(Pinned) \in Nat /\ MaxPin \in Nat
  BY <1>1, FS_Subset, FS_CardinalityType, BioAssumption, Zenon
<1>4. QED
  BY <1>2, <1>3 DEF IInv, FlagInv

(* The command stays the right one while the first request stays. *)
LEMMA CommandSame ==
  ASSUME IInv, idequeue' = idequeue, command' = command,
         \A i \in DOMAIN idequeue : LET b == idequeue[i] IN
           /\ buf'[b].dirty = buf[b].dirty /\ buf'[b].blockno = buf[b].blockno
           /\ buf'[b].data = buf[b].data
  PROVE  command' = StartNext(idequeue)'
<1>1. idequeue # <<>> => Head(idequeue) = idequeue[1] /\ 1 \in DOMAIN idequeue
  BY DEF IInv, TypeInv
<1>2. QED
  BY <1>1 DEF IInv, QueueInv, StartNext, Idestart

(* References stay while no process gets or drops one. *)
LEMMA RefSame ==
  ASSUME IInv, UNCHANGED <<buf, lru, bp>>,
         \A q \in Proc : pc'[q] \in Away <=> pc[q] \in Away
  PROVE  RefInv'
<1>1. \A b : Users(b)' = Users(b)
  BY Zenon DEF Users
<1>2. QED
  BY <1>1, Zenon DEF IInv, RefInv

(***************************************************************************)
(* Init, with lru any order of the buffers.                                *)
(***************************************************************************)
LEMMA InitIInv == Init => IInv
<1> SUFFICES ASSUME Init PROVE IInv
  BY Zenon
<1>1. PICK v \in Value :
        /\ buf = [b \in Buf |-> [blockno |-> NoBlock, valid |-> FALSE, dirty |-> FALSE,
                                 refcnt |-> 0, data |-> v]]
        /\ disk = [k \in Block |-> v]
  BY Zenon DEF Init
<1>2. Cardinality(Buf) \in Nat
  BY BioAssumption, FS_CardinalityType, Zenon
<1>3. lru \in Seq(Buf) /\ \A b \in Buf : \E i \in DOMAIN lru : lru[i] = b
  <2>1. lru \in Surjection(1 .. Cardinality(Buf), Buf)
    BY Zenon DEF Init, Bijection
  <2>2. QED
    BY <1>2, <2>1 DEF Surjection
<1>4. TypeInv
  BY <1>1, <1>3 DEF Init, TypeInv, Buffer, Command, Label
<1>5. RefInv
  <2>1. \A b \in Buf : Users(b) = {}
    BY BioAssumption, Zenon DEF Init, Users
  <2>2. QED
    BY <1>1, <1>3, <2>1, FS_EmptySet, BioAssumption, Zenon DEF Init, RefInv
<1>6. LockInv /\ QueueInv
  BY DEF Init, LockInv, QueueInv, StartNext, Holder
<1>7. FlagInv
  <2>1. Pinned = {}
    BY <1>1, Zenon DEF Pinned
  <2>2. QED
    BY <1>1, <2>1, FS_EmptySet, BioAssumption DEF Init, FlagInv
<1>8. DataInv
  BY <1>1, Zenon DEF Init, DataInv
<1>9. QED
  BY <1>4, <1>5, <1>6, <1>7, <1>8, Zenon DEF IInv

--------------------------------------------------------------------------------
(***************************************************************************)
(* acquiresleep(): one becomes the holder, or sleeps because of another.   *)
(***************************************************************************)
LEMMA AcquireSleepIInv ==
  ASSUME IInv, NEW p \in Proc, AcquireSleep(p)
  PROVE  IInv'
<1>1. /\ bp[p] \in Buf /\ pc[p] = "lock" /\ p # NoProc
      /\ UNCHANGED <<buf, lru, idequeue, command, disk, bp, latest, failed>>
  BY UserFacts, BioAssumption, Zenon DEF AcquireSleep, cache, device, history
<1>2. TypeInv'
  BY <1>1, SMTT(60) DEF IInv, TypeInv, AcquireSleep, Goto, Label, Holder
<1>3. RefInv'
  BY <1>1, RefSame, Zenon DEF IInv, TypeInv, AcquireSleep, Goto
<1>4. LockInv'
  <2>1. CASE holder[bp[p]] # NoProc
    <3>1. holder' = holder /\ pc' = [pc EXCEPT ![p] = "lock_sleep"]
      BY <2>1, Zenon DEF AcquireSleep, Goto
    <3>2. QED
      BY <1>1, <2>1, <3>1 DEF IInv, TypeInv, LockInv, Holder
  <2>2. CASE holder[bp[p]] = NoProc
    <3>1. /\ holder' = [holder EXCEPT ![bp[p]] = p]
          /\ pc' \in [Proc -> Label] /\ pc'[p] \in Holder
          /\ \A q \in Proc \ {p} : pc'[q] = pc[q]
      BY <1>1, <1>2, <2>2, Zenon DEF IInv, TypeInv, AcquireSleep, Goto, Holder
    <3>2. \A q \in Proc : pc'[q] \in Holder => holder'[bp[q]] = q
      BY <1>1, <2>2, <3>1, UserFacts DEF IInv, TypeInv, LockInv, Holder
    <3>3. \A b \in Buf : holder'[b] # NoProc => bp[holder'[b]] = b /\ pc'[holder'[b]] \in Holder
      <4>1. TAKE b \in Buf
      <4>2. CASE b = bp[p]
        BY <1>1, <3>1, <4>2, Zenon DEF IInv, TypeInv
      <4>3. CASE b # bp[p]
        <5>1. holder'[b] = holder[b] /\ holder[b] \in Proc \cup {NoProc}
          BY <3>1, <4>3, Zenon DEF IInv, TypeInv
        <5>2. holder[b] # p
          BY <1>1, <4>3, Zenon DEF IInv, LockInv
        <5>3. QED
          BY <3>1, <5>1, <5>2 DEF IInv, LockInv
      <4>4. QED
        BY <4>2, <4>3, Zenon
    <3>4. \A q \in Proc : pc'[q] = "lock_sleep" => holder'[bp[q]] # NoProc
      BY <1>1, <2>2, <3>1 DEF IInv, TypeInv, LockInv, Holder
    <3>5. QED
      BY <1>1, <3>2, <3>3, <3>4, Zenon DEF LockInv
  <2>3. QED
    BY <2>1, <2>2, Zenon
<1>5. QueueInv'
  <2>1. command' = StartNext(idequeue)'
    BY <1>1, CommandSame, Zenon
  <2>2. \A i \in DOMAIN idequeue : idequeue[i] \in Buf
    BY DEF IInv, TypeInv
  <2>3. \A q \in Proc : pc[q] = "io_sleep" => pc'[q] = "io_sleep"
    BY <1>1, Zenon DEF IInv, TypeInv, AcquireSleep, Goto
  <2>4. \A q \in Proc : pc'[q] = "io_sleep" => pc[q] = "io_sleep"
    BY <1>1, Zenon DEF IInv, TypeInv, AcquireSleep, Goto
  <2>5. \A b \in Buf : holder[b] # NoProc => holder'[b] = holder[b]
    BY <1>1, Zenon DEF IInv, TypeInv, AcquireSleep
  <2>6. QED
    BY <1>1, <2>1, <2>2, <2>3, <2>4, <2>5 DEF IInv, TypeInv, QueueInv
<1>6. FlagInv'
  <2>1. Pinned' \subseteq Pinned
    BY <1>1, Zenon DEF IInv, TypeInv, FlagInv, AcquireSleep, Goto, Pinned
  <2>2. Cardinality(Pinned') <= MaxPin
    BY <2>1, PinnedFewer, Zenon
  <2>3. QED
    BY <1>1, <2>2 DEF IInv, TypeInv, FlagInv, AcquireSleep, Goto, Done
<1>7. DataInv'
  BY <1>1, Zenon DEF IInv, DataInv, Cached
<1>8. QED
  BY <1>2, <1>3, <1>4, <1>5, <1>6, <1>7, Zenon DEF IInv

(***************************************************************************)
(* releasesleep(): the processes that wait for the lock try again.         *)
(***************************************************************************)
LEMMA ReleaseSleepIInv ==
  ASSUME IInv, NEW p \in Proc, ReleaseSleep(p)
  PROVE  IInv'
<1>1. /\ bp[p] \in Buf /\ pc[p] = "use" /\ holder[bp[p]] = p /\ p # NoProc
      /\ \A q \in Proc : bp[q] = bp[p] /\ pc[q] \in Holder => q = p
      /\ UNCHANGED <<buf, lru, idequeue, command, disk, bp, latest, failed>>
      /\ holder' = [holder EXCEPT ![bp[p]] = NoProc]
      /\ pc' = [Wakeup(bp[p], "lock_sleep", "lock") EXCEPT ![p] = "unref"]
  BY UserFacts, Zenon DEF ReleaseSleep, Holding, cache, device, history, Holder
<1>2. pc' = [q \in Proc |-> IF q = p THEN "unref"
                            ELSE IF pc[q] = "lock_sleep" /\ bp[q] = bp[p] THEN "lock"
                            ELSE pc[q]]
  BY <1>1, Zenon DEF Wakeup
<1>3. TypeInv'
  BY <1>1, <1>2, ZenonT(60) DEF IInv, TypeInv, Label, Holder
<1>4. RefInv'
  BY <1>1, <1>2, RefSame, Zenon
<1>5. LockInv'
  <2>1. \A q \in Proc : pc[q] \notin Away => bp[q] \in Buf
    BY UserFacts, Zenon
  <2>2. \A q \in Proc : pc'[q] \in Holder => holder'[bp[q]] = q
    BY <1>1, <1>2, <2>1 DEF IInv, TypeInv, LockInv, Holder
  <2>3. \A b \in Buf : holder'[b] # NoProc => bp[holder'[b]] = b /\ pc'[holder'[b]] \in Holder
    BY <1>1, <1>2 DEF IInv, TypeInv, LockInv, Holder
  <2>4. \A q \in Proc : pc'[q] = "lock_sleep" => holder'[bp[q]] # NoProc
    BY <1>1, <1>2, <2>1 DEF IInv, TypeInv, LockInv
  <2>5. QED
    BY <1>1, <2>2, <2>3, <2>4 DEF LockInv
<1>6. QueueInv'
  <2>1. command' = StartNext(idequeue)'
    BY <1>1, CommandSame, Zenon
  <2>2. \A i \in DOMAIN idequeue : idequeue[i] \in Buf
    BY DEF IInv, TypeInv
  <2>3. \A q \in Proc : pc[q] = "io_sleep" <=> pc'[q] = "io_sleep"
    BY <1>1, <1>2, Zenon
  <2>4. \A b \in Buf : b # bp[p] => holder'[b] = holder[b]
    BY <1>1, Zenon DEF IInv, TypeInv
  <2>5. \A i \in DOMAIN idequeue : idequeue[i] # bp[p]
    BY <1>1 DEF IInv, QueueInv
  <2>6. QED
    BY <1>1, <2>1, <2>2, <2>3, <2>4, <2>5 DEF IInv, TypeInv, QueueInv
<1>7. FlagInv'
  <2>1. Pinned' \subseteq Pinned
    BY <1>1, <1>2, Zenon DEF Pinned
  <2>2. Cardinality(Pinned') <= MaxPin
    BY <2>1, PinnedFewer, Zenon
  <2>3. QED
    BY <1>1, <1>2, <2>2 DEF IInv, FlagInv, Done
<1>8. DataInv'
  BY <1>1, Zenon DEF IInv, DataInv, Cached
<1>9. QED
  BY <1>3, <1>4, <1>5, <1>6, <1>7, <1>8, Zenon DEF IInv

(***************************************************************************)
(* iderw() after a wakeup: the request is done, and it returns.            *)
(***************************************************************************)
LEMMA IoWaitIInv ==
  ASSUME IInv, NEW p \in Proc, IoWait(p)
  PROVE  IInv'
<1>1. /\ bp[p] \in Buf /\ pc[p] = "io_wait" /\ Done(bp[p])
      /\ UNCHANGED <<buf, lru, holder, idequeue, command, disk, bp, latest, failed>>
      /\ pc' = [pc EXCEPT ![p] = "use"]
  BY UserFacts, Zenon DEF IoWait, Goto, IInv, FlagInv, cache, device, history
<1>2. TypeInv'
  BY <1>1, Zenon DEF IInv, TypeInv, Label, Holder
<1>3. RefInv'
  BY <1>1, RefSame, Zenon DEF IInv, TypeInv
<1>4. LockInv'
  BY <1>1 DEF IInv, TypeInv, LockInv, Holder
<1>5. QueueInv'
  <2>1. command' = StartNext(idequeue)'
    BY <1>1, CommandSame, Zenon
  <2>2. \A q \in Proc : pc[q] = "io_sleep" <=> pc'[q] = "io_sleep"
    BY <1>1, Zenon DEF IInv, TypeInv
  <2>3. \A i \in DOMAIN idequeue : holder[idequeue[i]] \in Proc \cup {NoProc}
    BY DEF IInv, TypeInv
  <2>4. QED
    BY <1>1, <2>1, <2>2, <2>3, Zenon DEF IInv, QueueInv
<1>6. FlagInv'
  <2>1. Pinned' \subseteq Pinned
    BY <1>1, Zenon DEF IInv, TypeInv, Pinned, Done
  <2>2. Cardinality(Pinned') <= MaxPin
    BY <2>1, PinnedFewer, Zenon
  <2>3. QED
    BY <1>1, <2>2, Zenon DEF IInv, TypeInv, FlagInv, Done
<1>7. DataInv'
  BY <1>1, Zenon DEF IInv, DataInv, Cached
<1>8. QED
  BY <1>2, <1>3, <1>4, <1>5, <1>6, <1>7, Zenon DEF IInv

--------------------------------------------------------------------------------
(* A buffer that may not be recycled is in use or pinned. *)
LEMMA NoBufferLeaks ==
  ASSUME IInv, NEW b \in Buf
  PROVE  Free(b) \/ b \in Pinned \/ \E p \in Proc : bp[p] = b
<1> SUFFICES ASSUME b \notin Pinned, \A p \in Proc : bp[p] # b PROVE Free(b)
  BY Zenon
<1>1. Users(b) = {}
  BY Zenon DEF Users
<1>2. buf[b].refcnt = 0
  BY <1>1, FS_EmptySet, Zenon DEF IInv, RefInv
<1>3. ~ buf[b].dirty
  BY Zenon DEF Pinned
<1>4. QED
  BY <1>2, <1>3, Zenon DEF Free

(* bget() that finds all buffers in use or pinned changes nothing. *)
LEMMA BgetFails ==
  ASSUME IInv, NEW p \in Proc, pc[p] = "idle", pc' = [pc EXCEPT ![p] = "exhausted"],
         UNCHANGED <<buf, lru, holder, idequeue, command, disk, bp, latest, failed>>
  PROVE  IInv'
<1>1. pc \in [Proc -> Label] /\ pc'[p] = "exhausted" /\ \A q \in Proc \ {p} : pc'[q] = pc[q]
  BY Zenon DEF IInv, TypeInv
<1>2. TypeInv'
  BY Zenon DEF IInv, TypeInv, Label
<1>3. RefInv'
  BY <1>1, RefSame, Zenon
<1>4. LockInv'
  <2>1. \A c \in Buf : holder[c] # p
    BY BioAssumption DEF IInv, LockInv, Holder
  <2>2. QED
    BY <1>1, <2>1 DEF IInv, TypeInv, LockInv, Holder
<1>5. QueueInv'
  <2>1. command' = StartNext(idequeue)'
    BY CommandSame, Zenon
  <2>2. \A q \in Proc : pc[q] = "io_sleep" <=> pc'[q] = "io_sleep"
    BY <1>1, Zenon
  <2>3. \A i \in DOMAIN idequeue : holder[idequeue[i]] \in Proc \cup {NoProc}
    BY DEF IInv, TypeInv
  <2>4. QED
    BY <2>1, <2>2, <2>3, Zenon DEF IInv, QueueInv
<1>6. FlagInv'
  <2>1. Pinned' \subseteq Pinned
    BY <1>1, Zenon DEF Pinned
  <2>2. Cardinality(Pinned') <= MaxPin
    BY <2>1, PinnedFewer, Zenon
  <2>3. QED
    BY <1>1, <2>2, Zenon DEF IInv, FlagInv, Done
<1>7. DataInv'
  BY Zenon DEF IInv, DataInv, Cached
<1>8. QED
  BY <1>2, <1>3, <1>4, <1>5, <1>6, <1>7, Zenon DEF IInv

(* A process that was idle gets a reference to b and goes to its lock. *)
LEMMA BgetLock ==
  ASSUME IInv, NEW p \in Proc, NEW b \in Buf, pc[p] = "idle",
         bp' = [bp EXCEPT ![p] = b], pc' = [pc EXCEPT ![p] = "lock"],
         UNCHANGED <<holder, idequeue, command>>,
         \A i \in DOMAIN idequeue : LET c == idequeue[i] IN
           /\ buf'[c].dirty = buf[c].dirty /\ buf'[c].blockno = buf[c].blockno
           /\ buf'[c].data = buf[c].data
  PROVE  /\ LockInv' /\ QueueInv'
         /\ Users(b)' = Users(b) \cup {p} /\ p \notin Users(b)
         /\ \A c \in Buf \ {b} : Users(c)' = Users(c)
<1>1. /\ bp[p] = NoBuf /\ NoBuf \notin Buf /\ NoProc \notin Proc
      /\ bp \in [Proc -> Buf \cup {NoBuf}] /\ pc \in [Proc -> Label]
      /\ holder \in [Buf -> Proc \cup {NoProc}]
  BY BioAssumption, Zenon DEF IInv, TypeInv, RefInv
<1>2. \A q \in Proc \ {p} : bp'[q] = bp[q] /\ pc'[q] = pc[q]
  BY <1>1, Zenon
<1>3. bp'[p] = b /\ pc'[p] = "lock"
  BY <1>1, Zenon
<1>4. \A c \in Buf : holder[c] # p
  BY <1>1 DEF IInv, LockInv, Holder
<1>5. LockInv'
  <2>1. \A q \in Proc : pc'[q] \in Holder => holder'[bp'[q]] = q
    BY <1>2, <1>3 DEF IInv, LockInv, Holder
  <2>2. \A c \in Buf : holder'[c] # NoProc => bp'[holder'[c]] = c /\ pc'[holder'[c]] \in Holder
    BY <1>1, <1>2, <1>4 DEF IInv, LockInv
  <2>3. \A q \in Proc : pc'[q] = "lock_sleep" => holder'[bp'[q]] # NoProc
    BY <1>2, <1>3 DEF IInv, LockInv
  <2>4. QED
    BY <2>1, <2>2, <2>3, Zenon DEF LockInv
<1>6. QueueInv'
  <2>1. command' = StartNext(idequeue)'
    BY CommandSame, Zenon
  <2>2. \A i \in DOMAIN idequeue : idequeue[i] \in Buf
    BY DEF IInv, TypeInv
  <2>3. \A i \in DOMAIN idequeue :
          holder[idequeue[i]] # NoProc /\ pc'[holder[idequeue[i]]] = "io_sleep"
    BY <1>1, <1>2, <1>4, <2>2 DEF IInv, QueueInv
  <2>4. \A q \in Proc : pc'[q] = "io_sleep" => \E i \in DOMAIN idequeue : idequeue[i] = bp'[q]
    BY <1>2, <1>3 DEF IInv, QueueInv
  <2>5. QED
    BY <2>1, <2>3, <2>4 DEF IInv, QueueInv
<1>7. Users(b)' = Users(b) \cup {p} /\ p \notin Users(b)
  BY <1>1, <1>2, <1>3, Zenon DEF Users
<1>8. \A c \in Buf \ {b} : Users(c)' = Users(c)
  BY <1>1, <1>2, <1>3, Zenon DEF Users
<1>9. QED
  BY <1>5, <1>6, <1>7, <1>8, Zenon

(* The flags' part that is about processes and pins is theirs as well. *)
LEMMA BgetFlags ==
  ASSUME IInv, NEW p \in Proc, NEW b \in Buf, pc[p] = "idle",
         bp' = [bp EXCEPT ![p] = b], pc' = [pc EXCEPT ![p] = "lock"],
         \A c \in Buf : buf'[c].dirty = buf[c].dirty,
         \A c \in Buf : Users(c) # {} => buf'[c].valid = buf[c].valid
  PROVE  /\ \A q \in Proc :
              /\ pc'[q] = "use" => buf'[bp'[q]].valid
              /\ pc'[q] \in {"iderw", "io_sleep"} => ~ Done(bp[q])'
              /\ pc'[q] = "io_wait" => Done(bp[q])'
         /\ Cardinality(Pinned') <= MaxPin
<1>1. /\ bp[p] = NoBuf /\ NoBuf \notin Buf
      /\ bp \in [Proc -> Buf \cup {NoBuf}] /\ pc \in [Proc -> Label]
  BY BioAssumption, Zenon DEF IInv, TypeInv, RefInv
<1>2. \A q \in Proc \ {p} : bp'[q] = bp[q] /\ pc'[q] = pc[q]
  BY <1>1, Zenon
<1>3. bp'[p] = b /\ pc'[p] = "lock"
  BY <1>1, Zenon
<1>4. \A q \in Proc : pc[q] \notin Away => bp[q] \in Buf /\ buf'[bp[q]].valid = buf[bp[q]].valid
  BY UserFacts, Zenon DEF Users
<1>5. Pinned' \subseteq Pinned
  BY <1>1, <1>2, <1>3, Zenon DEF Pinned
<1>6. Cardinality(Pinned') <= MaxPin
  BY <1>5, PinnedFewer, Zenon
<1>7. QED
  BY <1>2, <1>3, <1>4, <1>6 DEF IInv, FlagInv, Done

(* Counting one user more. *)
LEMMA OneUserMore ==
  ASSUME IInv, NEW p \in Proc, NEW b \in Buf,
         Users(b)' = Users(b) \cup {p}, p \notin Users(b)
  PROVE  Cardinality(Users(b)') = buf[b].refcnt + 1
<1>1. IsFiniteSet(Users(b)) /\ buf[b].refcnt = Cardinality(Users(b))
  BY UsersFinite, Zenon DEF IInv, RefInv
<1>2. QED
  BY <1>1, FS_AddElement, Zenon

(***************************************************************************)
(* bget() that finds the block cached.                                     *)
(***************************************************************************)
LEMMA BgetHit ==
  ASSUME IInv, NEW p \in Proc, NEW b \in Buf, pc[p] = "idle", buf[b].blockno \in Block,
         buf' = [buf EXCEPT ![b].refcnt = @ + 1],
         bp' = [bp EXCEPT ![p] = b], pc' = [pc EXCEPT ![p] = "lock"],
         UNCHANGED <<lru, holder, idequeue, command, disk, latest, failed>>
  PROVE  IInv'
<1>1. TypeInv'
  <2>1. buf[b] \in Buffer
    BY Zenon DEF IInv, TypeInv
  <2>2. [buf[b] EXCEPT !.refcnt = @ + 1] \in Buffer
    BY <2>1 DEF Buffer
  <2>3. QED
    BY <2>2, Zenon DEF IInv, TypeInv, Label
<1>2. /\ buf'[b].refcnt = buf[b].refcnt + 1
      /\ \A c \in Buf \ {b} : buf'[c].refcnt = buf[c].refcnt
      /\ \A c \in Buf : /\ buf'[c].blockno = buf[c].blockno /\ buf'[c].valid = buf[c].valid
                        /\ buf'[c].dirty = buf[c].dirty /\ buf'[c].data = buf[c].data
  BY DEF IInv, TypeInv, Buffer
<1>3. \A i \in DOMAIN idequeue : idequeue[i] \in Buf
  BY DEF IInv, TypeInv
<1>4. /\ LockInv' /\ QueueInv'
      /\ Users(b)' = Users(b) \cup {p} /\ p \notin Users(b)
      /\ \A c \in Buf \ {b} : Users(c)' = Users(c)
  BY <1>2, <1>3, BgetLock, Zenon
<1>5. RefInv'
  <2>1. \A c \in Buf : buf'[c].refcnt = Cardinality(Users(c)')
    BY <1>2, <1>4, OneUserMore DEF IInv, RefInv
  <2>2. \A q \in Proc : /\ bp'[q] = NoBuf <=> pc'[q] \in Away
                        /\ bp'[q] \in Buf => buf'[bp'[q]].blockno \in Block
    BY <1>2, BioAssumption DEF IInv, TypeInv, RefInv
  <2>3. QED
    BY <1>2, <2>1, <2>2 DEF IInv, RefInv
<1>6. FlagInv'
  BY <1>2, BgetFlags, ZenonT(60) DEF IInv, FlagInv
<1>7. DataInv'
  BY <1>2 DEF IInv, DataInv, Cached
<1>8. QED
  BY <1>1, <1>4, <1>5, <1>6, <1>7, Zenon DEF IInv

(***************************************************************************)
(* bget() that recycles a buffer nobody uses: the block it had is on disk. *)
(***************************************************************************)
LEMMA BgetRecycle ==
  ASSUME IInv, NEW p \in Proc, NEW b \in Buf, NEW blk \in Block, pc[p] = "idle",
         Cached(blk) = {}, Free(b),
         buf' \in [Buf -> Buffer],
         buf'[b].refcnt = 1, buf'[b].blockno = blk, buf'[b].valid = FALSE, buf'[b].dirty = FALSE,
         \A c \in Buf \ {b} :
           /\ buf'[c].blockno = buf[c].blockno /\ buf'[c].valid = buf[c].valid
           /\ buf'[c].dirty = buf[c].dirty /\ buf'[c].data = buf[c].data
           /\ buf'[c].refcnt = buf[c].refcnt,
         bp' = [bp EXCEPT ![p] = b], pc' = [pc EXCEPT ![p] = "lock"],
         failed' = failed \ {b},
         UNCHANGED <<lru, holder, idequeue, command, disk, latest>>
  PROVE  IInv'
<1>1. TypeInv'
  BY Zenon DEF IInv, TypeInv, Label
<1>2. buf[b].refcnt = 0 /\ ~ buf[b].dirty /\ Users(b) = {}
  BY UsersFinite, Zenon DEF IInv, RefInv, Free
<1>3. \A i \in DOMAIN idequeue : idequeue[i] \in Buf \ {b}
  <2>1. \A i \in DOMAIN idequeue : idequeue[i] \in Buf /\ holder[idequeue[i]] \in Proc
    BY DEF IInv, TypeInv, QueueInv
  <2>2. QED
    BY <1>2, <2>1, BioAssumption DEF IInv, LockInv, Users
<1>4. /\ LockInv' /\ QueueInv'
      /\ Users(b)' = Users(b) \cup {p} /\ p \notin Users(b)
      /\ \A c \in Buf \ {b} : Users(c)' = Users(c)
  BY <1>3, BgetLock, ZenonT(60)
<1>5. RefInv'
  <2>1. \A c \in Buf : buf'[c].refcnt = Cardinality(Users(c)')
    <3>1. Users(b)' = {p}
      BY <1>2, <1>4, Zenon
    <3>2. Cardinality(Users(b)') = 1
      BY <3>1, FS_Singleton, ZenonT(60)
    <3>3. \A c \in Buf \ {b} : Cardinality(Users(c)') = buf[c].refcnt
      BY <1>4 DEF IInv, RefInv
    <3>4. QED
      BY <3>2, <3>3, Zenon
  <2>2. \A q \in Proc : /\ bp'[q] = NoBuf <=> pc'[q] \in Away
                        /\ bp'[q] \in Buf => buf'[bp'[q]].blockno \in Block
    <3>1. bp'[p] = b /\ pc'[p] = "lock" /\ b # NoBuf
      BY BioAssumption, Zenon DEF IInv, TypeInv
    <3>2. \A q \in Proc \ {p} : bp'[q] = bp[q] /\ pc'[q] = pc[q] /\ bp[q] # b
      BY <1>2, Zenon DEF IInv, TypeInv, Users
    <3>3. QED
      BY <3>1, <3>2 DEF IInv, RefInv
  <2>3. \A c, d \in Buf : buf'[c].blockno = buf'[d].blockno /\ buf'[c].blockno \in Block => c = d
    BY DEF IInv, RefInv, Cached
  <2>4. QED
    BY <2>1, <2>2, <2>3 DEF IInv, RefInv
<1>6. FlagInv'
  <2>1. /\ \A c \in Buf : buf'[c].dirty = buf[c].dirty
        /\ \A c \in Buf : Users(c) # {} => buf'[c].valid = buf[c].valid
    <3>1. buf'[b].dirty = buf[b].dirty
      BY <1>2, Zenon DEF IInv, TypeInv, Buffer
    <3>2. QED
      BY <1>2, <3>1, Zenon
  <2>2. \A c \in Buf : /\ buf'[c].dirty => buf'[c].valid
                       /\ buf'[c].valid => buf'[c].blockno \in Block
    BY Zenon DEF IInv, FlagInv
  <2>3. QED
    BY <2>1, <2>2, BgetFlags, ZenonT(60) DEF FlagInv
<1>7. DataInv'
  <2>1. \A k \in Block : disk[k] = latest[k] \/ \E c \in Buf \ {b} : buf[c].blockno = k /\ buf[c].dirty
    BY <1>2, Zenon DEF IInv, DataInv, Cached
  <2>2. QED
    BY <2>1, SMTT(60) DEF IInv, DataInv, Cached
<1>8. QED
  BY <1>1, <1>4, <1>5, <1>6, <1>7, Zenon DEF IInv

(***************************************************************************)
(* bget(): the three cases.                                                *)
(***************************************************************************)
LEMMA BgetIInv ==
  ASSUME IInv, NEW p \in Proc, NEW blk \in Block, Bget(p, blk)
  PROVE  IInv'
<1>1. pc[p] = "idle" /\ UNCHANGED <<lru, holder, idequeue, command, disk, latest>>
  BY Zenon DEF Bget, device
<1>2. ASSUME NEW b \in Cached(blk), buf' = [buf EXCEPT ![b].refcnt = @ + 1],
             bp' = [bp EXCEPT ![p] = b], Goto(p, "lock"), UNCHANGED failed
      PROVE  IInv'
  BY <1>1, <1>2, BgetHit, Zenon DEF Goto, Cached
<1>3. ASSUME NEW i \in LastFree, NEW b, b = lru[i], Cached(blk) = {},
             buf' = [buf EXCEPT ![b].blockno = blk, ![b].valid = FALSE,
                                ![b].dirty = FALSE, ![b].refcnt = 1],
             bp' = [bp EXCEPT ![p] = b], failed' = failed \ {b}, Goto(p, "lock")
      PROVE  IInv'
  <2>1. b \in Buf /\ Free(b)
    BY <1>3 DEF LastFree, IInv, TypeInv
  <2>2. DEFINE new == [buf[b] EXCEPT !.blockno = blk, !.valid = FALSE, !.dirty = FALSE,
                                     !.refcnt = 1]
  <2>3. buf \in [Buf -> Buffer] /\ buf[b] \in Buffer
    BY <2>1, Zenon DEF IInv, TypeInv
  <2>4. /\ new \in Buffer
        /\ new.refcnt = 1 /\ new.blockno = blk /\ new.valid = FALSE /\ new.dirty = FALSE
    BY <2>3, Zenon DEF Buffer
  <2>5. buf' = [buf EXCEPT ![b] = new]
    BY <1>3, <2>3, Zenon
  <2> HIDE DEF new
  <2>6. buf' \in [Buf -> Buffer] /\ buf'[b] = new /\ \A c \in Buf \ {b} : buf'[c] = buf[c]
    BY <2>1, <2>3, <2>4, <2>5, Zenon
  <2>7. pc' = [pc EXCEPT ![p] = "lock"]
    BY <1>3, Zenon DEF Goto
  <2>8. \A c \in Buf \ {b} :
          /\ buf'[c].blockno = buf[c].blockno /\ buf'[c].valid = buf[c].valid
          /\ buf'[c].dirty = buf[c].dirty /\ buf'[c].data = buf[c].data
          /\ buf'[c].refcnt = buf[c].refcnt
    BY <2>6, Zenon
  <2>9. /\ buf'[b].refcnt = 1 /\ buf'[b].blockno = blk
        /\ buf'[b].valid = FALSE /\ buf'[b].dirty = FALSE
    BY <2>4, <2>6, Zenon
  <2>10. buf' \in [Buf -> Buffer]
    BY <2>6, Zenon
  <2>11. Cached(blk) = {} /\ bp' = [bp EXCEPT ![p] = b] /\ failed' = failed \ {b}
    BY <1>3, Zenon
  <2>12. QED
    BY <1>1, <2>1, <2>7, <2>8, <2>9, <2>10, <2>11, BgetRecycle, Zenon
<1>4. ASSUME Goto(p, "exhausted"), UNCHANGED <<buf, bp, failed>>
      PROVE  IInv'
  BY <1>1, <1>4, BgetFails, Zenon DEF Goto
<1>5. QED
  BY <1>2, <1>3, <1>4, ZenonT(60) DEF Bget

--------------------------------------------------------------------------------
(* A buffer that moves to the head of the list stays on it, as do others. *)
LEMMA MoveToFrontKeeps ==
  ASSUME NEW s \in Seq(Buf), NEW i \in DOMAIN s
  PROVE  /\ MoveToFront(s, i) \in Seq(Buf)
         /\ \A j \in DOMAIN s : \E k \in DOMAIN MoveToFront(s, i) : MoveToFront(s, i)[k] = s[j]
<1> DEFINE t == MoveToFront(s, i)
<1>1. Len(s) \in Nat /\ i \in 1 .. Len(s) /\ DOMAIN s = 1 .. Len(s) /\ \A j \in 1 .. Len(s) : s[j] \in Buf
  OBVIOUS
<1>2. t = [j \in 1 .. Len(s) |-> IF j = 1 THEN s[i] ELSE IF j <= i THEN s[j - 1] ELSE s[j]]
  BY <1>1, Zenon DEF MoveToFront
<1> HIDE DEF t
<1>3. t \in [1 .. Len(s) -> Buf]
  BY <1>1, <1>2
<1>4. ASSUME NEW j \in 1 .. Len(s) PROVE \E k \in 1 .. Len(s) : t[k] = s[j]
  <2>1. CASE j = i
    BY <1>1, <1>2, <2>1
  <2>2. CASE j < i
    <3>1. j + 1 \in 1 .. Len(s) /\ t[j + 1] = s[j]
      BY <1>1, <1>2, <2>2
    <3>2. QED
      BY <3>1, Zenon
  <2>3. CASE j > i
    BY <1>1, <1>2, <2>3
  <2>4. QED
    BY <1>1, <2>1, <2>2, <2>3
<1>5. t \in Seq(Buf) /\ DOMAIN t = 1 .. Len(s)
  BY <1>1, <1>3
<1>6. QED
  BY <1>1, <1>4, <1>5, ZenonT(60) DEF t

(***************************************************************************)
(* The rest of brelse(): the reference goes, and an unused buffer becomes  *)
(* the most recently used one.                                             *)
(***************************************************************************)
LEMMA UnrefIInv ==
  ASSUME IInv, NEW p \in Proc, Unref(p)
  PROVE  IInv'
<1>0. PICK b \in Buf : b = bp[p]
  BY UserFacts, Zenon DEF Unref
<1>1. /\ bp[p] = b /\ pc[p] = "unref" /\ NoBuf \notin Buf
      /\ UNCHANGED <<holder, idequeue, command, disk, latest, failed>>
      /\ bp' = [bp EXCEPT ![p] = NoBuf] /\ pc' = [pc EXCEPT ![p] = "idle"]
  BY <1>0, BioAssumption, Zenon DEF Unref, Goto, device, history
<1>2. Users(b)' = Users(b) \ {p} /\ p \in Users(b) /\ \A c \in Buf \ {b} : Users(c)' = Users(c)
  BY <1>1, Zenon DEF IInv, TypeInv, Users
<1>3. Cardinality(Users(b)') = buf[b].refcnt - 1 /\ buf[b].refcnt - 1 \in Nat
  <2>1. IsFiniteSet(Users(b)) /\ buf[b].refcnt = Cardinality(Users(b))
    BY <1>1, UsersFinite, Zenon DEF IInv, RefInv
  <2>2. Cardinality(Users(b)') = Cardinality(Users(b)) - 1 /\ IsFiniteSet(Users(b)')
    BY <1>2, <2>1, FS_RemoveElement, Zenon
  <2>3. QED
    BY <2>1, <2>2, FS_CardinalityType, Zenon
<1>4. /\ buf' \in [Buf -> Buffer] /\ buf'[b].refcnt = buf[b].refcnt - 1
      /\ \A c \in Buf : /\ buf'[c].blockno = buf[c].blockno /\ buf'[c].valid = buf[c].valid
                        /\ buf'[c].dirty = buf[c].dirty /\ buf'[c].data = buf[c].data
      /\ \A c \in Buf \ {b} : buf'[c].refcnt = buf[c].refcnt
  <2> DEFINE new == [buf[b] EXCEPT !.refcnt = @ - 1]
  <2>1. buf \in [Buf -> Buffer] /\ buf[b] \in Buffer
    BY <1>1, Zenon DEF IInv, TypeInv
  <2>2. /\ new \in Buffer /\ new.refcnt = buf[b].refcnt - 1 /\ new.blockno = buf[b].blockno
        /\ new.valid = buf[b].valid /\ new.dirty = buf[b].dirty /\ new.data = buf[b].data
    BY <1>3, <2>1, Zenon DEF Buffer
  <2>3. buf' = [buf EXCEPT ![b] = new]
    BY <1>1, <2>1, Zenon DEF Unref
  <2> HIDE DEF new
  <2>4. QED
    BY <1>1, <2>1, <2>2, <2>3, Zenon
<1>5. lru' \in Seq(Buf) /\ \A c \in Buf : \E i \in DOMAIN lru' : lru'[i] = c
  <2>1. lru \in Seq(Buf) /\ \A c \in Buf : \E i \in DOMAIN lru : lru[i] = c
    BY Zenon DEF IInv, TypeInv, RefInv
  <2>2. PICK i \in DOMAIN lru : lru' = MoveToFront(lru, i) \/ lru' = lru
    BY <1>1, Zenon DEF Unref
  <2> DEFINE t == MoveToFront(lru, i)
  <2>3. t \in Seq(Buf) /\ \A j \in DOMAIN lru : \E k \in DOMAIN t : t[k] = lru[j]
    BY <2>1, MoveToFrontKeeps, Zenon
  <2>4. lru' = t \/ lru' = lru
    BY <2>2, Zenon
  <2> HIDE DEF t
  <2>5. QED
    BY <2>1, <2>3, <2>4, Zenon
<1>6. /\ \A q \in Proc \ {p} : bp'[q] = bp[q] /\ pc'[q] = pc[q]
      /\ bp'[p] = NoBuf /\ pc'[p] = "idle"
  BY <1>1, Zenon DEF IInv, TypeInv
<1>7. TypeInv'
  BY <1>1, <1>4, <1>5, Zenon DEF IInv, TypeInv, Label
<1>8. RefInv'
  <2>1. \A c \in Buf : buf'[c].refcnt = Cardinality(Users(c)')
    <3>1. \A c \in Buf \ {b} : Cardinality(Users(c)') = buf[c].refcnt
      BY <1>2, SMTT(60) DEF IInv, RefInv
    <3>2. QED
      BY <1>3, <1>4, <3>1, Zenon
  <2>2. \A q \in Proc : /\ bp'[q] = NoBuf <=> pc'[q] \in Away
                        /\ bp'[q] \in Buf => buf'[bp'[q]].blockno \in Block
    BY <1>1, <1>4, <1>6 DEF IInv, RefInv
  <2>3. QED
    BY <1>4, <1>5, <2>1, <2>2, SMTT(60) DEF IInv, RefInv
<1>9. \A c \in Buf : holder[c] \in (Proc \ {p}) \cup {NoProc}
  BY <1>1, SMTT(60) DEF IInv, TypeInv, LockInv, Holder
<1>10. LockInv'
  <2>1. \A q \in Proc : pc'[q] \in Holder => holder'[bp'[q]] = q
    BY <1>1, <1>6 DEF IInv, LockInv, Holder
  <2>2. \A c \in Buf : holder'[c] # NoProc => bp'[holder'[c]] = c /\ pc'[holder'[c]] \in Holder
    BY <1>1, <1>6, <1>9 DEF IInv, LockInv
  <2>3. \A q \in Proc : pc'[q] = "lock_sleep" => holder'[bp'[q]] # NoProc
    BY <1>1, <1>6, SMTT(60) DEF IInv, LockInv
  <2>4. QED
    BY <2>1, <2>2, <2>3, Zenon DEF LockInv
<1>11. QueueInv'
  <2>1. \A i \in DOMAIN idequeue : idequeue[i] \in Buf
    BY SMTT(60) DEF IInv, TypeInv
  <2>2. command' = StartNext(idequeue)'
    BY <1>1, <1>4, <2>1, CommandSame, Zenon
  <2>3. \A i \in DOMAIN idequeue :
          holder[idequeue[i]] # NoProc /\ pc'[holder[idequeue[i]]] = "io_sleep"
    BY <1>6, <1>9, <2>1, Zenon DEF IInv, QueueInv
  <2>4. \A q \in Proc : pc'[q] = "io_sleep" => \E i \in DOMAIN idequeue : idequeue[i] = bp'[q]
    BY <1>6 DEF IInv, QueueInv
  <2>5. QED
    BY <1>1, <2>2, <2>3, <2>4 DEF IInv, QueueInv
<1>12. FlagInv'
  <2>1. Pinned' \subseteq Pinned
    BY <1>1, <1>4, <1>6 DEF Pinned
  <2>2. Cardinality(Pinned') <= MaxPin
    BY <2>1, PinnedFewer, Zenon
  <2>3. \A q \in Proc : pc'[q] \notin Away => bp'[q] \in Buf /\ bp'[q] = bp[q] /\ pc'[q] = pc[q]
    BY <1>6, UserFacts, Zenon
  <2>4. QED
    BY <1>4, <2>2, <2>3 DEF IInv, FlagInv, Done
<1>13. DataInv'
  BY <1>1, <1>4 DEF IInv, DataInv, Cached
<1>14. QED
  BY <1>7, <1>8, <1>10, <1>11, <1>12, <1>13, Zenon DEF IInv

--------------------------------------------------------------------------------
(***************************************************************************)
(* Changes of a buffer, the disk driver and the theorems.                  *)
(***************************************************************************)
(* A buffer with new data and B_DIRTY; the others stay. *)
Dirtied(b, v) ==
  /\ buf' \in [Buf -> Buffer]
  /\ buf'[b].data = v /\ buf'[b].dirty = TRUE /\ buf'[b].valid = buf[b].valid
  /\ buf'[b].blockno = buf[b].blockno /\ buf'[b].refcnt = buf[b].refcnt
  /\ \A c \in Buf \ {b} : buf'[c] = buf[c]

(* The change a holder makes to its buffer, field by field. *)
LEMMA DirtiedIs ==
  ASSUME IInv, NEW b \in Buf, NEW v \in Value,
         buf' = [buf EXCEPT ![b].data = v, ![b].dirty = TRUE]
  PROVE  Dirtied(b, v)
<1> DEFINE new == [buf[b] EXCEPT !.data = v, !.dirty = TRUE]
<1>1. buf \in [Buf -> Buffer] /\ buf[b] \in Buffer
  BY Zenon DEF IInv, TypeInv
<1>2. /\ new \in Buffer
      /\ new.data = v /\ new.dirty = TRUE /\ new.valid = buf[b].valid
      /\ new.blockno = buf[b].blockno /\ new.refcnt = buf[b].refcnt
  BY <1>1, Zenon DEF Buffer
<1>3. buf' = [buf EXCEPT ![b] = new]
  BY <1>1, Zenon
<1> HIDE DEF new
<1>4. QED
  BY <1>1, <1>2, <1>3, ZenonT(60) DEF Dirtied

(***************************************************************************)
(* The holder changes the buffer, for bwrite() or log_write().             *)
(***************************************************************************)
LEMMA ChangeIInv ==
  ASSUME IInv, NEW p \in Proc, NEW v \in Value, pc[p] = "use", Dirtied(bp[p], v),
         latest' = [latest EXCEPT ![buf[bp[p]].blockno] = v], failed' = failed \ {bp[p]},
         UNCHANGED <<lru, holder, idequeue, command, disk, bp>>,
         pc' \in [Proc -> Label], pc'[p] \in {"use", "iderw"},
         \A q \in Proc \ {p} : pc'[q] = pc[q],
         Cardinality(Pinned') <= MaxPin
  PROVE  IInv'
<1> DEFINE b == bp[p]
<1>1. /\ b \in Buf /\ buf[b].blockno \in Block /\ holder[b] = p /\ p # NoProc
      /\ \A q \in Proc : bp[q] = b /\ pc[q] \in Holder => q = p
  BY UserFacts, Zenon DEF Holder
<1> HIDE DEF b
<1>2. /\ buf'[b].data = v /\ buf'[b].dirty /\ buf'[b].valid
      /\ \A c \in Buf : buf'[c].blockno = buf[c].blockno /\ buf'[c].refcnt = buf[c].refcnt
      /\ \A c \in Buf \ {b} : /\ buf'[c].valid = buf[c].valid /\ buf'[c].dirty = buf[c].dirty
                              /\ buf'[c].data = buf[c].data
  BY <1>1, Zenon DEF b, Dirtied, IInv, FlagInv
<1>3. TypeInv'
  BY <1>1, Zenon DEF b, IInv, TypeInv, Dirtied
<1>4. RefInv'
  <2>1. \A c : Users(c)' = Users(c)
    BY Zenon DEF Users
  <2>2. \A q \in Proc : bp[q] = NoBuf <=> pc'[q] \in Away
    BY DEF IInv, RefInv
  <2>3. QED
    BY <1>2, <2>1, <2>2 DEF IInv, RefInv
<1>5. LockInv'
  <2>1. pc'[p] \in Holder /\ pc[p] \in Holder
    BY Zenon DEF Holder
  <2>2. \A c \in Buf : holder[c] \in Proc \cup {NoProc}
    BY Zenon DEF IInv, TypeInv
  <2>3. QED
    BY <2>1, <2>2, Zenon DEF IInv, LockInv
<1>6. QueueInv'
  <2>1. \A i \in DOMAIN idequeue : idequeue[i] \in Buf \ {b}
    BY <1>1 DEF IInv, TypeInv, QueueInv
  <2>2. command' = StartNext(idequeue)'
    BY <1>2, <2>1, CommandSame, Zenon
  <2>3. \A i \in DOMAIN idequeue : holder[idequeue[i]] \in (Proc \ {p}) \cup {NoProc}
    BY <2>1, Zenon DEF IInv, TypeInv, QueueInv
  <2>4. QED
    BY <2>2, <2>3 DEF IInv, QueueInv
<1>7. FlagInv'
  <2>1. \A q \in Proc \ {p} : pc[q] \in Holder => bp[q] \in Buf \ {b}
    BY <1>1, UserFacts, Zenon DEF Holder
  <2>2. \A q \in Proc :
          /\ pc'[q] = "use" => buf'[bp[q]].valid
          /\ pc'[q] \in {"iderw", "io_sleep"} => ~ (buf'[bp[q]].valid /\ ~ buf'[bp[q]].dirty)
          /\ pc'[q] = "io_wait" => buf'[bp[q]].valid /\ ~ buf'[bp[q]].dirty
    BY <1>2, <2>1 DEF b, IInv, FlagInv, Done, Holder
  <2>3. \A c \in Buf : /\ buf'[c].dirty => buf'[c].valid
                       /\ buf'[c].valid => buf'[c].blockno \in Block
    BY <1>1, <1>2 DEF IInv, FlagInv
  <2>4. QED
    BY <2>2, <2>3, Zenon DEF FlagInv, Done
<1>8. DataInv'
  <2>1. /\ latest'[buf[b].blockno] = v
        /\ \A k \in Block \ {buf[b].blockno} : latest'[k] = latest[k]
    BY <1>1, Zenon DEF b, IInv, TypeInv
  <2>2. \A c \in Buf \ {b} : buf[c].valid => buf[c].blockno \in Block \ {buf[b].blockno}
    BY <1>1, Zenon DEF IInv, FlagInv, RefInv
  <2>3. \A c \in Buf : buf'[c].valid /\ c \notin failed' => buf'[c].data = latest'[buf'[c].blockno]
    BY <1>2, <2>1, <2>2, SMTT(60) DEF b, IInv, DataInv
  <2>4. \A c \in Buf : buf'[c].dirty => c \notin failed'
    BY <1>2, Zenon DEF b, IInv, DataInv
  <2>5. \A k \in Block : disk[k] = latest'[k] \/ \E c \in Cached(k)' : buf'[c].dirty
    BY <1>1, <1>2, <2>1 DEF IInv, DataInv, Cached
  <2>6. QED
    BY <2>3, <2>4, <2>5, Zenon DEF DataInv
<1>9. QED
  BY <1>3, <1>4, <1>5, <1>6, <1>7, <1>8, Zenon DEF IInv

(* bwrite() of a buffer that is held. *)
LEMMA BwriteIInv ==
  ASSUME IInv, NEW p \in Proc, NEW v \in Value, Bwrite(p, v)
  PROVE  IInv'
<1>1. bp[p] \in Buf /\ pc[p] = "use" /\ Holding(p)
  BY UserFacts, Zenon DEF Bwrite, Holding, Holder
<1>2. pc' = [pc EXCEPT ![p] = "iderw"] /\ bp' = bp
  BY <1>1, Zenon DEF Bwrite, Goto
<1>3. Dirtied(bp[p], v)
  BY <1>1, DirtiedIs, Zenon DEF Bwrite
<1>4. /\ pc' \in [Proc -> Label] /\ pc'[p] = "iderw"
      /\ \A q \in Proc \ {p} : pc'[q] = pc[q]
  BY <1>2, Zenon DEF IInv, TypeInv, Label, Holder
<1>5. Cardinality(Pinned') <= MaxPin
  <2>1. Pinned' \subseteq Pinned
    BY <1>1, <1>2, <1>3, <1>4, Zenon DEF Pinned, Dirtied
  <2>2. QED
    BY <2>1, PinnedFewer, Zenon
<1>6. QED
  BY <1>1, <1>3, <1>4, <1>5, ChangeIInv, Zenon DEF Bwrite, device

(* log_write() pins a buffer that is held. *)
LEMMA LogWriteIInv ==
  ASSUME IInv, NEW p \in Proc, NEW v \in Value, LogWrite(p, v)
  PROVE  IInv'
<1>1. bp[p] \in Buf /\ pc[p] = "use" /\ UNCHANGED <<pc, bp>>
  BY UserFacts, Zenon DEF LogWrite
<1>2. Dirtied(bp[p], v)
  BY <1>1, DirtiedIs, Zenon DEF LogWrite
<1>3. Cardinality(Pinned') <= MaxPin
  <2> DEFINE S == Pinned \cup {bp[p]}
  <2>1. IsFiniteSet(S)
    BY <1>1, BioAssumption, FS_Subset DEF Pinned
  <2>2. Pinned' \subseteq S
    BY <1>1, <1>2, Zenon DEF Pinned, Dirtied
  <2>3. Cardinality(S) <= MaxPin
    BY Zenon DEF LogWrite
  <2> HIDE DEF S
  <2>4. /\ Cardinality(Pinned') <= Cardinality(S)
        /\ Cardinality(Pinned') \in Nat /\ Cardinality(S) \in Nat /\ MaxPin \in Nat
    BY <2>1, <2>2, FS_Subset, FS_CardinalityType, BioAssumption, Zenon
  <2>5. QED
    BY <2>3, <2>4
<1>4. QED
  <2>1. pc' \in [Proc -> Label] /\ pc'[p] = "use" /\ \A q \in Proc \ {p} : pc'[q] = pc[q]
    BY <1>1, Zenon DEF IInv, TypeInv
  <2>2. QED
    BY <1>1, <1>2, <1>3, <2>1, ChangeIInv, Zenon DEF LogWrite, device

--------------------------------------------------------------------------------
(* A request of a queued or locked buffer is a command of the disk. *)
LEMMA IdestartType ==
  ASSUME IInv, NEW b \in Buf, buf[b].blockno \in Block
  PROVE  Idestart(b) \in Command /\ Idestart(b).cmd # "idle"
<1>1. buf[b].data \in Value /\ buf[b].dirty \in BOOLEAN
  BY Zenon DEF IInv, TypeInv, Buffer
<1>2. QED
  BY <1>1, Zenon DEF Idestart, Command

(* Who waits for the request of a buffer in the queue. *)
LEMMA QueuedFacts ==
  ASSUME IInv, NEW i \in DOMAIN idequeue
  PROVE  /\ idequeue[i] \in Buf /\ buf[idequeue[i]].blockno \in Block
         /\ \E h \in Proc : /\ holder[idequeue[i]] = h /\ bp[h] = idequeue[i]
                            /\ pc[h] = "io_sleep"
                            /\ \A q \in Proc : bp[q] = idequeue[i] /\ pc[q] \in Holder => q = h
<1>1. idequeue[i] \in Buf
  BY DEF IInv, TypeInv
<1>2. PICK h \in Proc : holder[idequeue[i]] = h /\ bp[h] = idequeue[i] /\ pc[h] = "io_sleep"
  BY <1>1 DEF IInv, TypeInv, QueueInv, LockInv
<1>3. pc[h] \in Holder /\ pc[h] \notin Away
  BY <1>2, Zenon DEF Holder
<1>4. QED
  BY <1>2, <1>3, UserFacts

(***************************************************************************)
(* iderw() queues the request of its caller, and starts it if it is alone. *)
(***************************************************************************)
LEMMA IderwIInv ==
  ASSUME IInv, NEW p \in Proc, Iderw(p)
  PROVE  IInv'
<1>1. PICK b \in Buf : b = bp[p]
  BY UserFacts, Zenon DEF Iderw
<1>2. /\ buf[b].blockno \in Block /\ holder[b] = p /\ p # NoProc /\ pc[p] = "iderw"
      /\ ~ Done(b)
  BY <1>1, UserFacts, Zenon DEF Iderw, Holder, IInv, FlagInv
<1>3. /\ UNCHANGED <<buf, lru, holder, disk, bp, latest, failed>>
      /\ idequeue' = Append(idequeue, b)
      /\ command' = IF idequeue = <<>> THEN Idestart(b) ELSE command
      /\ pc' = [pc EXCEPT ![p] = "io_sleep"]
  BY <1>1, <1>2, Zenon DEF Iderw, Holding, Goto, cache, history
<1>4. /\ pc' \in [Proc -> Label] /\ pc'[p] = "io_sleep"
      /\ \A q \in Proc \ {p} : pc'[q] = pc[q]
  BY <1>3, Zenon DEF IInv, TypeInv, Label, Holder
<1>5. /\ idequeue \in Seq(Buf) /\ idequeue' \in Seq(Buf) /\ Len(idequeue) \in Nat
      /\ DOMAIN idequeue = 1 .. Len(idequeue) /\ DOMAIN idequeue' = 1 .. Len(idequeue) + 1
      /\ \A i \in 1 .. Len(idequeue) : idequeue'[i] = idequeue[i]
      /\ idequeue'[Len(idequeue) + 1] = b
  BY <1>3 DEF IInv, TypeInv
<1>6. \A i \in DOMAIN idequeue : idequeue[i] \in Buf \ {b}
  BY <1>2, <1>5 DEF IInv, QueueInv
<1>7. TypeInv'
  <2>1. command' \in Command
    BY <1>2, <1>3, IdestartType, Zenon DEF IInv, TypeInv
  <2>2. QED
    BY <1>3, <1>4, <1>5, <2>1, Zenon DEF IInv, TypeInv
<1>8. RefInv'
  BY <1>2, <1>3, <1>4, RefSame, Zenon
<1>9. LockInv'
  <2>1. \A c \in Buf : holder[c] \in Proc \cup {NoProc}
    BY Zenon DEF IInv, TypeInv
  <2>2. QED
    BY <1>1, <1>2, <1>3, <1>4, <2>1 DEF IInv, LockInv, Holder
<1>10. QueueInv'
  <2>1. \A i, j \in DOMAIN idequeue' : idequeue'[i] = idequeue'[j] => i = j
    BY <1>5, <1>6 DEF IInv, QueueInv
  <2>2. ASSUME NEW i \in DOMAIN idequeue'
        PROVE  holder'[idequeue'[i]] # NoProc /\ pc'[holder'[idequeue'[i]]] = "io_sleep"
    <3>1. CASE i = Len(idequeue) + 1
      BY <1>2, <1>3, <1>4, <1>5, <3>1, Zenon
    <3>2. CASE i \in DOMAIN idequeue
      <4>1. holder[idequeue[i]] \in Proc /\ pc[holder[idequeue[i]]] = "io_sleep"
        BY <3>2, QueuedFacts
      <4>2. QED
        BY <1>2, <1>3, <1>4, <1>5, <3>2, <4>1, BioAssumption
    <3>3. QED
      BY <1>5, <2>2, <3>1, <3>2
  <2>3. \A q \in Proc : pc'[q] = "io_sleep" => \E i \in DOMAIN idequeue' : idequeue'[i] = bp'[q]
    BY <1>1, <1>3, <1>4, <1>5 DEF IInv, QueueInv
  <2>4. command' = StartNext(idequeue)'
    <3>1. CASE idequeue = <<>>
      BY <1>3, <1>5, <3>1 DEF StartNext, Idestart
    <3>2. CASE idequeue # <<>>
      <4>1. Head(idequeue') = Head(idequeue) /\ idequeue' # <<>>
        BY <1>5, <3>2
      <4>2. command' = Idestart(Head(idequeue))
        BY <1>3, <3>2, Zenon DEF IInv, QueueInv, StartNext
      <4>3. QED
        BY <1>3, <4>1, <4>2, Zenon DEF StartNext, Idestart
    <3>3. QED
      BY <3>1, <3>2, Zenon
  <2>5. QED
    BY <2>1, <2>2, <2>3, <2>4, Zenon DEF QueueInv
<1>11. FlagInv'
  <2>1. Pinned' \subseteq Pinned
    BY <1>2, <1>3, <1>4, Zenon DEF Pinned
  <2>2. Cardinality(Pinned') <= MaxPin
    BY <2>1, PinnedFewer, Zenon
  <2>3. QED
    BY <1>1, <1>2, <1>3, <1>4, <2>2 DEF IInv, FlagInv, Done
<1>12. DataInv'
  BY <1>3 DEF IInv, DataInv, Cached
<1>13. QED
  BY <1>7, <1>8, <1>9, <1>10, <1>11, <1>12, Zenon DEF IInv

(***************************************************************************)
(* The disk has carried out the request of the first buffer b: what that   *)
(* makes of the buffers, the disk and the process h that waits for it.     *)
(***************************************************************************)
LEMMA IdeintrFacts ==
  ASSUME IInv, NEW ok \in BOOLEAN, Ideintr(ok)
  PROVE  \E b \in Buf, h \in Proc :
           /\ b = idequeue[1] /\ 1 \in DOMAIN idequeue
           /\ holder[b] = h /\ bp[h] = b /\ pc[h] = "io_sleep" /\ buf[b].blockno \in Block
           /\ \A q \in Proc : bp[q] = b /\ pc[q] \in Holder => q = h
           /\ pc' \in [Proc -> Label] /\ pc'[h] = "io_wait"
           /\ \A q \in Proc \ {h} : pc'[q] = pc[q]
           /\ buf' \in [Buf -> Buffer] /\ \A c \in Buf \ {b} : buf'[c] = buf[c]
           /\ buf'[b].valid = TRUE /\ buf'[b].dirty = FALSE
           /\ buf'[b].blockno = buf[b].blockno /\ buf'[b].refcnt = buf[b].refcnt
           /\ buf[b].dirty =>
                /\ disk' = [disk EXCEPT ![buf[b].blockno] = buf[b].data]
                /\ buf'[b].data = buf[b].data /\ failed' = failed
           /\ ~ buf[b].dirty =>
                /\ disk' = disk
                /\ \/ buf'[b].data = disk[buf[b].blockno] /\ failed' = failed
                   \/ failed' = failed \cup {b}
<1>1. 1 \in DOMAIN idequeue /\ idequeue # <<>> /\ Head(idequeue) = idequeue[1]
  BY DEF Ideintr, IInv, TypeInv
<1>2. PICK b \in Buf, h \in Proc :
        /\ b = idequeue[1] /\ buf[b].blockno \in Block
        /\ holder[b] = h /\ bp[h] = b /\ pc[h] = "io_sleep"
        /\ \A q \in Proc : bp[q] = b /\ pc[q] \in Holder => q = h
  BY <1>1, QueuedFacts
<1>3. command = Idestart(b)
  BY <1>1, <1>2, Zenon DEF IInv, QueueInv, StartNext
<1>4. command.cmd = "write" <=> buf[b].dirty
  BY <1>3, Zenon DEF Idestart
<1>5. command.blockno = buf[b].blockno /\ (buf[b].dirty => command.data = buf[b].data)
  BY <1>3, Zenon DEF Idestart
<1>6. /\ pc' \in [Proc -> Label] /\ pc'[h] = "io_wait"
      /\ \A q \in Proc \ {h} : pc'[q] = pc[q]
  <2>1. pc' = [q \in Proc |-> IF pc[q] = "io_sleep" /\ bp[q] = b THEN "io_wait" ELSE pc[q]]
    BY <1>1, <1>2, Zenon DEF Ideintr, Wakeup
  <2>2. QED
    BY <1>2, <2>1, Zenon DEF IInv, TypeInv, Label, Holder
<1>7. /\ disk' = IF buf[b].dirty THEN [disk EXCEPT ![buf[b].blockno] = buf[b].data] ELSE disk
      /\ failed' = IF ok THEN failed ELSE failed \cup {b}
      /\ buf[b].dirty => ok
  BY <1>1, <1>2, <1>4, <1>5, Zenon DEF Ideintr
<1> DEFINE d == IF ~ buf[b].dirty /\ ok THEN disk[buf[b].blockno] ELSE buf[b].data
           new == [buf[b] EXCEPT !.valid = TRUE, !.dirty = FALSE, !.data = d]
<1>8. buf \in [Buf -> Buffer] /\ buf[b] \in Buffer /\ disk[buf[b].blockno] \in Value
  BY <1>2, Zenon DEF IInv, TypeInv
<1>9. buf' = [buf EXCEPT ![b] = new]
  <2>1. buf' = [buf EXCEPT ![b].valid = TRUE, ![b].dirty = FALSE,
                  ![b].data = IF ~ (command.cmd = "write") /\ ok THEN disk[command.blockno] ELSE @]
    BY <1>1, <1>2, Zenon DEF Ideintr
  <2>2. QED
    BY <1>4, <1>5, <1>8, <2>1, Zenon DEF Buffer
<1>10. d \in Value
  BY <1>8, Zenon DEF Buffer
<1> HIDE DEF d
<1>11. /\ new \in Buffer /\ new.valid = TRUE /\ new.dirty = FALSE /\ new.data = d
       /\ new.blockno = buf[b].blockno /\ new.refcnt = buf[b].refcnt
  BY <1>8, <1>10, ZenonT(60) DEF Buffer
<1> HIDE DEF new
<1>12. /\ buf' \in [Buf -> Buffer] /\ buf'[b] = new
       /\ \A c \in Buf \ {b} : buf'[c] = buf[c]
  BY <1>8, <1>9, <1>11, Zenon
<1>13. /\ buf[b].dirty => buf'[b].data = buf[b].data
       /\ ~ buf[b].dirty /\ ok => buf'[b].data = disk[buf[b].blockno]
  BY <1>11, <1>12 DEF d
<1>14. QED
  BY <1>1, <1>2, <1>6, <1>7, <1>11, <1>12, <1>13, ZenonT(60)

(***************************************************************************)
(* ideintr(): the waiting process goes on, and the next request starts.    *)
(***************************************************************************)
LEMMA IdeintrIInv ==
  ASSUME IInv, NEW ok \in BOOLEAN, Ideintr(ok)
  PROVE  IInv'
<1>1. PICK b \in Buf, h \in Proc :
        /\ b = idequeue[1] /\ 1 \in DOMAIN idequeue
        /\ holder[b] = h /\ bp[h] = b /\ pc[h] = "io_sleep" /\ buf[b].blockno \in Block
        /\ \A q \in Proc : bp[q] = b /\ pc[q] \in Holder => q = h
        /\ pc' \in [Proc -> Label] /\ pc'[h] = "io_wait"
        /\ \A q \in Proc \ {h} : pc'[q] = pc[q]
        /\ buf' \in [Buf -> Buffer] /\ \A c \in Buf \ {b} : buf'[c] = buf[c]
        /\ buf'[b].valid = TRUE /\ buf'[b].dirty = FALSE
        /\ buf'[b].blockno = buf[b].blockno /\ buf'[b].refcnt = buf[b].refcnt
        /\ buf[b].dirty =>
             /\ disk' = [disk EXCEPT ![buf[b].blockno] = buf[b].data]
             /\ buf'[b].data = buf[b].data /\ failed' = failed
        /\ ~ buf[b].dirty =>
             /\ disk' = disk
             /\ \/ buf'[b].data = disk[buf[b].blockno] /\ failed' = failed
                \/ failed' = failed \cup {b}
  BY IdeintrFacts, Zenon
<1>2. UNCHANGED <<lru, holder, bp, latest>> /\ idequeue' = Tail(idequeue)
      /\ command' = StartNext(idequeue')
  BY Zenon DEF Ideintr
<1>3. /\ idequeue \in Seq(Buf) /\ idequeue' \in Seq(Buf) /\ Len(idequeue) \in Nat
      /\ DOMAIN idequeue = 1 .. Len(idequeue) /\ DOMAIN idequeue' = 1 .. Len(idequeue) - 1
      /\ \A i \in 1 .. Len(idequeue) - 1 : idequeue'[i] = idequeue[i + 1]
      /\ idequeue' # <<>> => Head(idequeue') = idequeue'[1] /\ 1 \in DOMAIN idequeue'
  BY <1>1, <1>2 DEF IInv, TypeInv
<1>4. ASSUME NEW i \in DOMAIN idequeue'
      PROVE  /\ idequeue'[i] \in Buf \ {b} /\ i + 1 \in DOMAIN idequeue
             /\ idequeue'[i] = idequeue[i + 1]
  <2>1. i + 1 \in DOMAIN idequeue /\ idequeue'[i] = idequeue[i + 1] /\ i + 1 # 1
    BY <1>3
  <2>2. idequeue[i + 1] \in Buf
    BY <1>3, <2>1, SMTT(60)
  <2>3. idequeue[i + 1] # idequeue[1]
    BY <1>1, <2>1, Zenon DEF IInv, QueueInv
  <2>4. QED
    BY <1>1, <2>1, <2>2, <2>3, Zenon
<1>5. command' = StartNext(idequeue)' /\ command' \in Command
  <2>1. CASE idequeue' = <<>>
    BY <1>2, <2>1, Zenon DEF StartNext, Command
  <2>2. CASE idequeue' # <<>>
    <3>1. PICK c \in Buf \ {b} : c = Head(idequeue') /\ buf[c].blockno \in Block
      BY <1>3, <1>4, <2>2, QueuedFacts
    <3>2. command' = Idestart(c) /\ Idestart(c) \in Command
      BY <1>2, <2>2, <3>1, IdestartType, Zenon DEF StartNext
    <3>3. StartNext(idequeue)' = Idestart(c)
      BY <1>1, <2>2, <3>1, Zenon DEF StartNext, Idestart
    <3>4. QED
      BY <3>2, <3>3, Zenon
  <2>3. QED
    BY <2>1, <2>2, Zenon
<1>6. TypeInv'
  <2>1. disk' \in [Block -> Value]
    BY <1>1, Zenon DEF IInv, TypeInv, Buffer
  <2>2. failed' \subseteq Buf
    BY <1>1, Zenon DEF IInv, TypeInv
  <2>3. QED
    BY <1>1, <1>2, <1>3, <1>5, <2>1, <2>2 DEF IInv, TypeInv

<1>7. /\ \A c \in Buf : buf'[c].blockno = buf[c].blockno /\ buf'[c].refcnt = buf[c].refcnt
      /\ \A c \in Buf \ {b} : /\ buf'[c].valid = buf[c].valid /\ buf'[c].dirty = buf[c].dirty
                              /\ buf'[c].data = buf[c].data
  BY <1>1
<1>8. RefInv'
  <2>1. \A c : Users(c)' = Users(c)
    BY <1>2, Zenon DEF Users
  <2>2. \A q \in Proc : bp[q] = NoBuf <=> pc'[q] \in Away
    BY <1>1 DEF IInv, RefInv
  <2>3. QED
    BY <1>2, <1>7, <2>1, <2>2 DEF IInv, RefInv
<1>9. \A c \in Buf : holder[c] \in Proc \cup {NoProc}
  BY Zenon DEF IInv, TypeInv
<1>10. LockInv'
  <2>1. pc[h] \in Holder /\ pc'[h] \in Holder /\ pc'[h] # "lock_sleep"
    BY <1>1, Zenon DEF Holder
  <2>2. QED
    BY <1>1, <1>2, <1>9, <2>1, SMTT(60) DEF IInv, LockInv
<1>11. QueueInv'
  <2>1. \A i, j \in DOMAIN idequeue' : idequeue'[i] = idequeue'[j] => i = j
    <3>1. TAKE i, j \in DOMAIN idequeue'
    <3>2. idequeue'[i] = idequeue'[j] => i + 1 = j + 1
      BY <1>4 DEF IInv, QueueInv
    <3>3. QED
      BY <1>3, <3>2
  <2>2. ASSUME NEW i \in DOMAIN idequeue'
        PROVE  holder'[idequeue'[i]] # NoProc /\ pc'[holder'[idequeue'[i]]] = "io_sleep"
    <3>1. PICK g \in Proc : /\ holder[idequeue'[i]] = g /\ bp[g] = idequeue'[i]
                            /\ pc[g] = "io_sleep"
      BY <1>4, QueuedFacts, SMTT(60)
    <3>2. g # h /\ g # NoProc
      BY <1>1, <1>4, <3>1, BioAssumption
    <3>3. QED
      BY <1>1, <1>2, <3>1, <3>2, SMTT(60)
  <2>3. ASSUME NEW q \in Proc, pc'[q] = "io_sleep"
        PROVE  \E i \in DOMAIN idequeue' : idequeue'[i] = bp'[q]
    <3>1. q # h /\ pc[q] = "io_sleep" /\ pc[q] \in Holder
      BY <1>1, <2>3, Zenon DEF Holder
    <3>2. PICK i \in DOMAIN idequeue : idequeue[i] = bp[q]
      BY <3>1, SMTT(60) DEF IInv, QueueInv
    <3>3. i # 1
      BY <1>1, <3>1, <3>2
    <3>4. i - 1 \in DOMAIN idequeue' /\ idequeue'[i - 1] = idequeue[i]
      BY <1>3, <3>3
    <3>5. QED
      BY <1>2, <3>2, <3>4, Zenon
  <2>4. QED
    BY <1>5, <2>1, <2>2, <2>3, Zenon DEF QueueInv
<1>12. FlagInv'
  <2>1. Pinned' \subseteq Pinned
    <3>1. ASSUME NEW c \in Pinned' PROVE c \in Pinned
      <4>1. c \in Buf \ {b} /\ buf[c].dirty
        BY <1>1, <1>7, <3>1 DEF Pinned
      <4>2. \A q \in Proc : bp[q] = c => pc'[q] = pc[q]
        BY <1>1, <4>1
      <4>3. QED
        BY <1>2, <3>1, <4>1, <4>2, Zenon DEF Pinned
    <3>2. QED
      BY <3>1, Zenon
  <2>2. Cardinality(Pinned') <= MaxPin
    BY <2>1, PinnedFewer, Zenon
  <2>3. \A q \in Proc \ {h} : pc[q] \in Holder => bp[q] \in Buf \ {b}
    BY <1>1, UserFacts, SMTT(60) DEF Holder
  <2>4. \A q \in Proc :
          /\ pc'[q] = "use" => buf'[bp[q]].valid
          /\ pc'[q] \in {"iderw", "io_sleep"} => ~ (buf'[bp[q]].valid /\ ~ buf'[bp[q]].dirty)
          /\ pc'[q] = "io_wait" => buf'[bp[q]].valid /\ ~ buf'[bp[q]].dirty
    BY <1>1, <1>7, <2>3, SMTT(60) DEF IInv, FlagInv, Done, Holder
  <2>5. \A c \in Buf : /\ buf'[c].dirty => buf'[c].valid
                       /\ buf'[c].valid => buf'[c].blockno \in Block
    BY <1>1, <1>7 DEF IInv, FlagInv
  <2>6. QED
    BY <1>2, <2>2, <2>4, <2>5, Zenon DEF FlagInv, Done
<1>13. DataInv'
  <2> DEFINE k == buf[b].blockno
  <2>1. /\ disk'[k] = latest[k]
        /\ \A j \in Block \ {k} : disk'[j] = disk[j]
        /\ b \notin failed' => buf'[b].data = latest[k]
    <3>1. CASE buf[b].dirty
      <4>1. buf[b].data = latest[k]
        BY <3>1, Zenon DEF IInv, DataInv, FlagInv
      <4>2. QED
        BY <1>1, <3>1, <4>1 DEF IInv, TypeInv
    <3>2. CASE ~ buf[b].dirty
      <4>1. disk[k] = latest[k]
        BY <1>1, <3>2 DEF IInv, DataInv, Cached, RefInv
      <4>2. QED
        BY <1>1, <3>2, <4>1, Zenon
    <3>3. QED
      BY <3>1, <3>2, Zenon
  <2>2. \A c \in Buf \ {b} : c \in failed' <=> c \in failed
    BY <1>1, Zenon
  <2>3. \A c \in Buf : buf'[c].valid /\ c \notin failed' => buf'[c].data = latest[buf'[c].blockno]
    BY <1>7, <2>1, <2>2, SMTT(60) DEF IInv, DataInv
  <2>4. \A c \in Buf : buf'[c].dirty => c \notin failed'
    BY <1>1, <1>7, <2>2, Zenon DEF IInv, DataInv
  <2>5. ASSUME NEW j \in Block
        PROVE  disk'[j] = latest[j] \/ \E c \in Cached(j)' : buf'[c].dirty
    <3>1. CASE j = k
      BY <2>1, <3>1
    <3>2. CASE j # k /\ disk[j] # latest[j]
      <4>1. PICK c \in Buf : buf[c].blockno = j /\ buf[c].dirty
        BY <3>2, Zenon DEF IInv, DataInv, Cached
      <4>2. c # b
        BY <3>2, <4>1, Zenon
      <4>3. QED
        BY <1>7, <4>1, <4>2, Zenon DEF Cached
    <3>3. QED
      BY <2>1, <2>5, <3>1, <3>2, Zenon
  <2>6. QED
    BY <1>2, <2>3, <2>4, <2>5, Zenon DEF DataInv
<1>14. QED
  BY <1>6, <1>8, <1>10, <1>11, <1>12, <1>13, Zenon DEF IInv

(***************************************************************************)
(* Every step preserves the invariant.                                     *)
(***************************************************************************)
LEMMA NextIInv == IInv /\ [Next]_vars => IInv'
<1>1. ASSUME IInv, Next PROVE IInv'
  BY <1>1, BgetIInv, BwriteIInv, LogWriteIInv, AcquireSleepIInv, ReleaseSleepIInv,
     UnrefIInv, IderwIInv, IoWaitIInv, IdeintrIInv, Zenon DEF Next
<1>2. ASSUME IInv, UNCHANGED vars PROVE IInv'
  <2>1. UNCHANGED <<buf, lru, holder, idequeue, command, disk, pc, bp, latest, failed>>
    BY <1>2, Zenon DEF vars, cache, device, history
  <2>2. TypeInv' /\ LockInv' /\ DataInv'
    BY <1>2, <2>1, Zenon DEF IInv, TypeInv, LockInv, DataInv, Cached
  <2>3. RefInv'
    BY <1>2, <2>1, RefSame, Zenon
  <2>4. QueueInv'
    BY <1>2, <2>1, CommandSame, SMTT(60) DEF IInv, QueueInv
  <2>5. FlagInv'
    <3>1. Pinned' = Pinned
      BY <2>1, Zenon DEF Pinned
    <3>2. QED
      BY <1>2, <2>1, <3>1, Zenon DEF IInv, FlagInv, Done
  <2>6. QED
    BY <2>2, <2>3, <2>4, <2>5, Zenon DEF IInv
<1>3. QED
  BY <1>1, <1>2

--------------------------------------------------------------------------------
(***************************************************************************)
(* The inductive invariant: what the references, the sleep locks, the      *)
(* queue of the disk driver, the flags and the contents of the buffers say *)
(* of each other at every step of bread(), bwrite(), brelse() and          *)
(* ideintr().                                                              *)
(***************************************************************************)
THEOREM Invariance == Spec => []IInv
<1>1. Init => IInv
  BY InitIInv, Zenon
<1>2. IInv /\ [Next]_vars => IInv'
  BY NextIInv, Zenon
<1>3. QED
  BY <1>1, <1>2, PTL DEF Spec

(***************************************************************************)
(* bread() returns what was last put in a buffer of the block, also after  *)
(* the buffer was recycled, unless the disk failed to read it.             *)
(***************************************************************************)
THEOREM AlwaysReadsLatest == Spec => []ReadsLatest
<1>1. IInv => ReadsLatest
  <2>1. SUFFICES ASSUME IInv, NEW p \in Proc, pc[p] = "use", bp[p] \notin failed
                 PROVE  buf[bp[p]].data = latest[buf[bp[p]].blockno]
    BY Zenon DEF ReadsLatest
  <2>2. bp[p] \in Buf
    BY <2>1, UserFacts, Zenon
  <2>3. QED
    BY <2>1, <2>2, Zenon DEF IInv, FlagInv, DataInv
<1>2. QED
  BY <1>1, Invariance, PTL

(***************************************************************************)
(* The panics of bwrite(), brelse() and iderw() are unreachable, and the   *)
(* one of bget() (bio.c:92) is reached only with every buffer in use or    *)
(* pinned, for any number of processes and of buffers they use.            *)
(***************************************************************************)
THEOREM NeverPanics == Spec => []NoPanic
<1>1. IInv => NoPanic
  <2> SUFFICES ASSUME IInv PROVE NoPanic
    BY Zenon
  <2>1. \A p \in Proc : pc[p] # "panic"
    BY DEF IInv, TypeInv, Label, Holder
  <2>2. QED
    BY <2>1, NoBufferLeaks, Zenon DEF NoPanic
<1>2. QED
  BY <1>1, Invariance, PTL

(***************************************************************************)
(* A process that sleeps for a buffer's lock or for the disk has a holder, *)
(* or a request in the queue the disk works on, that will wake it.         *)
(***************************************************************************)
THEOREM SleepAlwaysJustified == Spec => []SleepJustified
<1>1. IInv => SleepJustified
  <2>1. SUFFICES ASSUME IInv PROVE SleepJustified
    BY Zenon
  <2>2. idequeue # <<>> => 1 \in DOMAIN idequeue /\ Head(idequeue) = idequeue[1]
    BY <2>1, SMTT(60) DEF IInv, TypeInv
  <2>3. idequeue # <<>> => /\ command.cmd # "idle"
                           /\ command.blockno = buf[Head(idequeue)].blockno
    BY <2>1, Zenon DEF IInv, QueueInv, StartNext, Idestart
  <2>4. idequeue = <<>> => command.cmd = "idle"
    BY <2>1, ZenonT(60) DEF IInv, QueueInv, StartNext
  <2>5. \A p \in Proc : /\ pc[p] = "lock_sleep" => holder[bp[p]] # NoProc
                        /\ pc[p] = "io_sleep" => bp[p] \in Range(idequeue)
    BY <2>1 DEF IInv, LockInv, QueueInv, Range
  <2>6. QED
    BY <2>3, <2>4, <2>5, Zenon DEF SleepJustified
<1>2. QED
  BY <1>1, Invariance, PTL
================================================================================
