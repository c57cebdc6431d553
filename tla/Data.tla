---------------------------------- MODULE Data ----------------------------------
(***************************************************************************)
(* The blocks of files: balloc(), bmap(), readi(), writei() and itrunc()   *)
(* of fs.c, fileread() and filewrite() of file.c, on a disk that mkfs.c    *)
(* has laid out.                                                           *)
(*                                                                         *)
(* A unit is the size of a uint, and a block of BSIZE units holds that     *)
(* many addresses or units of data.  An operator takes the disk and the    *)
(* inodes as a record s, and yields them changed.  What a process does     *)
(* with an inode locked, in one transaction, is one step.  The disk has    *)
(* room for every file: balloc() panics otherwise.                         *)
(*                                                                         *)
(* The operators named Bug... are plausible mistakes in the definition     *)
(* that follows them; no specification uses them.                          *)
(***************************************************************************)
EXTENDS Naturals, FiniteSetsExt, SequencesExt

CONSTANTS
  Proc,
  BSIZE, NDIRECT, BPB,           \* units in a block, bits in a bitmap block
  FSSIZE, nlog, NINODES, IPB,
  MAXOPBLOCKS, UINT,
  RootLen,                       \* units of entries that mkfs puts in the root
  Value,                         \* Value[i]: what is written to inode i (bound)
  Sizes                          \* how much, per call (bound)

NINDIRECT == BSIZE
MAXFILE == NDIRECT + NINDIRECT
Inum == 1 .. NINODES - 1
ROOTINO == 1
Block == 0 .. FSSIZE - 1

(* mkfs.c: the layout of the disk. *)
inodestart == 2 + nlog
ninodeblocks == (NINODES \div IPB) + 1
bmapstart == inodestart + ninodeblocks
nbitmap == (FSSIZE \div BPB) + 1
nmeta == 2 + nlog + ninodeblocks + nbitmap

IBLOCK(i) == (i \div IPB) + inodestart
BBLOCK(b) == (b \div BPB) + bmapstart

ASSUME DataAssumption ==
  /\ {BSIZE, NDIRECT, BPB, FSSIZE, nlog, NINODES, IPB, MAXOPBLOCKS, UINT, RootLen} \subseteq Nat
  /\ BSIZE > 0 /\ IPB > 0 /\ BPB > 0 /\ NINODES > 1 /\ MAXOPBLOCKS >= 6
  /\ Value \in [Inum -> SUBSET (Nat \ {0})]
  /\ nmeta + (NINODES - 1) * (MAXFILE + 1) <= FSSIZE
  /\ 2 * MAXFILE * BSIZE < UINT
  /\ RootLen % BSIZE # 0                 \* see README: mkfs would leave a hole

VARIABLES
  s,          \* the disk and the inodes: used, blk, addrs, size; log is
              \* what the transaction under way has written
  file,       \* file[i]: an open file's f->off, or Closed
  job,        \* filewrite(): the loop of each process
  bytes       \* history: what each file should hold

vars == <<s, file, job, bytes>>

Closed == UINT
NoJob == [i |-> 0, n |-> 0, v |-> 0]
Zero == [k \in 0 .. BSIZE - 1 |-> 0]

Junk == [k \in 0 .. BSIZE - 1 |-> FSSIZE]

Least(m, n) == IF m < n THEN m ELSE n
Numbers(m, n) == [k \in 1 .. n + 1 - m |-> m + k - 1]      \* m .. n, as a sequence

--------------------------------------------------------------------------------
(* balloc(): the first free block, marked and zeroed. *)
Free(t) == Min(Block \ t.used)
Balloc(t) == [t EXCEPT !.used = @ \cup {Free(t)}, !.blk[Free(t)] = Zero,
                       !.log = @ \cup {BBLOCK(Free(t)), Free(t)}]

(* bfree(), of a set of blocks.  They keep their data, here Junk. *)
Bfree(t, bs) == [t EXCEPT !.used = @ \ bs, !.log = @ \cup {BBLOCK(b) : b \in bs},
                          !.blk = [b \in Block |-> IF b \in bs THEN Junk ELSE @[b]]]

(* bmap(): allocates what is missing of the way to block bn; Addr follows it. *)
WithDirect(t, i, k) == IF t.addrs[i][k] # 0 THEN t ELSE [Balloc(t) EXCEPT !.addrs[i][k] = Free(t)]

Bmap(t, i, bn) ==
  IF bn < NDIRECT THEN WithDirect(t, i, bn)
  ELSE LET u == WithDirect(t, i, NDIRECT)
           ind == u.addrs[i][NDIRECT]
       IN IF u.blk[ind][bn - NDIRECT] # 0 THEN u
          ELSE [Balloc(u) EXCEPT !.blk[ind][bn - NDIRECT] = Free(u), !.log = @ \cup {ind}]

Addr(t, i, bn) ==
  IF bn < NDIRECT THEN t.addrs[i][bn] ELSE t.blk[t.addrs[i][NDIRECT]][bn - NDIRECT]

Failed == <<UINT>>            \* -1

BugReadi(t, i, off, n) ==
  IF off > t.size[i] THEN Failed
  ELSE LET end == Least((off + n) % UINT, t.size[i])
       IN [k \in 1 .. end - off |->
             LET o == off + k - 1 IN t.blk[Addr(t, i, o \div BSIZE)][o % BSIZE]]

(* readi(): the units it copies. *)
Readi(t, i, off, n) ==
  IF off > t.size[i] \/ (off + n) % UINT < off THEN Failed
  ELSE LET end == Least((off + n) % UINT, t.size[i])
       IN [k \in 1 .. end - off |->
             LET o == off + k - 1 IN t.blk[Addr(t, i, o \div BSIZE)][o % BSIZE]]

(* writei(): one block after the other, then the size. *)
CanWrite(t, i, off, n) ==
  ~ (off > t.size[i] \/ (off + n) % UINT < off \/ (off + n) % UINT > MAXFILE * BSIZE)

Copy(t, b, bn, off, n, v) ==
  [t EXCEPT !.blk[b] = [k \in DOMAIN @ |-> IF off <= bn * BSIZE + k /\ bn * BSIZE + k < off + n
                                           THEN v ELSE @[k]],
            !.log = @ \cup {b}]

Writei(t, i, off, n, v) ==
  LET one(u, bn) == LET w == Bmap(u, i, bn) IN Copy(w, Addr(w, i, bn), bn, off, n, v)
      u == FoldLeft(one, t, Numbers(off \div BSIZE, (off + n - 1) \div BSIZE))
  IN IF off + n > t.size[i] THEN [u EXCEPT !.size[i] = off + n, !.log = @ \cup {IBLOCK(i)}] ELSE u

(* itrunc(). *)
Direct(t, i) == {t.addrs[i][k] : k \in 0 .. NDIRECT - 1} \ {0}
Indirect(t, i) == {t.addrs[i][NDIRECT]} \ {0}
Listed(t, i) == UNION {{t.blk[b][k] : k \in 0 .. NINDIRECT - 1} : b \in Indirect(t, i)} \ {0}

BugItrunc(t, i) ==
  [Bfree(t, Direct(t, i) \cup Indirect(t, i))
     EXCEPT !.addrs[i] = [k \in 0 .. NDIRECT |-> 0], !.size[i] = 0, !.log = @ \cup {IBLOCK(i)}]

Itrunc(t, i) ==
  [Bfree(t, Direct(t, i) \cup Indirect(t, i) \cup Listed(t, i))
     EXCEPT !.addrs[i] = [k \in 0 .. NDIRECT |-> 0], !.size[i] = 0, !.log = @ \cup {IBLOCK(i)}]

--------------------------------------------------------------------------------
(***************************************************************************)
(* mkfs: iappend() of the root's entries takes blocks from freeblock on,   *)
(* and balloc(freeblock) marks all below it; the root's size is rounded    *)
(* up.  The entries are written as one value.                              *)
(***************************************************************************)
Blank == [used |-> 0 .. nmeta - 1, blk |-> [b \in Block |-> Zero],
          addrs |-> [i \in Inum |-> [k \in 0 .. NDIRECT |-> 0]],
          size |-> [i \in Inum |-> 0], log |-> {}]

Mkfs == LET t == Writei(Blank, ROOTINO, 0, RootLen, Min(Value[ROOTINO]))
        IN [t EXCEPT !.size[ROOTINO] = ((@ \div BSIZE) + 1) * BSIZE, !.log = {}]

Init ==
  /\ s = Mkfs
  /\ file = [i \in Inum |-> Closed]
  /\ job = [p \in Proc |-> NoJob]
  /\ bytes = [i \in Inum |-> IF i = ROOTINO
                             THEN [k \in 1 .. Mkfs.size[i] |-> IF k <= RootLen THEN Min(Value[ROOTINO]) ELSE 0]
                             ELSE <<>>]

Commit(t) == s' = [t EXCEPT !.log = {}]

(* What a write leaves in the file. *)
Written(old, off, n, v) ==
  [k \in 1 .. Len(old) \cup off + 1 .. off + n |-> IF off < k /\ k <= off + n THEN v ELSE old[k]]

(* dirlink(): an entry of one unit, in the first free place or at the end. *)
Dirlink(off, v) ==
  /\ CanWrite(s, ROOTINO, off, 1)
  /\ Commit(Writei(s, ROOTINO, off, 1, v))
  /\ bytes' = [bytes EXCEPT ![ROOTINO] = Written(@, off, 1, v)]
  /\ UNCHANGED <<file, job>>

(* sys_open() and the last close. *)
Open(i) ==
  /\ file[i] = Closed /\ i # ROOTINO
  /\ file' = [file EXCEPT ![i] = 0]
  /\ UNCHANGED <<s, job, bytes>>

Close(i) ==
  /\ file[i] # Closed /\ \A p \in Proc : job[p].i # i
  /\ file' = [file EXCEPT ![i] = Closed]
  /\ UNCHANGED <<s, job, bytes>>

(* iput() of an inode without links. *)
Unlinked(i) ==
  /\ file[i] = Closed /\ i # ROOTINO
  /\ Commit(Itrunc(s, i))
  /\ bytes' = [bytes EXCEPT ![i] = <<>>]
  /\ UNCHANGED <<file, job>>

(* fileread(). *)
FileRead(i, n) ==
  LET got == Readi(s, i, file[i], n) IN
  /\ file[i] # Closed
  /\ got # Failed
  /\ file' = [file EXCEPT ![i] = @ + Len(got)]
  /\ UNCHANGED <<s, job, bytes>>

BugMax1 == (MAXOPBLOCKS - 1 - 1) * BSIZE

(* filewrite(): how much one transaction may write. *)
Max1 == ((MAXOPBLOCKS - 1 - 1 - 2) \div 2) * BSIZE

FileWrite(p, i, n, v) ==
  /\ job[p] = NoJob /\ file[i] # Closed
  /\ job' = [job EXCEPT ![p] = [i |-> i, n |-> n, v |-> v]]
  /\ UNCHANGED <<s, file, bytes>>

WriteChunk(p) ==
  LET i == job[p].i
      off == file[i]
      n1 == Least(job[p].n, Max1) IN
  /\ job[p] # NoJob
  /\ IF ~ CanWrite(s, i, off, n1)
     THEN job' = [job EXCEPT ![p] = NoJob] /\ UNCHANGED <<s, file, bytes>>
     ELSE /\ Commit(Writei(s, i, off, n1, job[p].v))
          /\ file' = [file EXCEPT ![i] = off + n1]
          /\ bytes' = [bytes EXCEPT ![i] = Written(@, off, n1, job[p].v)]
          /\ job' = [job EXCEPT ![p] = IF job[p].n = n1 THEN NoJob ELSE [@ EXCEPT !.n = @ - n1]]

Next ==
  \/ \E i \in Inum : Open(i) \/ Close(i) \/ Unlinked(i) \/ \E n \in Sizes : FileRead(i, n)
  \/ \E off \in 0 .. s.size[ROOTINO], v \in Value[ROOTINO] : Dirlink(off, v)
  \/ \E p \in Proc : \/ WriteChunk(p)
                     \/ \E i \in Inum, n \in Sizes : \E v \in Value[i] : FileWrite(p, i, n, v)

Spec == Init /\ [][Next]_vars

--------------------------------------------------------------------------------
Owned(i) == Direct(s, i) \cup Indirect(s, i) \cup Listed(s, i)
Blocks(len) == (len + BSIZE - 1) \div BSIZE

(***************************************************************************)
(* The bitmap marks exactly the blocks before nmeta and those that some    *)
(* inode points to, each from one place only: no block is lost or shared,  *)
(* from the disk mkfs made through any sequence of writes and truncations  *)
(* (balloc, bfree and bmap, fs.c:57-95, 373).  No file has a hole, so that *)
(* readi() outside a transaction never allocates.                          *)
(***************************************************************************)
BlocksOwnedOnce ==
  LET direct(i) == Cardinality({k \in 0 .. NDIRECT : s.addrs[i][k] # 0})
      listed(i) == Cardinality({<<b, k>> \in Indirect(s, i) \X (0 .. NINDIRECT - 1) : s.blk[b][k] # 0})
  IN /\ s.used = (0 .. nmeta - 1) \cup UNION {Owned(i) : i \in Inum}
     /\ Cardinality(s.used) = nmeta + MapThenSumSet(LAMBDA i : direct(i) + listed(i), Inum)
     /\ \A i \in Inum : \A bn \in 0 .. Blocks(s.size[i]) - 1 : Addr(s, i, bn) \in s.used \ (0 .. nmeta - 1)

(***************************************************************************)
(* readi() at any offset and of any length, those that overflow a uint     *)
(* included, returns what was last written there, up to the end of the     *)
(* file and nothing beyond it, however the blocks were allocated (readi,   *)
(* writei, fs.c:453, 482).                                                 *)
(***************************************************************************)
ReadsBack ==
  \A i \in Inum, off \in 0 .. UINT - 1, n \in {0, 1, BSIZE + 1, UINT - 1} :
    Readi(s, i, off, n) =
      IF off > Len(bytes[i]) \/ off + n >= UINT THEN Failed
      ELSE SubSeq(bytes[i], off + 1, Least(off + n, Len(bytes[i])))

(***************************************************************************)
(* "write a few blocks at a time to avoid exceeding the maximum log        *)
(* transaction size" (file.c:127): one turn of filewrite(), wherever it    *)
(* starts in the file, logs fewer than MAXOPBLOCKS blocks, and so does     *)
(* itrunc().  One fewer is what the log needs: LogAssumption of Log.       *)
(***************************************************************************)
TransactionFits ==
  \A i \in Inum :
    /\ \A off \in 0 .. s.size[i], n \in 1 .. Max1 :
         CanWrite(s, i, off, n) => Cardinality(Writei(s, i, off, n, 1).log) < MAXOPBLOCKS
    /\ Cardinality(Itrunc(s, i).log) < MAXOPBLOCKS
================================================================================
