----------------------------------- MODULE Log -----------------------------------
(***************************************************************************)
(* The log: log.c, with the buffer cache of bio.c as far as the log relies *)
(* on it.                                                                  *)
(*                                                                         *)
(* Volatile state (the buffer cache, struct log, the processes) is lost in *)
(* a crash; the disk is not: home locations, log blocks and the header     *)
(* block, each written atomically.  A critical section of log.lock is one  *)
(* step, as is one disk block written with its buffer locked.  Sleeping on *)
(* &log is a program location that wakeup(&log) moves every sleeper from.  *)
(*                                                                         *)
(* The operators named Bug... are plausible mistakes in the definition     *)
(* that follows them; no specification uses them.                          *)
(***************************************************************************)
EXTENDS Naturals, Sequences, FiniteSets, Functions

CONSTANTS
  Proc,          \* the processes
  Block,         \* the file system's blocks (home locations)
  Value,         \* their contents
  NoValue,       \* not in the buffer cache
  NoBlock,       \* no buffer is being written
  MAXOPBLOCKS,   \* param.h: blocks an operation may write
  LOGSIZE,       \* param.h: blocks in a transaction
  NLOG,          \* sb.nlog: blocks of the on-disk log, header included
  OpBlocks       \* blocks an operation of sysfile.c does write

ASSUME LogAssumption ==
  /\ NoValue \notin Value
  /\ NoBlock \notin Block
  /\ {MAXOPBLOCKS, LOGSIZE, NLOG, OpBlocks} \subseteq Nat
  /\ OpBlocks < MAXOPBLOCKS /\ MAXOPBLOCKS < LOGSIZE /\ LOGSIZE <= NLOG

VARIABLES
  home,          \* the disk: home locations
  logblk,        \* the disk: data blocks of the log
  head,          \* the disk: block numbers in the header block, n = Len(head)
  cache,         \* cache[b]: contents of the buffer of b, or NoValue
  dirty,         \* the blocks whose buffer has B_DIRTY
  lh,            \* log.lh: block numbers, n = Len(lh)
  outstanding,   \* log.outstanding
  committing,    \* log.committing
  pc,            \* where each process is
  buf,           \* buf[p]: the block whose buffer p has locked
  wrote,         \* wrote[p]: the blocks p's operation has logged (history)
  tail,          \* the loop variable of write_log and install_trans
  boot           \* "up", or the step of recover_from_log: "read_head", "install", "erase"

disk == <<home, logblk, head>>
log == <<lh, outstanding, committing>>
procs == <<pc, buf, wrote>>
vars == <<disk, cache, dirty, log, procs, tail, boot>>

(* mkfs made the file system and the kernel boots. *)
Init ==
  /\ home \in [Block -> Value]
  /\ logblk \in {[i \in 1 .. LOGSIZE |-> v] : v \in Value}
  /\ head = <<>>
  /\ cache = [b \in Block |-> NoValue]
  /\ dirty = {}
  /\ lh = <<>>
  /\ outstanding = 0
  /\ committing = FALSE
  /\ pc = [p \in Proc |-> "idle"]
  /\ buf = [p \in Proc |-> NoBlock]
  /\ wrote = [p \in Proc |-> {}]
  /\ tail = 1
  /\ boot = "read_head"

--------------------------------------------------------------------------------
Goto(p, there) == pc' = [pc EXCEPT ![p] = there]

(* wakeup(&log), and p goes to "there". *)
WakeupAndGoto(p, there) ==
  pc' = [q \in Proc |-> IF q = p THEN there
                        ELSE IF pc[q] = "sleep" THEN "begin" ELSE pc[q]]

BugRoomForOneLess == Len(lh) + outstanding * MAXOPBLOCKS > LOGSIZE

(* begin_op(): no room for one more operation of MAXOPBLOCKS blocks. *)
NoRoom == Len(lh) + (outstanding + 1) * MAXOPBLOCKS > LOGSIZE

BeginOp(p) ==
  /\ boot = "up"
  /\ pc[p] \in {"idle", "begin"}
  /\ IF committing \/ NoRoom
     THEN Goto(p, "sleep") /\ UNCHANGED outstanding
     ELSE Goto(p, "op") /\ outstanding' = outstanding + 1
  /\ UNCHANGED <<disk, cache, dirty, lh, committing, buf, wrote, tail, boot>>

(* bread(b): what a locked buffer of b contains, from the disk if need be. *)
Bread(b) == IF cache[b] = NoValue THEN home[b] ELSE cache[b]
Unlocked(b) == \A p \in Proc : buf[p] # b

(***************************************************************************)
(* An operation reads a block, changes its buffer and calls log_write(),   *)
(* whose two panics read struct log without the lock.                      *)
(***************************************************************************)
TooBig == Len(lh) >= LOGSIZE \/ Len(lh) >= NLOG - 1

OpWrite(p, b, v) ==
  /\ pc[p] = "op"
  /\ Unlocked(b)
  /\ Cardinality(wrote[p] \cup {b}) <= OpBlocks
  /\ cache' = [cache EXCEPT ![b] = v]
  /\ buf' = [buf EXCEPT ![p] = b]
  /\ Goto(p, IF TooBig \/ outstanding < 1 THEN "panic" ELSE "append")
  /\ UNCHANGED <<disk, dirty, log, wrote, tail, boot>>

(* The rest of log_write(), with absorption, and brelse(). *)
LogWrite(p) ==
  /\ pc[p] = "append"
  /\ lh' = IF buf[p] \in Range(lh) THEN lh ELSE Append(lh, buf[p])
  /\ dirty' = dirty \cup {buf[p]}
  /\ wrote' = [wrote EXCEPT ![p] = @ \cup {buf[p]}]
  /\ buf' = [buf EXCEPT ![p] = NoBlock]
  /\ Goto(p, "op")
  /\ UNCHANGED <<disk, cache, outstanding, committing, tail, boot>>

BugEndNoWakeup(p) ==
  /\ pc[p] = "op"
  /\ outstanding' = outstanding - 1
  /\ wrote' = [wrote EXCEPT ![p] = {}]
  /\ committing' = (outstanding = 1)
  /\ Goto(p, IF outstanding = 1 THEN "commit" ELSE "idle")
  /\ UNCHANGED <<disk, cache, dirty, lh, buf, tail, boot>>

(* end_op(), up to the commit. *)
EndOp(p) ==
  /\ pc[p] = "op"
  /\ outstanding' = outstanding - 1
  /\ wrote' = [wrote EXCEPT ![p] = {}]
  /\ committing' = (committing \/ outstanding = 1)
  /\ IF committing THEN Goto(p, "panic")
     ELSE IF outstanding = 1 THEN Goto(p, "commit")
     ELSE WakeupAndGoto(p, "idle")
  /\ UNCHANGED <<disk, cache, dirty, lh, buf, tail, boot>>

--------------------------------------------------------------------------------
BugHeadFirst(p) ==
  /\ pc[p] = "commit"
  /\ tail' = 1
  /\ Goto(p, IF lh = <<>> THEN "finish" ELSE "write_head")
  /\ UNCHANGED <<disk, cache, dirty, log, buf, wrote, boot>>

(* commit(), by the process whose end_op() was the last. *)
Commit(p) ==
  /\ pc[p] = "commit"
  /\ tail' = 1
  /\ Goto(p, IF lh = <<>> THEN "finish" ELSE "write_log")
  /\ UNCHANGED <<disk, cache, dirty, log, buf, wrote, boot>>

WriteLog(p) ==
  /\ pc[p] = "write_log"
  /\ logblk' = [logblk EXCEPT ![tail] = Bread(lh[tail])]
  /\ tail' = IF tail = Len(lh) THEN 1 ELSE tail + 1
  /\ Goto(p, IF tail = Len(lh) THEN "write_head" ELSE "write_log")
  /\ UNCHANGED <<home, head, cache, dirty, log, buf, wrote, boot>>

BugNoHeader(p) ==
  /\ pc[p] = "write_head"
  /\ Goto(p, "install")
  /\ UNCHANGED <<disk, cache, dirty, log, buf, wrote, tail, boot>>

(* write_head(): the commit point. *)
WriteHead(p) ==
  /\ pc[p] = "write_head"
  /\ head' = lh
  /\ Goto(p, "install")
  /\ UNCHANGED <<home, logblk, cache, dirty, log, buf, wrote, tail, boot>>

BugStaysDirty ==
  /\ home' = [home EXCEPT ![lh[tail]] = logblk[tail]]
  /\ cache' = [cache EXCEPT ![lh[tail]] = logblk[tail]]
  /\ tail' = IF tail = Len(lh) THEN 1 ELSE tail + 1
  /\ UNCHANGED dirty

(* One round of install_trans(): bwrite() clears B_DIRTY when it is done. *)
InstallBlock ==
  /\ home' = [home EXCEPT ![lh[tail]] = logblk[tail]]
  /\ cache' = [cache EXCEPT ![lh[tail]] = logblk[tail]]
  /\ dirty' = dirty \ {lh[tail]}
  /\ tail' = IF tail = Len(lh) THEN 1 ELSE tail + 1

Install(p) ==
  /\ pc[p] = "install"
  /\ InstallBlock
  /\ Goto(p, IF tail = Len(lh) THEN "erase" ELSE "install")
  /\ UNCHANGED <<logblk, head, log, buf, wrote, boot>>

(* log.lh.n = 0 and write_head(). *)
Erase(p) ==
  /\ pc[p] = "erase"
  /\ lh' = <<>>
  /\ head' = <<>>
  /\ Goto(p, "finish")
  /\ UNCHANGED <<home, logblk, cache, dirty, outstanding, committing, buf, wrote,
                 tail, boot>>

BugFinishNoWakeup(p) ==
  /\ pc[p] = "finish"
  /\ committing' = FALSE
  /\ Goto(p, "idle")
  /\ UNCHANGED <<disk, cache, dirty, lh, outstanding, buf, wrote, tail, boot>>

(* The end of end_op(). *)
Finish(p) ==
  /\ pc[p] = "finish"
  /\ committing' = FALSE
  /\ WakeupAndGoto(p, "idle")
  /\ UNCHANGED <<disk, cache, dirty, lh, outstanding, buf, wrote, tail, boot>>

--------------------------------------------------------------------------------
(* A reader brings a block into the cache; bget() recycles a buffer that   *)
(* nobody has locked and that is not B_DIRTY.                              *)
Fetch(b) ==
  /\ boot = "up"
  /\ cache[b] = NoValue
  /\ cache' = [cache EXCEPT ![b] = Bread(b)]
  /\ UNCHANGED <<disk, dirty, log, procs, tail, boot>>

Evict(b) ==
  /\ cache[b] # NoValue
  /\ Unlocked(b) /\ b \notin dirty
  /\ cache' = [cache EXCEPT ![b] = NoValue]
  /\ UNCHANGED <<disk, dirty, log, procs, tail, boot>>

(* Power fails: everything but the disk is lost. *)
Crash ==
  /\ cache' = [b \in Block |-> NoValue]
  /\ dirty' = {}
  /\ lh' = <<>>
  /\ outstanding' = 0
  /\ committing' = FALSE
  /\ pc' = [p \in Proc |-> "idle"]
  /\ buf' = [p \in Proc |-> NoBlock]
  /\ wrote' = [p \in Proc |-> {}]
  /\ tail' = 1
  /\ boot' = "read_head"
  /\ UNCHANGED disk

(* recover_from_log(), in the first process, before any operation. *)
ReadHead ==
  /\ boot = "read_head"
  /\ lh' = head
  /\ boot' = IF head = <<>> THEN "erase" ELSE "install"
  /\ UNCHANGED <<disk, cache, dirty, outstanding, committing, procs, tail>>

RecoverInstall ==
  /\ boot = "install"
  /\ InstallBlock
  /\ boot' = IF tail = Len(lh) THEN "erase" ELSE "install"
  /\ UNCHANGED <<logblk, head, log, procs>>

RecoverErase ==
  /\ boot = "erase"
  /\ lh' = <<>>
  /\ head' = <<>>
  /\ boot' = "up"
  /\ UNCHANGED <<home, logblk, cache, dirty, outstanding, committing, procs, tail>>

Recover == ReadHead \/ RecoverInstall \/ RecoverErase

--------------------------------------------------------------------------------
(* What a process does without being asked: all but beginning and writing. *)
Continue(p) ==
  \/ pc[p] = "begin" /\ BeginOp(p)
  \/ LogWrite(p)
  \/ Commit(p) \/ WriteLog(p) \/ WriteHead(p) \/ Install(p) \/ Erase(p) \/ Finish(p)

Next ==
  \/ \E p \in Proc :
       \/ BeginOp(p)
       \/ \E b \in Block, v \in Value : OpWrite(p, b, v)
       \/ LogWrite(p) \/ EndOp(p)
       \/ Commit(p) \/ WriteLog(p) \/ WriteHead(p) \/ Install(p) \/ Erase(p)
       \/ Finish(p)
  \/ \E b \in Block : Fetch(b) \/ Evict(b)
  \/ Crash
  \/ Recover

Spec == Init /\ [][Next]_vars

(***************************************************************************)
(* An operation makes finitely many calls of log_write(), so it ends       *)
(* (strongly fair: it is not at end_op() while it writes); the committer   *)
(* and recovery wait for nobody.                                           *)
(***************************************************************************)
Fairness ==
  /\ \A p \in Proc : WF_vars(Continue(p)) /\ SF_vars(EndOp(p))
  /\ WF_vars(Recover)

FairSpec == Spec /\ Fairness

--------------------------------------------------------------------------------
(* What the disk would hold after a crash and recovery now. *)
Durable ==
  [b \in Block |-> IF b \in Range(head)
                   THEN logblk[CHOOSE i \in 1 .. Len(head) : head[i] = b]
                   ELSE home[b]]

(* What operations read: the buffers over the disk; in recovery, its outcome. *)
View == IF boot = "up" THEN [b \in Block |-> Bread(b)] ELSE Durable

(* The processes between begin_op() and end_op(). *)
Active == {p \in Proc : pc[p] \in {"op", "append"}}

Abs == INSTANCE AbsLog WITH mem <- View, disk <- Durable, active <- Active

(***************************************************************************)
(* Whatever the interleaving of operations, commits, evictions, crashes    *)
(* and crashes during recovery, what survives is the effect of a set of    *)
(* whole operations, and a reader never sees a block go back to an older   *)
(* content without a crash: log.c implements AbsLog.                       *)
(***************************************************************************)
ImplementsAtomicDisk == Abs!Spec

(***************************************************************************)
(* No panic of log_write() or end_op() is reached, and a transaction fits  *)
(* the blocks that follow the header on disk: begin_op()'s reservation     *)
(* suffices for the unlocked size check too.                               *)
(***************************************************************************)
LogFits ==
  /\ \A p \in Proc : pc[p] # "panic"
  /\ Len(lh) < NLOG

(***************************************************************************)
(* Who sleeps in begin_op() has a reason to, and somebody is left to wake  *)
(* it: an operation or a commit is in progress.                            *)
(***************************************************************************)
SleepJustified ==
  \A p \in Proc : pc[p] = "sleep" =>
    /\ committing \/ NoRoom
    /\ committing \/ outstanding > 0

(***************************************************************************)
(* B_DIRTY pins only buffers of the running transaction, so a finished one *)
(* leaves no buffer that bget() can never recycle.                         *)
(***************************************************************************)
NoPinLeak == dirty \subseteq Range(lh)

(***************************************************************************)
(* Write-ahead: a home location changes only to the content the committed  *)
(* header and log on disk already hold for it.                             *)
(***************************************************************************)
WriteAhead ==
  [][\A b \in Block : home'[b] # home[b] =>
       \E i \in 1 .. Len(head) : head[i] = b /\ logblk[i] = home'[b]]_vars

(* No sleeper in begin_op() is forgotten: it gets to look again. *)
WokenUp == \A p \in Proc : pc[p] = "sleep" ~> pc[p] # "sleep"
================================================================================
