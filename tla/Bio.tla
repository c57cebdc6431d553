----------------------------------- MODULE Bio -----------------------------------
(***************************************************************************)
(* The buffer cache over the disk: bio.c, sleeplock.c, ide.c.              *)
(*                                                                         *)
(* A process reads a block, may change the buffer and write it to disk     *)
(* (bwrite) or pin it for the log (log_write), and releases it.  A         *)
(* critical section of bcache.lock, lk->lk or idelock is one step.         *)
(* Sleeping is a program location; wakeup() moves every sleeper from it.   *)
(* A process has one buffer at a time here.  Where the code has two        *)
(* (bmap(), itrunc(), write_log(), install_trans()) it is two processes,   *)
(* which may interleave more freely than it does; panic("bget: no          *)
(* buffers") stops one and lets the others go on.                          *)
(*                                                                         *)
(* The operators named Bug... are plausible mistakes in the definition     *)
(* that follows them; no specification uses them.                          *)
(***************************************************************************)
EXTENDS Naturals, Sequences, FiniteSets, Functions

CONSTANTS
  Proc,       \* the processes, one for each buffer that they use
  Buf,        \* bcache.buf, NBUF of them
  Block,      \* block numbers
  Value,      \* their contents
  MaxPin,     \* buffers the log keeps B_DIRTY at a time
  NoProc, NoBuf, NoBlock

ASSUME BioAssumption ==
  /\ IsFiniteSet(Proc) /\ IsFiniteSet(Buf)
  /\ MaxPin \in Nat
  /\ NoProc \notin Proc /\ NoBuf \notin Buf /\ NoBlock \notin Block

VARIABLES
  buf,        \* struct buf: blockno, valid, dirty, refcnt, data
  lru,        \* bcache.head: the buffers, most recently used first
  holder,     \* holder[b]: b->lock.pid, NoProc if not locked
  idequeue,   \* buffers with a request; the first is the active one
  command,    \* the disk: the command it got from idestart(), or "idle"
  disk,       \* the disk: contents of each block
  pc, bp,     \* where each process is, the buffer it uses
  latest,     \* what was last put in a buffer of the block (history)
  failed      \* buffers whose last read failed (history)

cache == <<buf, lru>>
device == <<command, disk>>
history == <<latest, failed>>
vars == <<cache, holder, idequeue, device, pc, bp, history>>

(* binit(), initsleeplock(): no buffer has a block of the root device. *)
Init ==
  \E v \in Value :
    /\ buf = [b \in Buf |-> [blockno |-> NoBlock, valid |-> FALSE, dirty |-> FALSE,
                             refcnt |-> 0, data |-> v]]
    /\ lru \in Bijection(1 .. Cardinality(Buf), Buf)
    /\ holder = [b \in Buf |-> NoProc]
    /\ idequeue = <<>>
    /\ command = [cmd |-> "idle"]
    /\ disk = [k \in Block |-> v]
    /\ pc = [p \in Proc |-> "idle"]
    /\ bp = [p \in Proc |-> NoBuf]
    /\ latest = disk
    /\ failed = {}

--------------------------------------------------------------------------------
Goto(p, there) == pc' = [pc EXCEPT ![p] = there]

(* wakeup() of the processes at "from" that use b, while p goes on. *)
Wakeup(b, from, to) ==
  [q \in Proc |-> IF pc[q] = from /\ bp[q] = b THEN to ELSE pc[q]]

(* bget(): the buffer of the block, else the least recently used free one. *)
Cached(blk) == {b \in Buf : buf[b].blockno = blk}

BugFree(b) == buf[b].refcnt = 0
Free(b) == buf[b].refcnt = 0 /\ ~ buf[b].dirty

LastFree ==
  {i \in DOMAIN lru : Free(lru[i]) /\ \A j \in DOMAIN lru : j > i => ~ Free(lru[j])}

Bget(p, blk) ==
  /\ pc[p] = "idle"
  /\ \/ \E b \in Cached(blk) :
          /\ buf' = [buf EXCEPT ![b].refcnt = @ + 1]
          /\ bp' = [bp EXCEPT ![p] = b]
          /\ Goto(p, "lock")
          /\ UNCHANGED failed
     \/ /\ Cached(blk) = {}
        /\ \E i \in LastFree : LET b == lru[i] IN
             /\ buf' = [buf EXCEPT ![b].blockno = blk, ![b].valid = FALSE,
                                   ![b].dirty = FALSE, ![b].refcnt = 1]
             /\ bp' = [bp EXCEPT ![p] = b]
             /\ failed' = failed \ {b}
        /\ Goto(p, "lock")
     \/ /\ Cached(blk) = {} /\ \A b \in Buf : ~ Free(b)
        /\ Goto(p, "exhausted")
        /\ UNCHANGED <<buf, bp, failed>>
  /\ UNCHANGED <<lru, holder, idequeue, device, latest>>

(* acquiresleep(&b->lock), one turn of its loop; with the lock, the rest of  *)
(* bread().                                                                  *)
AcquireSleep(p) ==
  /\ pc[p] = "lock"
  /\ IF holder[bp[p]] # NoProc
     THEN Goto(p, "lock_sleep") /\ UNCHANGED holder
     ELSE /\ holder' = [holder EXCEPT ![bp[p]] = p]
          /\ Goto(p, IF buf[bp[p]].valid THEN "use" ELSE "iderw")
  /\ UNCHANGED <<cache, idequeue, device, bp, history>>

Holding(p) == holder[bp[p]] = p

(* The caller changes the buffer it has locked and calls bwrite(). *)
Bwrite(p, v) ==
  /\ pc[p] = "use"
  /\ buf' = [buf EXCEPT ![bp[p]].data = v, ![bp[p]].dirty = TRUE]
  /\ latest' = [latest EXCEPT ![buf[bp[p]].blockno] = v]
  /\ failed' = failed \ {bp[p]}
  /\ Goto(p, IF Holding(p) THEN "iderw" ELSE "panic")
  /\ UNCHANGED <<lru, holder, idequeue, device, bp>>

Pinned ==
  {b \in Buf : buf[b].dirty /\ \A q \in Proc : bp[q] = b => pc[q] \notin {"iderw", "io_sleep"}}

(* Or log_write(), which only sets B_DIRTY. *)
LogWrite(p, v) ==
  /\ pc[p] = "use"
  /\ Cardinality(Pinned \cup {bp[p]}) <= MaxPin
  /\ buf' = [buf EXCEPT ![bp[p]].data = v, ![bp[p]].dirty = TRUE]
  /\ latest' = [latest EXCEPT ![buf[bp[p]].blockno] = v]
  /\ failed' = failed \ {bp[p]}
  /\ UNCHANGED <<lru, holder, idequeue, device, pc, bp>>

BugReleaseSleep(p) ==
  /\ pc[p] = "use"
  /\ holder' = [holder EXCEPT ![bp[p]] = NoProc]
  /\ Goto(p, "unref")
  /\ UNCHANGED <<cache, idequeue, device, bp, history>>

(* brelse(): releasesleep(&b->lock), ... *)
ReleaseSleep(p) ==
  /\ pc[p] = "use"
  /\ IF Holding(p)
     THEN /\ holder' = [holder EXCEPT ![bp[p]] = NoProc]
          /\ pc' = [Wakeup(bp[p], "lock_sleep", "lock") EXCEPT ![p] = "unref"]
     ELSE Goto(p, "panic") /\ UNCHANGED holder
  /\ UNCHANGED <<cache, idequeue, device, bp, history>>

BugUnref(p) ==
  /\ pc[p] = "unref"
  /\ buf' = [buf EXCEPT ![bp[p]].refcnt = IF buf[bp[p]].dirty THEN @ ELSE @ - 1]
  /\ bp' = [bp EXCEPT ![p] = NoBuf]
  /\ Goto(p, "idle")
  /\ UNCHANGED <<lru, holder, idequeue, device, history>>

(* The list with its ith buffer moved to the head. *)
MoveToFront(s, i) ==
  [j \in DOMAIN s |-> IF j = 1 THEN s[i] ELSE IF j <= i THEN s[j - 1] ELSE s[j]]

(* ... and the reference; the buffer moves to the head of the list. *)
Unref(p) ==
  /\ pc[p] = "unref"
  /\ buf' = [buf EXCEPT ![bp[p]].refcnt = @ - 1]
  /\ \E i \in DOMAIN lru :
       /\ lru[i] = bp[p]
       /\ lru' = IF buf[bp[p]].refcnt = 1 THEN MoveToFront(lru, i) ELSE lru
  /\ bp' = [bp EXCEPT ![p] = NoBuf]
  /\ Goto(p, "idle")
  /\ UNCHANGED <<holder, idequeue, device, history>>

--------------------------------------------------------------------------------
(* idestart(b): the disk takes the data of a write at once (outsl). *)
Idestart(b) ==
  IF buf[b].dirty
  THEN [cmd |-> "write", blockno |-> buf[b].blockno, data |-> buf[b].data]
  ELSE [cmd |-> "read", blockno |-> buf[b].blockno]

Done(b) == buf[b].valid /\ ~ buf[b].dirty

(* iderw(), up to its sleep. *)
Iderw(p) ==
  /\ pc[p] = "iderw"
  /\ IF ~ Holding(p) \/ Done(bp[p])
     THEN Goto(p, "panic") /\ UNCHANGED <<idequeue, command>>
     ELSE /\ idequeue' = Append(idequeue, bp[p])
          /\ command' = IF idequeue = <<>> THEN Idestart(bp[p]) ELSE command
          /\ Goto(p, "io_sleep")
  /\ UNCHANGED <<cache, holder, disk, bp, history>>

(* One turn of its loop, after a wakeup. *)
IoWait(p) ==
  /\ pc[p] = "io_wait"
  /\ Goto(p, IF Done(bp[p]) THEN "use" ELSE "io_sleep")
  /\ UNCHANGED <<cache, holder, idequeue, device, bp, history>>

StartNext(queue) ==
  IF queue = <<>> THEN [cmd |-> "idle"] ELSE Idestart(Head(queue))

(***************************************************************************)
(* The disk has carried out its command, and ideintr() runs.  A failed     *)
(* read leaves the data as they were, and the buffer B_VALID all the same. *)
(***************************************************************************)
Ideintr(ok) ==
  /\ command.cmd # "idle"
  /\ ok \/ command.cmd = "read"
  /\ idequeue # <<>>
  /\ LET b == Head(idequeue)
         write == command.cmd = "write" IN
       /\ disk' = IF write THEN [disk EXCEPT ![command.blockno] = command.data] ELSE disk
       /\ buf' = [buf EXCEPT ![b].valid = TRUE, ![b].dirty = FALSE,
            ![b].data = IF ~ write /\ ok THEN disk[command.blockno] ELSE @]
       /\ failed' = IF ok THEN failed ELSE failed \cup {b}
       /\ pc' = Wakeup(b, "io_sleep", "io_wait")
  /\ idequeue' = Tail(idequeue)
  /\ command' = StartNext(idequeue')
  /\ UNCHANGED <<lru, holder, bp, latest>>

--------------------------------------------------------------------------------
Next ==
  \/ \E p \in Proc :
       \/ \E blk \in Block : Bget(p, blk)
       \/ \E v \in Value : Bwrite(p, v) \/ LogWrite(p, v)
       \/ AcquireSleep(p) \/ ReleaseSleep(p) \/ Unref(p)
       \/ Iderw(p) \/ IoWait(p)
  \/ \E ok \in BOOLEAN : Ideintr(ok)

Spec == Init /\ [][Next]_vars

--------------------------------------------------------------------------------
(***************************************************************************)
(* A process that has a locked buffer from bread() sees what was last put  *)
(* in a buffer of that block, by whichever process, whether or not the     *)
(* block was recycled, pinned or written in between (bio.c:58-106,         *)
(* ide.c:102-131), unless the read that filled it failed (ide.c:117).      *)
(***************************************************************************)
ReadsLatest ==
  \A p \in Proc : pc[p] = "use" /\ bp[p] \notin failed =>
    buf[bp[p]].data = latest[buf[bp[p]].blockno]

(***************************************************************************)
(* No panic about locks or requests is reached: a process holds what it    *)
(* writes and releases (bio.c:113, 124), and iderw() has something to do   *)
(* (ide.c:143-145).  And no buffer leaks: one that bget() may not recycle  *)
(* is pinned by the log or in use, so bget() fails (bio.c:92) only when    *)
(* all NBUF are; NBUF = LOGSIZE does not exclude that.                     *)
(***************************************************************************)
NoPanic ==
  /\ \A p \in Proc : pc[p] # "panic"
  /\ \A b \in Buf : Free(b) \/ b \in Pinned \/ \E p \in Proc : bp[p] = b

(***************************************************************************)
(* Nobody sleeps for nothing: who sleeps for a buffer's lock has a holder  *)
(* to wake it (sleeplock.c:34-42), who sleeps in iderw() has its buffer    *)
(* queued, and the disk works on the first of the queue (ide.c:158).       *)
(***************************************************************************)
SleepJustified ==
  /\ \A p \in Proc :
       /\ pc[p] = "lock_sleep" => holder[bp[p]] # NoProc
       /\ pc[p] = "io_sleep" => bp[p] \in Range(idequeue)
  /\ idequeue # <<>> <=> command.cmd # "idle"
  /\ idequeue # <<>> => command.blockno = buf[Head(idequeue)].blockno
================================================================================
