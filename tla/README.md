# A TLA+ verification of the xv6 kernel

This directory models the kernel in `src/` (xv6 for x86) in TLA+, checks the
models with TLC on small instances and proves theorems about them with TLAPS for
every instance. A module is written from the source it models; `PROJECT.json`
lists, for each definition, the lines it stands for.

## The system: inventory

| Part | State | Operations that change it | Interacts with | What is hard |
|---|---|---|---|---|
| Spin locks (`spinlock.c`) | `locked`, `cpu`; per CPU `ncli`, `intena`, FL_IF | acquire, release, holding, pushcli, popcli, interrupt, iret | everything | unlocked reads in holding, interrupts inside pushcli, handlers that take locks |
| Processes, scheduler (`proc.c`, `trap.c`) | process table, `nextpid`, per-CPU `proc`, kernel stacks | allocproc, fork, exit, wait, kill, sleep, wakeup, yield, sched, scheduler, forkret | spin locks, page allocator, clock | `ptable.lock` is handed over across swtch; wakeups that race with sleeps; stacks freed by another CPU; fork's unlocked failure paths |
| Clock, `sys_sleep` (`trap.c`, `sysproc.c`) | `ticks`, `tickslock` | tick, sys_sleep | processes | killed is read before sleep takes `ptable.lock` |
| Log (`log.c`) | `lh`, `outstanding`, `committing`; on disk: header, log blocks, home blocks | begin_op, log_write, end_op, commit, recovery | buffer cache, disk, sleep/wakeup | crash between any two block writes, also in recovery; group commit; log space; waiting for a commit |
| Buffer cache (`bio.c`), sleep locks (`sleeplock.c`), disk (`ide.c`) | `refcnt`, flags, LRU list, `locked`/`pid`, request queue | bget, bread, bwrite, brelse, acquiresleep, releasesleep, iderw, idestart, ideintr | log, inodes, interrupts | a buffer found before it is valid; queue against interrupt; NBUF = LOGSIZE |
| Inodes, directories (`fs.c`), calls (`sysfile.c`) | inode cache (`ref`, `valid`, lock), on-disk inodes, bitmap, directory entries | ialloc, iget, idup, ilock, iunlock, iput, itrunc, balloc, bfree, dirlookup, dirlink, create, link, unlink, open | log, buffer cache | iput locks again; last reference against lookup; parent and child locked in two orders; ".." of a removed directory |
| File table (`file.c`), pipes (`pipe.c`) | `ref`; `nread`, `nwrite`, `readopen`, `writeopen` | filealloc, filedup, fileclose, pipealloc, pipeclose, pipewrite, piperead | processes, inodes, page allocator | close against a sleeping other end; kill against sleep; wrap-around |
| Console input (`console.c`) | ring `r`, `w`, `e` | consoleintr, consoleread | processes, interrupts | full ring, line editing, ^D pushed back |
| Pages (`kalloc.c`), address spaces (`vm.c`), exec (`exec.c`) | free list, page tables, `sz` | kalloc, kfree, setupkvm, allocuvm, deallocuvm, copyuvm, freevm, growproc, exec | processes, inodes | failure halfway through; each page owned once |
| System call dispatch, user allocator, devices, boot, mkfs, user programs | | | | see "Not modelled" |

`PROJECT.json` lists the hazards of this code one by one, each at its line with
the properties that would show it going wrong.

## Modules

| Module | Models | Extends / uses |
|---|---|---|
| `AbsLock` | what a lock promises: one owner | |
| `Spinlock` | `spinlock.c`, the gates of `trap.c` | instance of `AbsLock` |
| `SpinlockProofs` | the invariant of `Spinlock`, that it is inductive, and the theorems | `Spinlock` |
| `Proc` | `proc.c`, the clock of `trap.c`, `sys_sleep` | |
| `ProcProofs` | the invariant of `Proc`, that it is inductive, the theorems | `Proc` |
| `AbsLog` | what the log promises: groups of whole operations become durable at once | |
| `Log` | `log.c` over the disk and the cache of `bio.c` | instance of `AbsLog` |
| `LogProofs` | the invariant of `Log`, that it is inductive, the theorems | `Log` |
| `Bio` | `bio.c`, `sleeplock.c`, `ide.c` | |
| `BioProofs` | the invariant of `Bio`, that it is inductive, the theorems | `Bio` |
| `Pipe` | `pipe.c`, the file table of `file.c`, the descriptor calls of `sysfile.c` | |
| `PipeInvariant` | the invariant of `Pipe`, and that its part about files is inductive | `Pipe` |
| `PipeProofs` | the part about rings and sleepers, and the theorems | `PipeInvariant` |
| `AbsConsole` | what console input promises: a queue of edited lines | |
| `Console` | `console.c`, `kbd.c`, the input of `uart.c` | instance of `AbsConsole` |
| `ConsoleProofs` | the invariant of `Console`, that it is inductive, the theorems | `Console` |
| `Vm` | `kalloc.c`, `vm.c`, `exec.c`, `growproc`, the memory of `fork` and `wait`, the argument checks of `syscall.c` | |
| `VmProofs` | the invariant of `Vm`, that it is inductive, the theorems | `Vm` |
| `Fs` | the inode cache, directories and path names of `fs.c`, the naming calls of `sysfile.c` | |
| `Data` | the blocks of files: `balloc` to `writei` of `fs.c`, `fileread`, `filewrite`, the layout of `mkfs.c` | |
| `MC...` | the instances TLC checks | |

Operators named `Bug...` are plausible mistakes in the definition that follows
them. No specification uses them; `PROJECT.json` names the property that each one
breaks, which shows that the property depends on that code.

### Spinlock

Each CPU has a stack of frames: frame 0 is the kernel thread, frame 1 an interrupt
handler that suspended it. A frame is at a label inside `acquire`, `release`,
`pushcli` or `popcli`, or runs other code (`"run"`), from which it calls them
under the two rules the kernel follows: locks are taken in the lock order, and a
handler returns without locks. Every load or store that another CPU or a handler
can observe is a step: the two reads of `holding`, the two stores of `release`,
`readeflags` and `cli`. `holding`'s own pushcli/popcli pair is left out, since it
runs with interrupts off and `ncli` at least 1, which `Masked` states. The memory
barriers make the steps of the model sequentially consistent.

### Proc

`ptable.lock` is modelled by the CPU that holds it and travels across `swtch`, as
in the code: from a process in `sched` to its CPU's scheduler (`"scan"`) and on to
the next process (`"resume"`). A critical section that does not switch stacks is
one step. `exit` before its critical section, and fork's steps between
critical sections, are steps of their own, because other CPUs see the table in
between. `ctx` says where a switched-out process resumes. Programs are arbitrary,
except that the first process only forks and waits, as `init.c` does.

### Log

The disk has home blocks, log blocks and the header; a block write is atomic.
Memory has the buffers (`cache`, `dirty` for B_DIRTY), `struct log` and each
process's position. `Crash` keeps only the disk and may happen at any step. A step
of `write_log` or `install_trans` writes one block. An operation writes whatever
it likes, at most `OpBlocks` distinct blocks, with the buffer locked from the
change to the end of `log_write`. `Evict` is `bget` recycling a buffer that is
neither locked nor dirty. Log blocks and the header are not cached in the model:
they are only ever written through, so that a cached copy equals the disk.

### Bio

A process of `Bio` is a use of one buffer; a call that holds two at a time (`bmap`,
`itrunc`, `install_trans`) is two of them. It gets a block with `bread`, may change the buffer, may write it
(`bwrite`) or pin it as `log_write` does, and releases it. The critical sections
of `bcache.lock`, of the spin lock inside a sleep lock and of `idelock` are one
step each, so that everything that happens between `bget`'s release of
`bcache.lock` and its `acquiresleep` is explored. The disk executes the command
that `idestart` gave it and interrupts later; a read may fail, and then
`ideintr` leaves the buffer's contents as they were and sets B_VALID all the
same (`ide.c:117`). `latest` and `failed` are histories that the properties use.

### Pipe

Descriptors, open files and pipes, under `dup`, `close`, `pipe`, `fork`, `exit`
and `kill`. `file` is `ftable`, `page` the pages that are pipes, `pipe[i].open` the
ends `readopen` and `writeopen`. A file that a process has hold of outside its
descriptors, in `sys_close` after the slot is cleared or in `pipealloc` before it
is filled, is in `local`. Bytes are numbered in the order they are written, modulo
`Byte`; a call stores or takes at once all it can without sleeping. A process that has
looked at `killed` and not yet entered `sleep` is at `"tosleep"`: a `kill` there
is not noticed until the other end moves (`pipe.c:86`, `107`, and the same in
`console.c:248`). The code does so, and no property denies it. A writer that has
filled the pipe and finds itself killed returns without waking the readers
(`pipe.c:86-89`); `quiet` remembers it, and `SleepJustified` names the exception.

### Console

`input.r`, `w` and `e` wrap around. The sources of characters are the keyboard,
with two control keys and the 0xE0 escape of one of them, and the serial line.
The abstract line and the finished characters are the ring from `w` to `e` and
from `r` to `w`. The cursor starts anywhere on the screen: `cgaputc` goes on from
where the hardware's cursor is (`console.c:137-140`), which is where the BIOS and
the boot loader left it.

### Vm

An address space is a function from slots to pages: the page directory, its page
tables, and a page for each virtual page; contents are left out. A process has two,
`Cur` for `p->pgdir` and `New` for the one that `exec` or `fork` builds. Every turn of a loop that allocates is a step, so
two processes can run out of memory at any of them; `copyuvm` is `CopySetup`, then
`CopyPage` for each page, then the rest of `fork` in `ForkDone`. Addresses are unsigned and
wrap at `UINT`. `growproc(-p->sz)` frees every page, `deallocuvm` returns the new
size 0, and `growproc` takes it for a failure and keeps `sz` (`proc.c:168-170`).
Such a process has no code to run, so it makes no further call and can only be
killed by its next fault; `ArgsMapped` names the exception. (Until the TLB is
flushed the processor may go on using old entries; the TLB is not modelled.)

### Fs

A process that is in a system call walks its path one directory a step (`namex`)
and then does what the call does. `puts` is the list of `iput`s the call still
has to make, in order, and an `iput` is up to three steps, because it gives
`ip->lock` and `icache.lock` up in between. Two calls lock a second inode with
one locked: `create` its new inode, and `sys_unlink` the one it removes.
`create` and `sys_link` do not look whether the directory they enter a name in
has been removed meanwhile (`sysfile.c:249-277`): the new inode then has a link count
but no name. `stray` remembers such inodes, and `LinksExact` names the exception.
`.` and `..` are entries as in the code: `mkdir` makes them, `dirlookup` finds them,
`dirlink` refuses them, `isdirempty` skips them, and a directory's `..` counts in its
parent's `nlink` until the directory is removed. `lost` and `dangling` are histories
that say when a `..` names an inode freed since, and when a lookup has found one.

### Data

The disk is a bitmap, blocks and inodes, laid out and filled as `mkfs` does. What a
process does with an inode locked and a transaction open is one step; `filewrite`
takes one step per transaction, so processes that share an open file interleave
there. `log` collects the blocks a transaction writes.

## Runs

| Run | Instance | Shows |
|---|---|---|
| `spinlock` | 2 CPUs, 2 locks, nesting bound 2 | `MutualExclusion`, `NoPanic`, `Masked`, `IntrRestored`, and that `Spinlock` implements `AbsLock` |
| `proc` | 2 CPUs, 4 slots, pids up to 4 | `OneCPU`, `StackLive`, `SchedOK`, `ParentLive`, `WaitSound`, `NoLeak` |
| `proc_live` | 1 CPU, 3 slots, pids up to 3, fair | `OrphansReaped`, `KilledExits`, `RunnableRuns` |
| `log` | 2 processes, 3 blocks, 2 values, operations of up to 2 blocks | `Log` implements `AbsLog`; `WriteAhead`, `NoPinLeak` |
| `log_space` | 3 processes, 3 blocks, LOGSIZE = 4, MAXOPBLOCKS = 2, operations of 1 block, fair | `LogFits`, `SleepJustified`, `WokenUp` |
| `bio` | 2 processes, 3 buffers, 4 blocks, up to 2 buffers pinned | `ReadsLatest`, `NoPanic`, `SleepJustified` |
| `pipe` | 2 processes, 2 descriptors each, 3 files, 1 pipe of 2 bytes, counters modulo 4 | `FilesSound`, `InOrder`, `SleepJustified` |
| `console` | 2 readers, a ring of 2, indices modulo 4, a screen of 2 x 2 | `Console` implements `AbsConsole`; `SleepJustified`, `CursorOK`, `NoStuckModifier` |
| `vm` | 2 processes, 13 pages of 2 units, tables of 2 pages, 7 programs | `PagesOwnedOnce`, `ArgsMapped`, `ExecBalanced` |
| `fs` | 2 processes, inodes 1 to 3, two levels of directories, a file with two names, 9 requests, `..` and `.` among their paths | `RefsExact`, `LinksExact`, `InodeLive`, `OnlyIputDeadlocks` |
| `fs_leak` | the same | `LastPutFrees` is violated: see below |
| `data` | 2 processes, a root and a file, blocks of 2 units, 1 direct block, MAXOPBLOCKS = 7 | `BlocksOwnedOnce`, `ReadsBack`, `TransactionFits` |

The bounds. `MaxLevel` = 2 would let a handler be interrupted if anything ever
turned interrupts on in one; `IntrRestored` shows nothing does. Two locks are
enough for nested and out-of-order releases. Four process slots hold init, a
parent, a child and an orphan, and `MaxPid` stops `nextpid` once as many forks
have been tried; kill is not aimed at init, whose exit panics by design. In
`log`, an operation of two blocks can be torn, three blocks make transactions of
several operations, and LOGSIZE = 6 with MAXOPBLOCKS = 3 makes `begin_op` wait for
space. In `log_space` the third process has to wait, and a reservation that is one
operation short overflows.

In `bio` there are more blocks than buffers, so buffers are recycled while others
wait for them, and two buffers can be pinned for the log, so that sometimes `bget`
finds none. In `pipe` and
`console` the rings are smaller than the counters' range, as in the code, and
both wrap; writes of 3 bytes do not fit. In `vm` memory suffices for one process
with a program and a part of another, so that `fork` and `exec` fail at every
allocation; the programs are well formed, misaligned, malformed, empty or too
large, and `sbrk` gets positive and, as unsigned numbers, negative arguments. In
`fs` the second name lets an unlink leave the inode alive; removing and making
the directory again reuses its inode; and a process can be in a directory of which
both it and its parent are removed. In `data` the file reaches its indirect
block, writes start inside a block, and files give their blocks to each other.
Symmetry is over processes, buffers, blocks or values that `Init` and `Next` treat
alike, and is used only in runs without liveness. Deadlock is not checked where
the system may stop: a pipe with only readers, a console with nobody typing, a
process without memory, the deadlock described under `fs`, and a process of `fs` that
has panicked.

Fairness. In `Proc`: CPUs execute `scheduler` and `swtch`; the timer keeps
interrupting, so that CPUs yield and ticks come; a process goes on with a system
call it has begun; a killed process exits when `trap` next looks at it; and init
returns to `wait`. It is strong fairness, because each of these needs a lock or a
CPU that comes and goes, and spin locks in the kernel are held for a bounded time
and contended for by few CPUs. Spin locks are not fair as such: on a machine that
starves one CPU for ever at `xchg` these properties do not hold. In `Log`: an
operation ends (strong fairness: while it writes, it is not at `end_op`), and the
committer and recovery, which wait for nobody, go on. The liveness of `Proc` is
checked with one CPU to keep the run short.

What `fs_leak` shows. `iput` looks at `nlink` and `ref` with the inode locked,
gives its locks up and decrements `ref` only after `releasesleep`
(`fs.c:334-351`), so that a second `iput` in between counts a reference that is as
good as gone. TLC's trace: a process makes the directory `/a`, and in the last
`iput` of `mkdir` it finds the inode still linked, so that it will only decrement.
Before it does, another process removes `/a`: `nlink` becomes 0, but its `iput`
reads `ref` = 2 and does not free the inode either. Then both decrement. The inode
stays allocated on disk with its blocks, with nothing that names it. The comment at
`fs.c:326-328` says that the last reference frees it.

What `fs` shows about deadlock. `OnlyIputDeadlocks` says that processes that wait
for each other in a circle have one in `iput` among them: the other calls that wait
with a lock held go from a directory to its entry, or to a new inode nobody else
locks, whatever paths, `..` included, led there. `iput` does deadlock: `create`
(`sysfile.c:280`) and `sys_unlink` (`sysfile.c:225`) call `iunlockput(dp)` with the
child's lock held, and `iput` takes the lock of `dp` again (`fs.c:334`). If another
`sys_unlink` of the same name has locked `dp` meanwhile and waits for the child,
neither goes on. And `link(x, "d/.")` waits for itself: `dirlink` finds `.` and puts
the inode it has locked (`fs.c:560`). For this reason `fs` is checked without
deadlock checking.

What `fs` shows about `..`. A directory's `..` counts in its parent's `nlink`
only until the directory is removed, but a process may still be in it. When the
parent is removed too, its inode is freed, and the `..` names a free inode or, after
the next `ialloc`, another one. A lookup of `..` then makes `ilock` panic with
"no type" (`fs.c:309`), or goes on in a directory that is not the parent. `InodeLive`
and `LinksExact` hold until a lookup finds such a `..`, and name this as their
exception: nothing else leads to a freed inode. `RefsExact` and
`OnlyIputDeadlocks` hold without it.

The log's size. `param.h` calls LOGSIZE the "max data blocks in on-disk log" and
MAXOPBLOCKS the "max # of blocks any FS op writes"; `mkfs.c` makes the log LOGSIZE
blocks long including its header, so that it holds LOGSIZE - 1, and `log_write`
panics at that size, while `begin_op` hands out LOGSIZE. Operations that used
their whole reservation would panic. `AlwaysFits` proves that operations that write
at least one block fewer do not (`LogAssumption`: OpBlocks < MAXOPBLOCKS <
LOGSIZE <= NLOG; `log_space` shows it on an instance). The code's operations do
write fewer: `TransactionFits` says that what `filewrite` and `itrunc` write stays
below MAXOPBLOCKS in every layout of the instance, which has two bitmap blocks (with
MAXOPBLOCKS = 6 they would write 6), and with the sizes of `param.h` and
one bitmap block `filewrite`, the largest, writes at most 4 data blocks, the
bitmap, the indirect block and the inode, 7 of 10. `filewrite` does not count the
bitmap blocks, which is right as long as there is one (FSSIZE below 4096).

The root directory. `mkfs` rounds the root's size up to `(off/BSIZE + 1) * BSIZE`
(`mkfs.c:161`). When the entries fill their blocks exactly this leaves a last
block without an address, and a later lookup would allocate it outside a
transaction. `Data` assumes that they do not (`DataAssumption`); the files that
the Makefile puts in the image do not either.

## Proofs

### Spin locks

`SpinlockProofs` proves, for every set of CPUs, every set of locks ordered by
natural numbers and every nesting bound, from `SpinlockAssumption` alone, that
`Spinlock` satisfies each of the properties its run checks, and `TypeOK` and
`HoldingExact`:

| Theorem | States |
|---|---|
| `Invariance` | `Spec => []IInv`, the inductive invariant |
| `TypeCorrect`, `MutualExclusionHolds`, `NeverPanics`, `AlwaysMasked`, `AlwaysRestored`, `HoldingIsExact` | `Spec => []P` for each invariant |
| `Refinement` | `Spec => Abs!Spec`: acquire and release implement `AbsLock` |

None of the properties is inductive by itself. Mutual exclusion within a CPU rests
on interrupts being off, that on `intena` and `ncli`, and those on how many locks
the frame holds. `IInv` therefore has, besides the types, `FrameInv` (only the
running frame holds locks; a suspended one stopped before its `cli`), `CountInv`
(`ncli` is the number of locks held plus the pushcli in progress), `MaskInv` (when
FL_IF is on, and what `intena` and `eflags` remember) and `OwnInv` (`locked` and
`cpu` say exactly who owns the lock). One lemma per action shows that it preserves
`IInv`; small lemmas say how marking, unmarking and freeing a lock change
ownership. For the refinement, `OwnerIs` characterises the owner that the mapping
chooses; the successful `xchg` is the abstract Acquire, the freeing store the
abstract Release, and every other step a stutter.

### Processes

`ProcProofs` proves, for every set of CPUs, every size of the process table and
all programs, from `ProcAssumption`, every invariant that the run `proc` checks:

| Theorem | States |
|---|---|
| `Invariance` | `Spec => []IInv`, the inductive invariant |
| `AlwaysOneCPU`, `StacksAlwaysLive`, `SchedNeverPanics`, `ParentsAlwaysLive`, `WaitAlwaysSound`, `NeverLeaks` | `Spec => []P` for `OneCPU`, `StackLive`, `SchedOK`, `ParentLive`, `WaitSound`, `NoLeak` |

The assumption says that the constants are distinct and that nobody kills pid 1,
whose exit panics by design; `MaxPid`, which bounds the run, may be any number.
`IInv` has, besides the types and `ParentLive`, six parts. `CpuInv`: the CPU that
holds `ptable.lock` across a switch is in the scheduler's loop or on either side
of `swtch`, and the state of the process it is on fits. `CtxInv`: a process has a
saved context exactly while it is switched out, and does not hold `tickslock`
then. `SlotInv` and `ForkInv`: which slots have stacks and parents, and that each
EMBRYO belongs to one fork, which fills it in without the lock. `InitInv`: init
lives for ever and nobody is its own parent; without it, exit's hand-over of
children to init would not show that they have a live parent. `WaitInv` is
`WaitSound` spelt out. That wait loses no wakeup rests on all of them: a child
can only become a zombie in `exit`, which wakes its parent, or init if the parent
is gone, and `ParentLive` makes the parent's slot still the parent's. `Frame`
collects what each part depends on, so that the lemma about an action argues
only about the parts it can disturb.

### The log

`LogProofs` proves, for every set of processes, of blocks and of contents and all
sizes that satisfy `LogAssumption`, every safety property that the runs `log` and
`log_space` check:

| Theorem | States |
|---|---|
| `Invariance` | `Spec => []IInv`, the inductive invariant |
| `AlwaysFits`, `SleepAlwaysJustified`, `NeverLeaksPins` | `Spec => []P` for `LogFits`, `SleepJustified`, `NoPinLeak` |
| `WritesAhead` | `Spec => WriteAhead`, an action property |
| `Refinement` | `Spec => Abs!Spec`: the log implements `AbsLog` |

`IInv` has, besides the types and `SleepJustified`, four parts. `ProcInv`:
`outstanding` counts the operations in progress, there is one committer, and none
is in an operation while it commits. `SpaceInv`: with one pair in `Reserve` for
each block that an operation in progress may still add, the length of `lh` and
the size of `Reserve` leave two entries of LOGSIZE unused. The test of `begin_op`
establishes it, an append takes a pair away, and this avoids a sum over
processes. `CacheInv`: a buffer that `bget` may recycle equals its home location.
`StageInv`: how much of the transaction is in the log, in the header and at home at
each step of `commit` and `recover_from_log`. `InstallFacts` covers the
`install_trans` of both.

For the refinement, `DurableOK` says what the mapping makes of the disk without its
CHOOSE, using that the header names no block twice. A change of a buffer is the
abstract Write, `write_head` of a non-empty header is the abstract Commit, Crash is
Crash, `begin_op` and `end_op` are Begin and End, and every other step a stutter.

### The buffer cache

`BioProofs` proves, for all processes, buffers, blocks and contents that satisfy
`BioAssumption`, the three invariants that the run `bio` checks:

| Theorem | States |
|---|---|
| `Invariance` | `Spec => []IInv`, the inductive invariant |
| `AlwaysReadsLatest`, `NeverPanics`, `SleepAlwaysJustified` | `Spec => []P` for `ReadsLatest`, `NoPanic`, `SleepJustified` |

`IInv` has six parts. `RefInv`: `refcnt` is the number of processes that use the
buffer, no block has two buffers, and every buffer is on the list. `LockInv`: the
holder of a sleep lock is the process between `acquiresleep` and `releasesleep`.
`QueueInv`: the disk queue has the buffers whose holders wait for the disk, once
each, and the disk works on the first. `FlagInv`: what B_VALID and B_DIRTY say at
each place of the holder. `DataInv`: a valid buffer has the latest contents, and
so has the disk unless the buffer is dirty. `TypeInv` is the types. `NoPanic`
says two things. The panics about locks and requests (`bwrite`, `brelse`, `iderw`)
are not reached. And no buffer leaks: one that is not free is pinned by the log or in
use, so `bget` finds no buffer only when all of them are. That this happens is not
excluded, and the theorem assumes nothing about the numbers: NBUF is no larger than
LOGSIZE, so a full transaction and one reader exhaust it. xv6 relies on few processes
being in the file system at once, and panics with "bget: no buffers" otherwise.

### The console

`ConsoleProofs` proves, for all readers, every size of the ring and of the screen
and every width of the indices that is a multiple of the ring's size, from
`ConsoleAssumption`, every property that the run `console` checks:

| Theorem | States |
|---|---|
| `Invariance` | `Spec => []IInv`, the inductive invariant |
| `SleepAlwaysJustified`, `NoModifierSticks` | `Spec => []P` for `SleepJustified`, `NoStuckModifier` |
| `CursorStaysOnScreen` | `Spec => CursorOK`: from anywhere on the screen the cursor stays on it, and above the last line once there |
| `Refinement` | `Spec => Abs!Spec`: the ring implements `AbsConsole` |

That UINT is a multiple of INPUT_BUF is what makes `buf[i % INPUT_BUF]` go on at the
right cell when an index wraps; `Beyond` is the one place that uses it. `Part` is
the text between two indices, and `PartPush`, `PartKeep`, `PartCat`, `PartPop` and
`PartFront` say what storing a character, joining, reading and erasing make of it
when the distances stay within INPUT_BUF. `IInv` has, besides the types and
that the cursor is on the screen, three parts. `RingInv`: what is ready and the line fit in the ring,
and the line has no newline, so that ^U erases exactly the line. `SleepInv`: a
reader that sleeps, or holds cons.lock on its way to sleep, has nothing to read;
`SleepJustified` alone does not survive the step from the test to the sleep.
`KeyInv`: CTL is on only while a control key is down, E0ESC only while a byte is
due. For the refinement, `consoleintr` is Type, Erase or EraseLine, the copying
loop of `consoleread` is Read, ^D with nothing copied is ReadEof, and every other
step a stutter.

### Pipes and open files

`PipeInvariant` and `PipeProofs` prove, for all finite sets of processes, all sets
of pages, numbers of files and of descriptors, sizes of the ring and of writes, from
`PipeAssumption`, every property that the run `pipe` checks:

| Theorem | States |
|---|---|
| `Invariance` | `Spec => []IInv`, the inductive invariant |
| `FilesAlwaysSound`, `BytesAlwaysInOrder`, `SleepAlwaysJustified` | `Spec => []P` for `FilesSound`, `InOrder`, `SleepJustified` |

The assumption says that UINT is a multiple of PIPESIZE, for the reason given for the
console, and that there are more byte numbers than places in the ring, so that a
number names one byte. `IInv` has, besides the types and `InOrder`, five parts.
`RefInv`: `ref` is the number of descriptors and of `local`s that refer to the file.
Counting only descriptors is not inductive, as `sys_close` clears the descriptor
before `fileclose` decrements. `Replaced` and `Inherited` state how one assignment and
how `fork` change that count. `KindInv`: what type, pipe and end of a
file have to do with each other. `PlaceInv`: a process inside `piperead` or
`pipewrite` has a descriptor of that end, which nobody else can close, so the end
stays open while it sleeps; the files of an unfinished `pipealloc` are its own.
`EndInv`: an end is open exactly while one file has it or one process is in
`pipeclose` for it, so no end is closed twice and no pipe is freed early. `SleepInv`:
a reader between its test and the end of its sleep finds the ring empty (or `quiet`),
a writer finds it full, and the other end is open. The rings are the subject of
`PipeProofs`: remainders, then what storing and taking bytes make of a ring whose
cells are in order.

### Memory

`VmProofs` proves, for every set of processes, every amount of memory, every size of
pages, tables and of the user's half of the address space, all programs and all
arguments of `sbrk`, from `VmAssumption`, every property that the run `vm` checks:

| Theorem | States |
|---|---|
| `Invariance` | `Spec => []IInv`, the inductive invariant |
| `PagesOwnedOnceHolds`, `ArgsMappedHolds`, `ExecBalancedHolds` | `Spec => []P` for each |

`VmAssumption` says that KERNBASE is a multiple of what a page table maps and more
than a page, that it is at most half of UINT, so that `i + size` in `argptr` does not
wrap, and that memory suffices for `userinit`. `IInv` has four parts: the types;
`Owned`, which is `PagesOwnedOnce`; `ChildInv`, that the processes in `fork` have
children of their own in state EMBRYO; and `LocalInv`, which says for each place in
`sbrk`, `exec` and `fork` which user pages the two address spaces have. `Has(A, n)`
says that they are the first n. Ownership alone is not inductive: that `mappages`
never finds a page in its slot ("remap"), which would lose that page, needs `Has` at
the loop's `a`, and that `copyuvm` and `loaduvm` find the pages they look for needs it
at `sz` and at the end of the segment.

The argument about ownership is in five lemmas about any free list, stacks and
spaces: a free page goes into an empty slot (`PutOwned`), slots are cleared and their
pages freed (`ClearOwned`), a page becomes a kernel stack and returns (`StackOwned`,
`UnstackOwned`), and a space moves to an empty one (`MoveOwned`). `mappages`,
`setupkvm`, `deallocuvm`, `freevm` and the actions are compositions of these. `Up(x)`
is the number of pages of x units; `UpIs` (page v begins below x exactly if v < Up(x))
is the only fact about rounding that the actions need.

### What is only model-checked

The properties of `Fs` and `Data` are only model-checked. Those of `Data` are about
values that its operators compute by folding over blocks and bytes, and proving them
needs induction over data, which is out of the prover's reach. Those of `Fs` count
the references in the working directories, open files and system calls of all
processes and the names in all directories; they would need an invariant of the kind
of the pipes' over every place in a system call, and it has not been written.
Liveness (`WokenUp` and the properties of `proc_live`) stays with TLC, as it is out
of the prover's reach.

## Not modelled

- The composition of all parts. The modules meet at the calls they make to each
  other, each of which assumes what another shows: `Log` that a buffer's contents
  survive as `Bio` shows, `Bio` that the log unpins what it pins (`NoPinLeak`), `Fs`
  and `Data` that a transaction is atomic (`ImplementsAtomicDisk`) and fits
  (`TransactionFits`, `LogFits`), all of them that spin locks exclude.
- Crashes in `Fs`: a transaction is atomic by `Log`. An inode that is open and
  unlinked when the machine stops stays allocated; recovery does not look for it.
- Some panics: that the interrupt flag is off in `sched` (`proc.c:377`) follows from
  `Masked` of `Spinlock`, and `bfree`'s "freeing free block" is excluded by
  `BlocksOwnedOnce`; those of `iderw` and `idestart` about a disk or a block number
  that does not exist concern the caller's numbers only. `setupkvm` gets its pages
  in one step or none; in the code a process that runs out of memory while another
  is inside a `setupkvm` that fails might have found a page a moment later.
- Exhaustion of the inode cache, of inodes and of disk blocks: the code panics
  (`iget`, `ialloc`, `balloc`), and the bounds keep away from it.
- A second device, device inodes' data, `stat`, and the copying of arguments.
- Contents of memory, protection bits, segmentation, and the TLB.
- `kill` of a pid that a failed fork has left in an UNUSED slot is a step of `Proc`
  but no property is about it.
- Disk writes that fail or are reordered: `iderw` waits for each write, and
  `ideintr` does not look at the status of a write.
- `getcallerpcs`, `procdump`, `cprintf`: output for people.
- `lapic.c`, `ioapic.c`, `mp.c`, `picirq.c`, boot code: register-level set-up with
  no shared state. `memide.c`, an alternative to `ide.c`.
- The user programs, `umalloc.c` included: sequential, outside the kernel.
