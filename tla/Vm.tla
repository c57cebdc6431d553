----------------------------------- MODULE Vm -----------------------------------
(***************************************************************************)
(* Memory: kalloc.c, vm.c, exec.c, growproc() and the memory side of       *)
(* fork() and wait() in proc.c, and the argument checks of syscall.c.      *)
(*                                                                         *)
(* Addresses are in units of which PGSIZE make a page.  Contents are left  *)
(* out: an address space is the pages it consists of, each in its slot.    *)
(* The free list's order shows in nothing, so kalloc() takes the lowest    *)
(* free page.  One turn of a loop that allocates is one step, so that      *)
(* processes compete for the last pages at every turn.                     *)
(*                                                                         *)
(* The operators named Bug... are plausible mistakes in the definition     *)
(* that follows them; no specification uses them.                          *)
(***************************************************************************)
EXTENDS Naturals, Sequences

CONSTANTS
  Proc, NoProc, initproc,
  PGSIZE,                  \* units in a page
  NPTENTRIES,              \* pages a page table maps
  KERNBASE,                \* end of user addresses
  UINT,                    \* 2^32
  End, Mid, PHYSTOP,       \* kinit1(end, 4MB), kinit2(4MB, PHYSTOP)
  Program,                 \* the program headers of the files exec() is given
  Sbrk                     \* the arguments of sbrk(), as uints (bound)

VPage == 0 .. KERNBASE \div PGSIZE - 1
KernelTable == KERNBASE \div (PGSIZE * NPTENTRIES)   \* the table of kmap[]
Pdx == 0 .. KernelTable

(* freerange(): the whole pages between two addresses, kfree()d one by one. *)
PGROUNDUP(a) == ((a + PGSIZE - 1) \div PGSIZE) * PGSIZE
FreeRange(vstart, vend) ==
  {k \in 0 .. vend : PGROUNDUP(vstart) <= k * PGSIZE /\ k * PGSIZE + PGSIZE <= vend}
Memory == FreeRange(End, Mid) \cup FreeRange(Mid, PHYSTOP)

(* The first pages that are allocated. *)
First(i) == PGROUNDUP(End) \div PGSIZE + i

Proghdr == [vaddr : 0 .. UINT - 1, filesz : 0 .. UINT - 1, memsz : 0 .. UINT - 1]

ASSUME VmAssumption ==
  /\ {PGSIZE, NPTENTRIES, KERNBASE, UINT, End, Mid, PHYSTOP} \subseteq Nat
  /\ 0 < PGSIZE /\ 0 < NPTENTRIES /\ 0 < End /\ 0 < Mid
  /\ KERNBASE % (PGSIZE * NPTENTRIES) = 0 /\ PGSIZE < KERNBASE /\ 2 * KERNBASE <= UINT
  /\ Program \subseteq Seq(Proghdr) /\ Sbrk \subseteq 0 .. UINT - 1
  /\ initproc \in Proc /\ NoProc \notin Proc
  /\ {First(i) : i \in 0 .. 4} \subseteq Memory

VARIABLES
  free,        \* kmem.freelist
  state,       \* p->state: "UNUSED", "EMBRYO", "LIVE" or "ZOMBIE"
  kstack,      \* p->kstack
  as, sz,      \* address spaces: the pages in their slots; p->sz
  pc, job,     \* where p is, with the loop's variables
  txn          \* the inode locks and transactions p's exec() holds

vars == <<free, state, kstack, as, sz, pc, job, txn>>

(* p->pgdir, and the page directory that exec() or fork() builds. *)
Cur(p) == <<p, "cur">>
New(p) == <<p, "new">>
Space == Proc \X {"cur", "new"}

(* The page directory, its entries and those of its page tables. *)
Dir == <<"dir", 0>>
Tab(i) == <<"tab", i>>
Map(v) == <<"map", v>>
Slot == {Dir} \cup {Tab(i) : i \in Pdx} \cup {Map(v) : v \in VPage}

None == 0
NoSpace == [x \in Slot |-> None]
NoJob == [a |-> 0, oldsz |-> 0, newsz |-> 0, for |-> "none", segs |-> <<>>, child |-> NoProc]

(* userinit(): allocproc(), setupkvm(), and inituvm() of one page. *)
Init ==
  /\ free = Memory \ {First(i) : i \in 0 .. 4}
  /\ state = [q \in Proc |-> IF q = initproc THEN "LIVE" ELSE "UNUSED"]
  /\ kstack = [q \in Proc |-> IF q = initproc THEN First(0) ELSE None]
  /\ as = [h \in Space |-> IF h # Cur(initproc) THEN NoSpace
             ELSE [NoSpace EXCEPT ![Dir] = First(1), ![Tab(KernelTable)] = First(2),
                                  ![Tab(0)] = First(3), ![Map(0)] = First(4)]]
  /\ sz = [q \in Proc |-> IF q = initproc THEN PGSIZE ELSE 0]
  /\ pc = [q \in Proc |-> "user"]
  /\ job = [q \in Proc |-> NoJob]
  /\ txn = [q \in Proc |-> 0]

--------------------------------------------------------------------------------
(* kalloc(), with the pages S on the free list: empty if there is none. *)
Kalloc(S) == {x \in S : \A y \in S : x <= y}

Present(h) == {v \in VPage : as[h][Map(v)] # None}

BugDealloc(oldsz, newsz) == {Map(v) : v \in {w \in VPage : newsz < (w + 1) * PGSIZE /\ w * PGSIZE < oldsz}}

(* deallocuvm(): the slots that it clears, and kfree() of what is there. *)
Dealloc(oldsz, newsz) ==
  {Map(v) : v \in {w \in VPage : PGROUNDUP(newsz) <= w * PGSIZE /\ w * PGSIZE < oldsz}}

Frames(h, xs) == {as[h][x] : x \in xs} \ {None}
Cleared(h, xs) == [as EXCEPT ![h] = [x \in Slot |-> IF x \in xs THEN None ELSE as[h][x]]]

(* freevm(): user pages, page tables, page directory. *)
Freevm(h) == Frames(h, Dealloc(KERNBASE, 0) \cup {Tab(i) : i \in Pdx} \cup {Dir})

(***************************************************************************)
(* kalloc() and mappages() of one user page at a: walkpgdir() may need a   *)
(* page table too.  Room(h, a) says whether there is memory for both; if   *)
(* not, what was allocated is freed again.                                 *)
(***************************************************************************)
Pgtab(a) == Tab(a \div (PGSIZE * NPTENTRIES))
Pte(a) == Map(a \div PGSIZE)

Room(h, a) ==
  \E mem \in Kalloc(free) : as[h][Pgtab(a)] = None => Kalloc(free \ {mem}) # {}

Mappages(h, a) ==
  \E mem \in Kalloc(free) :
    IF as[h][Pgtab(a)] # None
    THEN /\ free' = free \ {mem}
         /\ as' = [as EXCEPT ![h] = [as[h] EXCEPT ![Pte(a)] = mem]]
    ELSE \E pgtab \in Kalloc(free \ {mem}) :
           /\ free' = free \ {mem, pgtab}
           /\ as' = [as EXCEPT ![h] = [as[h] EXCEPT ![Pte(a)] = mem, ![Pgtab(a)] = pgtab]]

(* setupkvm(): the directory and the kernel's table, or neither. *)
CanSetupkvm == \E d \in Kalloc(free) : Kalloc(free \ {d}) # {}
Setupkvm(h) ==
  \E d \in Kalloc(free) : \E t \in Kalloc(free \ {d}) :
    /\ free' = free \ {d, t}
    /\ as' = [as EXCEPT ![h] = [NoSpace EXCEPT ![Dir] = d, ![Tab(KernelTable)] = t]]

Goto(p, there) == pc' = [pc EXCEPT ![p] = there]

(* A process that runs user code, so its memory is there (see growproc). *)
InUser(p) == state[p] = "LIVE" /\ pc[p] = "user" /\ Present(Cur(p)) # {}

--------------------------------------------------------------------------------
(* allocuvm(), called for growproc, for a segment or for the stack. *)
Target(p) == IF job[p].for = "sbrk" THEN Cur(p) ELSE New(p)

(* goto bad: all that matters then is whether the file is still open. *)
Bad(p) ==
  /\ Goto(p, "bad")
  /\ job' = [job EXCEPT ![p] = [NoJob EXCEPT !.for = job[p].for]]

AllocFails(p) ==
  IF job[p].for = "sbrk" THEN Goto(p, "user") /\ job' = [job EXCEPT ![p] = NoJob]
                         ELSE Bad(p)

(* Out of memory: deallocuvm(pgdir, newsz, oldsz). *)
AllocPage(p) ==
  LET h == Target(p)
      j == job[p] IN
  /\ pc[p] = "allocuvm"
  /\ j.newsz < KERNBASE /\ j.a < j.newsz
  /\ IF ~ Room(h, j.a)
     THEN /\ free' = free \cup Frames(h, Dealloc(j.newsz, j.oldsz))
          /\ as' = Cleared(h, Dealloc(j.newsz, j.oldsz))
          /\ AllocFails(p)
     ELSE IF as[h][Pte(j.a)] # None THEN Goto(p, "panic") /\ UNCHANGED <<free, as, job>>
     ELSE /\ Mappages(h, j.a)
          /\ job' = [job EXCEPT ![p].a = @ + PGSIZE]
          /\ UNCHANGED pc
  /\ UNCHANGED <<state, kstack, sz, txn>>

(* allocuvm() returns, 0 meaning failure. *)
AllocRet(j) == IF j.newsz >= KERNBASE THEN 0 ELSE IF j.newsz < j.oldsz THEN j.oldsz ELSE j.newsz

AllocDone(p) ==
  LET j == job[p]
      ret == AllocRet(j) IN
  /\ pc[p] = "allocuvm"
  /\ j.newsz >= KERNBASE \/ j.a >= j.newsz
  /\ IF ret = 0 THEN AllocFails(p)
     ELSE IF j.for = "sbrk" THEN Goto(p, "user") /\ job' = [job EXCEPT ![p] = NoJob]
     ELSE /\ Goto(p, IF j.for = "seg" THEN "loaduvm" ELSE "args")
          /\ job' = [job EXCEPT ![p].newsz = ret]
  /\ sz' = IF ret # 0 /\ j.for = "sbrk" THEN [sz EXCEPT ![p] = ret] ELSE sz
  /\ UNCHANGED <<free, state, kstack, as, txn>>

Call(p, for, oldsz, newsz, segs) ==
  /\ job' = [job EXCEPT ![p] = [a |-> PGROUNDUP(oldsz), oldsz |-> oldsz, newsz |-> newsz,
                                for |-> for, segs |-> segs, child |-> NoProc]]
  /\ Goto(p, "allocuvm")

(***************************************************************************)
(* sys_sbrk(), growproc(n), with n a uint.  deallocuvm() returns the new   *)
(* size: when that is 0, growproc() takes it for a failure, with the pages *)
(* gone and p->sz as before.                                               *)
(***************************************************************************)
SbrkMore(p, n) ==
  /\ InUser(p) /\ 0 < n /\ n < UINT \div 2
  /\ Call(p, "sbrk", sz[p], sz[p] + n, <<>>)
  /\ UNCHANGED <<free, state, kstack, as, sz, txn>>

SbrkLess(p, n) ==
  LET newsz == (sz[p] + n) % UINT
      xs == IF newsz >= sz[p] THEN {} ELSE Dealloc(sz[p], newsz) IN
  /\ InUser(p) /\ UINT \div 2 <= n
  /\ free' = free \cup Frames(Cur(p), xs)
  /\ as' = Cleared(Cur(p), xs)
  /\ sz' = IF newsz = 0 \/ newsz >= sz[p] THEN sz ELSE [sz EXCEPT ![p] = newsz]
  /\ UNCHANGED <<state, kstack, pc, job, txn>>

--------------------------------------------------------------------------------
(* exec(): begin_op(), namei(), ilock(), the ELF header, setupkvm(). *)
Exec(p, segs) ==
  /\ InUser(p)
  /\ txn' = [txn EXCEPT ![p] = 1]
  /\ \/ Bad(p) /\ UNCHANGED <<free, as>>               \* no ELF file, or no memory
     \/ /\ Setupkvm(New(p))
        /\ job' = [job EXCEPT ![p].segs = segs]
        /\ Goto(p, "segments")
  /\ UNCHANGED <<state, kstack, sz>>

(* The loop over the program headers, up to allocuvm(). *)
ExecSegment(p) ==
  LET ph == Head(job[p].segs) IN
  /\ pc[p] = "segments" /\ job[p].segs # <<>>
  /\ \/ Bad(p)                                         \* a short read, or malformed
     \/ /\ ph.memsz >= ph.filesz /\ (ph.vaddr + ph.memsz) % UINT >= ph.vaddr
        /\ Call(p, "seg", job[p].newsz, ph.vaddr + ph.memsz, job[p].segs)
  /\ UNCHANGED <<free, state, kstack, as, sz, txn>>

(* loaduvm(): vaddr must be aligned, and readi() may be short. *)
ExecLoad(p) ==
  LET ph == Head(job[p].segs)
      pages == {v \in VPage : ph.vaddr <= v * PGSIZE /\ v * PGSIZE < ph.vaddr + ph.filesz} IN
  /\ pc[p] = "loaduvm"
  /\ \/ Bad(p)
     \/ /\ ph.vaddr % PGSIZE = 0
        /\ Goto(p, IF pages \subseteq Present(New(p)) THEN "segments" ELSE "panic")
        /\ job' = [job EXCEPT ![p].segs = Tail(@)]
  /\ UNCHANGED <<free, state, kstack, as, sz, txn>>

(* iunlockput(ip), end_op(), and allocuvm() of the guard page and stack. *)
ExecStack(p) ==
  /\ pc[p] = "segments" /\ job[p].segs = <<>>
  /\ txn' = [txn EXCEPT ![p] = @ - 1]
  /\ LET top == PGROUNDUP(job[p].newsz) IN Call(p, "stack", top, top + 2 * PGSIZE, <<>>)
  /\ UNCHANGED <<free, state, kstack, as, sz>>

(* The arguments do not fit, or the new image replaces the old one. *)
ExecCommit(p) ==
  /\ pc[p] = "args"
  /\ \/ Bad(p) /\ UNCHANGED <<free, as, sz>>
     \/ /\ free' = free \cup Freevm(Cur(p))
        /\ as' = [as EXCEPT ![Cur(p)] = as[New(p)], ![New(p)] = NoSpace]
        /\ sz' = [sz EXCEPT ![p] = job[p].newsz]
        /\ job' = [job EXCEPT ![p] = NoJob]
        /\ Goto(p, "user")
  /\ UNCHANGED <<state, kstack, txn>>

BugExecBad(p) ==
  /\ pc[p] = "bad"
  /\ free' = free \cup Freevm(New(p))
  /\ as' = [as EXCEPT ![New(p)] = NoSpace]
  /\ txn' = [txn EXCEPT ![p] = IF job[p].for = "seg" THEN @ - 1 ELSE @]
  /\ job' = [job EXCEPT ![p] = NoJob]
  /\ Goto(p, "user")
  /\ UNCHANGED <<state, kstack, sz>>

(* "bad": ip is 0 once the program is loaded. *)
ExecBad(p) ==
  /\ pc[p] = "bad"
  /\ free' = free \cup Freevm(New(p))
  /\ as' = [as EXCEPT ![New(p)] = NoSpace]
  /\ txn' = [txn EXCEPT ![p] = IF job[p].for = "stack" THEN @ ELSE @ - 1]
  /\ job' = [job EXCEPT ![p] = NoJob]
  /\ Goto(p, "user")
  /\ UNCHANGED <<state, kstack, sz>>

--------------------------------------------------------------------------------
(* fork(): allocproc(). *)
Fork(p, q) ==
  /\ InUser(p) /\ state[q] = "UNUSED"
  /\ \E mem \in Kalloc(free) :
       /\ free' = free \ {mem}
       /\ kstack' = [kstack EXCEPT ![q] = mem]
  /\ state' = [state EXCEPT ![q] = "EMBRYO"]
  /\ job' = [job EXCEPT ![p].child = q]
  /\ Goto(p, "copyuvm")
  /\ UNCHANGED <<as, sz, txn>>

BugForkFails(p, q) ==
  /\ free' = free \cup Freevm(New(p))
  /\ as' = [as EXCEPT ![New(p)] = NoSpace]
  /\ kstack' = [kstack EXCEPT ![q] = None]
  /\ state' = [state EXCEPT ![q] = "UNUSED"]
  /\ job' = [job EXCEPT ![p] = NoJob]
  /\ Goto(p, "user")
  /\ UNCHANGED sz

(* copyuvm() has run out of memory: freevm(), kfree(np->kstack). *)
ForkFails(p, q) ==
  /\ free' = free \cup Freevm(New(p)) \cup {kstack[q]}
  /\ as' = [as EXCEPT ![New(p)] = NoSpace]
  /\ kstack' = [kstack EXCEPT ![q] = None]
  /\ state' = [state EXCEPT ![q] = "UNUSED"]
  /\ job' = [job EXCEPT ![p] = NoJob]
  /\ Goto(p, "user")
  /\ UNCHANGED sz

(* copyuvm() starts with setupkvm(). *)
CopySetup(p) ==
  /\ pc[p] = "copyuvm" /\ as[New(p)] = NoSpace
  /\ IF ~ CanSetupkvm THEN ForkFails(p, job[p].child)
     ELSE Setupkvm(New(p)) /\ UNCHANGED <<state, kstack, sz, pc, job>>
  /\ UNCHANGED txn

(* One turn of copyuvm(). *)
CopyPage(p) ==
  LET a == job[p].a IN
  /\ pc[p] = "copyuvm" /\ as[New(p)] # NoSpace /\ a < sz[p]
  /\ IF as[Cur(p)][Pte(a)] = None
     THEN Goto(p, "panic") /\ UNCHANGED <<free, state, kstack, as, sz, job>>
     ELSE IF ~ Room(New(p), a) THEN ForkFails(p, job[p].child)
     ELSE /\ Mappages(New(p), a)
          /\ job' = [job EXCEPT ![p].a = @ + PGSIZE]
          /\ UNCHANGED <<state, kstack, sz, pc>>
  /\ UNCHANGED txn

(* The rest of fork(). *)
ForkDone(p) ==
  LET q == job[p].child IN
  /\ pc[p] = "copyuvm" /\ as[New(p)] # NoSpace /\ job[p].a >= sz[p]
  /\ as' = [as EXCEPT ![Cur(q)] = as[New(p)], ![New(p)] = NoSpace]
  /\ sz' = [sz EXCEPT ![q] = sz[p]]
  /\ state' = [state EXCEPT ![q] = "LIVE"]
  /\ job' = [job EXCEPT ![p] = NoJob]
  /\ Goto(p, "user")
  /\ UNCHANGED <<free, kstack, txn>>

(* exit(), called or after a page fault; init must not. *)
Exit(p) ==
  /\ state[p] = "LIVE" /\ pc[p] = "user" /\ p # initproc
  /\ state' = [state EXCEPT ![p] = "ZOMBIE"]
  /\ UNCHANGED <<free, kstack, as, sz, pc, job, txn>>

(* wait() of q's parent p. *)
Wait(p, q) ==
  /\ InUser(p) /\ state[q] = "ZOMBIE"
  /\ free' = free \cup Freevm(Cur(q)) \cup {kstack[q]}
  /\ as' = [as EXCEPT ![Cur(q)] = NoSpace]
  /\ kstack' = [kstack EXCEPT ![q] = None]
  /\ sz' = [sz EXCEPT ![q] = 0]
  /\ state' = [state EXCEPT ![q] = "UNUSED"]
  /\ UNCHANGED <<pc, job, txn>>

--------------------------------------------------------------------------------
Next ==
  \E p \in Proc :
    \/ \E n \in Sbrk : SbrkMore(p, n) \/ SbrkLess(p, n)
    \/ AllocPage(p) \/ AllocDone(p)
    \/ \E segs \in Program : Exec(p, segs)
    \/ ExecSegment(p) \/ ExecLoad(p) \/ ExecStack(p) \/ ExecCommit(p) \/ ExecBad(p)
    \/ \E q \in Proc : Fork(p, q) \/ Wait(p, q)
    \/ CopySetup(p) \/ CopyPage(p) \/ ForkDone(p) \/ Exit(p)

Spec == Init /\ [][Next]_vars

--------------------------------------------------------------------------------
(***************************************************************************)
(* Every page of memory is on the free list, or in exactly one slot of one *)
(* address space, or a kernel stack: none is lost and none is freed twice, *)
(* wherever fork(), exec(), sbrk() run out of memory (vm.c:237, 243, 336,  *)
(* 343, exec.c:106, proc.c:194).                                           *)
(***************************************************************************)
PagesOwnedOnce ==
  /\ \A m \in Memory : \/ m \in free
                       \/ \E p \in Proc : kstack[p] = m
                       \/ \E h \in Space, x \in Slot : as[h][x] = m
  /\ \A p \in Proc : kstack[p] # None =>
       kstack[p] \notin free /\ \A q \in Proc : kstack[q] = kstack[p] => q = p
  /\ \A h \in Space, x \in Slot : as[h][x] # None =>
       /\ as[h][x] \notin free
       /\ \A q \in Proc : kstack[q] # as[h][x]
       /\ \A g \in Space, y \in Slot : as[g][y] = as[h][x] => g = h /\ y = x

(* fetchint(), argptr(): the units of memory the kernel goes on to use. *)
Fetchint(addr, size) ==
  IF addr >= size \/ (addr + 1) % UINT > size THEN {} ELSE {addr}
Argptr(i, n, size) ==
  IF i >= size \/ (i + n) % UINT > size THEN {} ELSE i .. i + n - 1

(***************************************************************************)
(* In user mode a process has exactly the pages of its p->sz, so that      *)
(* every address that fetchint() and argptr() (syscall.c:20, 59) accept is *)
(* mapped, after any sequence of fork, exec and sbrk, failed ones          *)
(* included.  The exception is the code's: after growproc(-p->sz) it has   *)
(* no pages at all (proc.c:169).                                           *)
(***************************************************************************)
ArgsMapped ==
  \A p \in Proc : state[p] = "LIVE" /\ pc[p] = "user" =>
    \/ Present(Cur(p)) = {}
    \/ /\ Present(Cur(p)) = {v \in VPage : v * PGSIZE < sz[p]}
       /\ \A addr \in 0 .. UINT - 1, n \in 0 .. UINT \div 2 - 1 :
            \A x \in Fetchint(addr, sz[p]) \cup Argptr(addr, n, sz[p]) :
              x \div PGSIZE \in Present(Cur(p))

(***************************************************************************)
(* The panics of mappages(), loaduvm() and copyuvm() about pages that are  *)
(* or are not mapped (vm.c:72, 207, 327-329) are not reached, and exec()   *)
(* gives back the inode and the transaction exactly once on every path     *)
(* (exec.c:59, 106-112).                                                   *)
(***************************************************************************)
ExecBalanced ==
  \A p \in Proc : /\ pc[p] # "panic"
                  /\ txn[p] \in {0, 1}
                  /\ pc[p] = "user" => txn[p] = 0 /\ as[New(p)] = NoSpace
================================================================================
