---------------------------------- MODULE Pipe ----------------------------------
(***************************************************************************)
(* Descriptors, the file table and pipes: the fd calls of sysfile.c,       *)
(* file.c, pipe.c, with what fork(), exit() and kill() of proc.c do to     *)
(* them.                                                                   *)
(*                                                                         *)
(* A critical section of ftable.lock or p->lock is one step.  Bytes are    *)
(* numbered modulo Byte as they are written, so that order and loss show.  *)
(* Counters are uints, modulo UINT.                                        *)
(*                                                                         *)
(* The operators named Bug... are plausible mistakes in the definition     *)
(* that follows them; no specification uses them.                          *)
(***************************************************************************)
EXTENDS Naturals, FiniteSets

CONSTANTS
  Proc, Pipe,       \* processes; pages kalloc() can make a pipe of
  NFILE, NOFILE,    \* param.h: files of the system, descriptors of a process
  PIPESIZE,         \* pipe.c: bytes in the ring
  UINT,             \* 2^32: the range of nread and nwrite
  Byte,             \* the range of byte numbers
  Sizes,            \* byte counts of the reads and writes (bound)
  NoPipe

ASSUME PipeAssumption ==
  /\ {NFILE, NOFILE, PIPESIZE, UINT, Byte} \cup Sizes \subseteq Nat
  /\ 0 < NFILE /\ 0 < NOFILE
  /\ 0 < PIPESIZE /\ PIPESIZE < UINT /\ UINT % PIPESIZE = 0
  /\ PIPESIZE < Byte
  /\ NoPipe \notin Pipe
  /\ IsFiniteSet(Proc)

File == 1 .. NFILE      \* ftable.file
Fd == 0 .. NOFILE - 1
NoFile == 0
End == {"read", "write"}

VARIABLES
  live, killed,  \* processes there are, and those with p->killed
  ofile,         \* p->ofile
  file,          \* struct file: ref, type, pipe and which end of it
  page,          \* pages that are pipes
  pipe,          \* struct pipe: the open ends and the ring; history: the byte
                 \* numbers written and read
  quiet,         \* pipes where a writer that gave up left bytes without wakeup
  pc,            \* where each process is in the kernel
  op,            \* the pipe, the end and the bytes left of a read or write
  local          \* rf and wf of sys_pipe(), the f of sys_close(): files not in ofile

vars == <<live, killed, ofile, file, page, pipe, quiet, pc, op, local>>

Freed == [ref |-> 0, type |-> "none", end |-> "", pipe |-> NoPipe]
NoRing == [open |-> {}, nread |-> 0, nwrite |-> 0, data |-> [i \in 0 .. PIPESIZE - 1 |-> 0],
           sent |-> 0, seen |-> 0]
NoOp == [pipe |-> NoPipe, end |-> "", n |-> 0]

(* One process, with a device open as descriptor 0. *)
Init ==
  /\ killed = {}
  /\ \E p \in Proc :
       /\ live = {p}
       /\ ofile = [q \in Proc |-> [fd \in Fd |-> IF q = p /\ fd = 0 THEN 1 ELSE NoFile]]
  /\ file = [f \in File |-> IF f = 1 THEN [Freed EXCEPT !.ref = 1, !.type = "inode"]
                            ELSE Freed]
  /\ page = {} /\ quiet = {}
  /\ pipe = [i \in Pipe |-> NoRing]
  /\ pc = [p \in Proc |-> "user"]
  /\ op = [p \in Proc |-> NoOp]
  /\ local = [p \in Proc |-> [k \in 1 .. 2 |-> NoFile]]

--------------------------------------------------------------------------------
Goto(p, there) == pc' = [pc EXCEPT ![p] = there]

(* A system call of a process that was not killed when it trapped. *)
InUser(p) == p \in live /\ p \notin killed /\ pc[p] = "user"

(* fdalloc() and filealloc() take the first that is free. *)
FreeFd(p) == {fd \in Fd : ofile[p][fd] = NoFile /\ \A d \in Fd : d < fd => ofile[p][d] # NoFile}
FreeFile == {f \in File : file[f].ref = 0 /\ \A g \in File : g < f => file[g].ref > 0}

(* sys_dup(): fdalloc() and filedup(). *)
SysDup(p, fd) ==
  /\ InUser(p)
  /\ ofile[p][fd] # NoFile
  /\ \E new \in FreeFd(p) :
       /\ ofile' = [ofile EXCEPT ![p][new] = ofile[p][fd]]
       /\ file' = [file EXCEPT ![ofile[p][fd]].ref = @ + 1]
  /\ UNCHANGED <<live, killed, page, pipe, quiet, pc, op, local>>

(* sys_close(): the descriptor is free before the file is closed. *)
SysClose(p, fd) ==
  /\ InUser(p)
  /\ ofile[p][fd] # NoFile
  /\ ofile' = [ofile EXCEPT ![p][fd] = NoFile]
  /\ local' = [local EXCEPT ![p][1] = ofile[p][fd]]
  /\ Goto(p, "fileclose")
  /\ UNCHANGED <<live, killed, file, page, pipe, quiet, op>>

Count(f, p) == Cardinality({fd \in Fd : ofile[p][fd] = f})

BugFork(p, q) ==
  /\ InUser(p) /\ q \notin live /\ pc[q] = "user"
  /\ live' = live \cup {q}
  /\ ofile' = [ofile EXCEPT ![q] = ofile[p]]
  /\ file' = [f \in File |-> IF Count(f, p) > 0
                             THEN [file[f] EXCEPT !.ref = @ + 1] ELSE file[f]]
  /\ UNCHANGED <<killed, page, pipe, quiet, pc, op, local>>

(* fork(): the child shares every open file.  One step: the parent's own   *)
(* references keep the counts of the loop positive.                        *)
Fork(p, q) ==
  /\ InUser(p) /\ q \notin live /\ pc[q] = "user"
  /\ live' = live \cup {q}
  /\ ofile' = [ofile EXCEPT ![q] = ofile[p]]
  /\ file' = [f \in File |-> [file[f] EXCEPT !.ref = @ + Count(f, p)]]
  /\ UNCHANGED <<killed, page, pipe, quiet, pc, op, local>>

LastClose(f) == file[f].ref = 1

(* fileclose(f) up to release(&ftable.lock); the last close copies *f, and   *)
(* nothing reads the other fields of a file of type FD_NONE.                 *)
FileClose(p, f, return) ==
  /\ IF LastClose(f)
     THEN /\ file' = [file EXCEPT ![f] = Freed]
          /\ op' = [op EXCEPT ![p] = [pipe |-> file[f].pipe, end |-> file[f].end, n |-> 0]]
     ELSE /\ file' = [file EXCEPT ![f].ref = @ - 1]
          /\ UNCHANGED op
  /\ Goto(p, CASE file[f].ref < 1 -> "panic"
               [] LastClose(f) /\ file[f].type = "pipe" -> "pipeclose"
               [] OTHER -> return)
  /\ UNCHANGED <<live, killed, page, pipe, quiet>>

(* fileclose() in sys_close() and in a pipe() that failed. *)
CloseLocal(p) ==
  /\ pc[p] = "fileclose"
  /\ \E k \in 1 .. 2 :
       /\ local[p][k] # NoFile /\ (k = 2 => local[p][1] = NoFile)
       /\ FileClose(p, local[p][k], IF k = 1 /\ local[p][2] # NoFile THEN "fileclose" ELSE "user")
       /\ local' = [local EXCEPT ![p][k] = NoFile]
  /\ UNCHANGED ofile

(* exit(), by itself or on the way back to user space when killed. *)
Exit(p) ==
  /\ p \in live /\ pc[p] = "user"
  /\ live' = live \ {p}
  /\ killed' = killed \ {p}
  /\ Goto(p, "exit")
  /\ UNCHANGED <<ofile, file, page, pipe, quiet, op, local>>

(* exit() closes the files in the order of the descriptors; then the       *)
(* process is a zombie and wait() frees its slot.                          *)
ExitClose(p) ==
  /\ pc[p] = "exit"
  /\ \/ \E fd \in Fd :
          /\ ofile[p][fd] # NoFile /\ \A d \in Fd : d < fd => ofile[p][d] = NoFile
          /\ FileClose(p, ofile[p][fd], "exit")
          /\ ofile' = [ofile EXCEPT ![p][fd] = NoFile]
     \/ /\ \A fd \in Fd : ofile[p][fd] = NoFile
        /\ Goto(p, "user")
        /\ UNCHANGED <<live, killed, ofile, file, page, pipe, quiet, op>>
  /\ UNCHANGED local

--------------------------------------------------------------------------------
(* wakeup() of those that sleep at an end of i, while p goes on. *)
Wakeup(i, end, p, there) ==
  pc' = [q \in Proc |-> IF q = p THEN there
                        ELSE IF pc[q] = "sleep" /\ op[q].pipe = i /\ op[q].end = end THEN "io"
                        ELSE pc[q]]

(* p->lock is held from the check of killed to the sleep. *)
Unlocked(i) == \A q \in Proc : op[q].pipe = i => pc[q] # "tosleep"

AfterClose(p) ==
  IF local[p][2] # NoFile THEN "fileclose" ELSE IF p \in live THEN "user" ELSE "exit"

BugPipeClose(p) ==
  /\ pc[p] = "pipeclose"
  /\ LET i == op[p].pipe
         left == pipe[i].open \ {op[p].end} IN
       /\ Unlocked(i)
       /\ pipe' = [pipe EXCEPT ![i] = IF left = {} THEN NoRing ELSE [pipe[i] EXCEPT !.open = left]]
       /\ page' = IF left = {} THEN page \ {i} ELSE page
       /\ quiet' = IF left = {} THEN quiet \ {i} ELSE quiet
       /\ Wakeup(i, "write", p, AfterClose(p))
  /\ op' = [op EXCEPT ![p] = NoOp]
  /\ UNCHANGED <<live, killed, ofile, file, local>>

(* pipeclose(p, writable), with kfree() when both ends are closed; the     *)
(* other end is woken.                                                     *)
PipeClose(p) ==
  /\ pc[p] = "pipeclose"
  /\ LET i == op[p].pipe
         left == pipe[i].open \ {op[p].end} IN
       /\ Unlocked(i)
       /\ pipe' = [pipe EXCEPT ![i] = IF left = {} THEN NoRing ELSE [pipe[i] EXCEPT !.open = left]]
       /\ page' = IF left = {} THEN page \ {i} ELSE page
       /\ quiet' = IF left = {} THEN quiet \ {i} ELSE quiet
       /\ Wakeup(i, IF op[p].end = "write" THEN "read" ELSE "write", p, AfterClose(p))
  /\ op' = [op EXCEPT ![p] = NoOp]
  /\ UNCHANGED <<live, killed, ofile, file, local>>

(* sys_pipe(), pipealloc(): one filealloc(), twice; on failure the files so *)
(* far are closed.                                                          *)
FileAlloc(p, k) ==
  /\ IF k = 1 THEN InUser(p) ELSE pc[p] = "pipealloc"
  /\ \/ \E f \in FreeFile :
          /\ file' = [file EXCEPT ![f] = [Freed EXCEPT !.ref = 1]]
          /\ local' = [local EXCEPT ![p][k] = f]
          /\ Goto(p, IF k = 1 THEN "pipealloc" ELSE "kalloc")
     \/ /\ FreeFile = {}
        /\ Goto(p, IF k = 1 THEN "user" ELSE "fileclose")
        /\ UNCHANGED <<file, local>>
  /\ UNCHANGED <<live, killed, ofile, page, pipe, quiet, op>>

(* The rest: kalloc() may fail, and so may each fdalloc(). *)
PipeAlloc(p) ==
  /\ pc[p] = "kalloc"
  /\ \/ /\ Goto(p, "fileclose")
        /\ UNCHANGED <<ofile, file, page, pipe, local>>
     \/ \E i \in Pipe :
          LET rf == local[p][1]
              wf == local[p][2]
              fds == {fd \in Fd : ofile[p][fd] = NoFile}
              first(fd0, fd1) == /\ fd0 \in fds /\ fd1 \in fds /\ fd0 < fd1
                                 /\ \A fd \in fds : fd <= fd1 => fd \in {fd0, fd1} IN
          /\ i \notin page /\ page' = page \cup {i}
          /\ pipe' = [pipe EXCEPT ![i] = [NoRing EXCEPT !.open = End]]
          /\ file' = [file EXCEPT
               ![rf] = [ref |-> 1, type |-> "pipe", end |-> "read", pipe |-> i],
               ![wf] = [ref |-> 1, type |-> "pipe", end |-> "write", pipe |-> i]]
          /\ \/ \E fd0 \in Fd, fd1 \in Fd :
                  /\ first(fd0, fd1)
                  /\ ofile' = [ofile EXCEPT ![p] = [@ EXCEPT ![fd0] = rf, ![fd1] = wf]]
                  /\ local' = [local EXCEPT ![p] = [k \in 1 .. 2 |-> NoFile]]
                  /\ Goto(p, "user")
             \/ /\ \A fd0 \in Fd, fd1 \in Fd : ~ first(fd0, fd1)
                /\ Goto(p, "fileclose")
                /\ UNCHANGED <<ofile, local>>
  /\ UNCHANGED <<live, killed, quiet, op>>

--------------------------------------------------------------------------------
(* sys_read(), fileread(), and sys_write(), filewrite(), up to p->lock; with *)
(* a descriptor of the other end they return -1.                             *)
SysReadWrite(p, fd, n) ==
  /\ InUser(p)
  /\ ofile[p][fd] # NoFile
  /\ LET f == file[ofile[p][fd]] IN
       /\ f.type = "pipe"
       /\ op' = [op EXCEPT ![p] = [pipe |-> f.pipe, end |-> f.end, n |-> n]]
  /\ Goto(p, "io")
  /\ UNCHANGED <<live, killed, ofile, file, page, pipe, quiet, local>>

Least(m, n) == IF m < n THEN m ELSE n

Held(r) == (r.nwrite + UINT - r.nread) % UINT

BugRoom(r) == (r.nread + PIPESIZE + 1 + UINT - r.nwrite) % UINT

(* Bytes that pipewrite() stores before nwrite == nread + PIPESIZE. *)
Room(r) == (r.nread + PIPESIZE + UINT - r.nwrite) % UINT

(* The ring with k bytes stored; the t-th goes to (nwrite + t) % PIPESIZE. *)
Stored(r, k) ==
  LET nth(j) == (j + UINT - r.nwrite) % PIPESIZE IN
  [r EXCEPT !.nwrite = (@ + k) % UINT,
            !.data = [j \in 0 .. PIPESIZE - 1 |-> IF nth(j) < k THEN (r.sent + nth(j)) % Byte
                                                  ELSE r.data[j]],
            !.sent = (@ + k) % Byte]

(* The ring with k bytes read. *)
Taken(r, k) == [r EXCEPT !.nread = (@ + k) % UINT, !.seen = (@ + k) % Byte]

(* pipewrite() from acquire(&p->lock) to its return or its sleep.  When it  *)
(* gives up it wakes nobody, whatever it has stored.                         *)
PipeWrite(p) ==
  /\ pc[p] = "io" /\ op[p].end = "write"
  /\ LET i == op[p].pipe
         k == Least(op[p].n, Room(pipe[i]))
         more == k < op[p].n
         giveup == more /\ ("read" \notin pipe[i].open \/ p \in killed) IN
       /\ Unlocked(i)
       /\ pipe' = [pipe EXCEPT ![i] = Stored(@, k)]
       /\ quiet' = IF ~ giveup THEN quiet \ {i} ELSE IF k > 0 THEN quiet \cup {i} ELSE quiet
       /\ op' = [op EXCEPT ![p] = IF more /\ ~ giveup THEN [op[p] EXCEPT !.n = op[p].n - k] ELSE NoOp]
       /\ IF giveup THEN Goto(p, "user")
          ELSE Wakeup(i, "read", p, IF more THEN "tosleep" ELSE "user")
  /\ UNCHANGED <<live, killed, ofile, file, page, local>>

(* piperead(), likewise. *)
PipeRead(p) ==
  /\ pc[p] = "io" /\ op[p].end = "read"
  /\ LET i == op[p].pipe
         r == pipe[i]
         k == Least(op[p].n, Held(r)) IN
       /\ Unlocked(i)
       /\ IF r.nread = r.nwrite /\ "write" \in r.open
          THEN /\ Goto(p, IF p \in killed THEN "user" ELSE "tosleep")
               /\ op' = IF p \in killed THEN [op EXCEPT ![p] = NoOp] ELSE op
               /\ UNCHANGED <<pipe, quiet>>
          ELSE /\ pipe' = [pipe EXCEPT ![i] = Taken(@, k)]
               /\ quiet' = IF k < Held(r) THEN quiet ELSE quiet \ {i}
               /\ op' = [op EXCEPT ![p] = NoOp]
               /\ Wakeup(i, "write", p, "user")
  /\ UNCHANGED <<live, killed, ofile, file, page, local>>

(* sleep(), which gives up p->lock. *)
Sleep(p) ==
  /\ pc[p] = "tosleep" /\ Goto(p, "sleep")
  /\ UNCHANGED <<live, killed, ofile, file, page, pipe, quiet, op, local>>

(* kill(): a process that sleeps is woken. *)
Kill(p) ==
  /\ p \in live \ killed
  /\ killed' = killed \cup {p}
  /\ Goto(p, IF pc[p] = "sleep" THEN "io" ELSE pc[p])
  /\ UNCHANGED <<live, ofile, file, page, pipe, quiet, op, local>>

--------------------------------------------------------------------------------
Next ==
  \E p \in Proc :
    \/ \E fd \in Fd : SysDup(p, fd) \/ SysClose(p, fd)
    \/ \E fd \in Fd, n \in Sizes : SysReadWrite(p, fd, n)
    \/ \E q \in Proc : Fork(p, q)
    \/ \E k \in 1 .. 2 : FileAlloc(p, k)
    \/ PipeAlloc(p)
    \/ CloseLocal(p) \/ PipeClose(p)
    \/ PipeRead(p) \/ PipeWrite(p) \/ Sleep(p)
    \/ Exit(p) \/ ExitClose(p) \/ Kill(p)

Spec == Init /\ [][Next]_vars

--------------------------------------------------------------------------------
(* The places of a table that refer to f. *)
Refs(table, places, f) == {x \in Proc \X places : table[x[1]][x[2]] = f}

(* An end is open in a file, or in the hands of its last fileclose(). *)
EndOpen(i, end) ==
  \/ \E f \in File : file[f].ref > 0 /\ file[f].pipe = i /\ file[f].end = end
  \/ \E p \in Proc : pc[p] = "pipeclose" /\ op[p].pipe = i /\ op[p].end = end

(***************************************************************************)
(* Reference counts are exact through dup, fork, exit, failed pipe() and   *)
(* concurrent closes (file.c:56-80), so a pipe's ends are open as long as  *)
(* somebody has them and its page is freed once, after the last use        *)
(* (pipe.c:59-75): nobody reads or writes a freed pipe.                    *)
(***************************************************************************)
FilesSound ==
  /\ \A f \in File : file[f].ref = Cardinality(Refs(ofile, Fd, f)) + Cardinality(Refs(local, 1 .. 2, f))
  /\ \A i \in Pipe : /\ pipe[i].open = {end \in End : EndOpen(i, end)}
                     /\ i \in page <=> pipe[i].open # {}
  /\ \A p \in Proc : pc[p] # "panic" /\ (op[p].pipe # NoPipe => op[p].pipe \in page)

(***************************************************************************)
(* The ring holds exactly the bytes written and not yet read, in order,    *)
(* also when nread and nwrite have wrapped around (pipe.c:93, 116).        *)
(***************************************************************************)
InOrder ==
  \A i \in Pipe : LET r == pipe[i] IN
    /\ Held(r) <= PIPESIZE
    /\ (r.seen + Held(r)) % Byte = r.sent
    /\ \A k \in 0 .. Held(r) - 1 :
         r.data[(r.nread + k) % PIPESIZE] = (r.seen + k) % Byte

(***************************************************************************)
(* A reader sleeps only while the pipe is empty and has a writer, a writer *)
(* only while it is full and has a reader (pipe.c:85, 106): no byte, no    *)
(* room and no close goes unnoticed, in whatever order they come.  One     *)
(* exception is the code's: a writer that fills the pipe and finds itself  *)
(* killed returns without wakeup(&p->nread) (pipe.c:86-89).                *)
(***************************************************************************)
SleepJustified ==
  \A p \in Proc : pc[p] = "sleep" =>
    LET i == op[p].pipe
        r == pipe[i] IN
    IF op[p].end = "read" THEN "write" \in r.open /\ (r.nread = r.nwrite \/ i \in quiet)
    ELSE "read" \in r.open /\ Held(r) = PIPESIZE
================================================================================
