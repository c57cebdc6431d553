----------------------------------- MODULE Fs -----------------------------------
(***************************************************************************)
(* Inodes, directories and path names: the inode cache of fs.c and the     *)
(* system calls of sysfile.c that look up, make and remove names.          *)
(*                                                                         *)
(* A cache entry is named by its inode, NINODE being large enough.  What a *)
(* process does between taking a sleep lock and its next wait is one step, *)
(* and so is what it does under a lock it releases again: only the locks'  *)
(* holders read or write what they protect.  iput() is where the code lets *)
(* go of locks and counts one by one, and takes up to three steps.         *)
(* Transactions and the blocks of directories are in Log and Data.         *)
(*                                                                         *)
(* The operators named Bug... are plausible mistakes in the definition     *)
(* that follows them; no specification uses them.                          *)
(***************************************************************************)
EXTENDS Naturals, FiniteSets, Sequences

CONSTANTS
  Proc, NoProc,
  NINODES,             \* sb.ninodes: inode numbers are 1 .. NINODES - 1
  Name,                \* the names other than "." and ".."
  Request              \* the system calls made, with their path names (bound)

Dots == {".", ".."}
Path == [abs : BOOLEAN, names : Seq(Name \cup Dots)]

ROOTINO == 1
Inum == 1 .. NINODES - 1
None == 0
T_DIR == 1
T_FILE == 2
T_DEV == 3

ASSUME FsAssumption ==
  /\ NINODES \in Nat /\ NINODES >= 2
  /\ IsFiniteSet(Proc) /\ NoProc \notin Proc /\ IsFiniteSet(Name) /\ Name \cap Dots = {}
  /\ Request \subseteq [call : {"open", "creat", "mkdir", "mknod", "unlink", "link", "chdir"},
                         path : Path, new : Path]

VARIABLES
  disk,        \* dinode: type and nlink
  core,        \* the cached type and nlink, and ip->valid
  ents,        \* a directory's entries: name -> inode number
  ref,         \* ip->ref
  lock,        \* the holder of ip->lock
  cwd, file,   \* the process's current directory and its open file's inode
  me,          \* what the process is at
  stray,       \* history: inodes linked into a directory already removed,
  lost,        \* directories whose ".." names an inode freed since,
  dangling     \* and whether a lookup has found such a ".."

history == <<stray, lost, dangling>>
vars == <<disk, core, ents, ref, lock, cwd, file, me, history>>

Unused == [type |-> 0, nlink |-> 0]
NoEnts == [n \in Name \cup Dots |-> None]
Done(puts) == [at |-> "user", call |-> "none", path |-> <<>>, new |-> [abs |-> TRUE, names |-> <<>>],
               dp |-> None, ip |-> None, puts |-> puts]
Idle == Done(<<>>)

(* The file system that mkfs makes: a root; every process is in it. *)
Init ==
  /\ disk = [i \in Inum |-> IF i = ROOTINO THEN [type |-> T_DIR, nlink |-> 1] ELSE Unused]
  /\ core = [i \in Inum |-> [type |-> 0, nlink |-> 0, valid |-> FALSE]]
  /\ ents = [i \in Inum |-> IF i = ROOTINO THEN [NoEnts EXCEPT !["."] = i, ![".."] = i] ELSE NoEnts]
  /\ ref = [i \in Inum |-> IF i = ROOTINO THEN Cardinality(Proc) ELSE 0]
  /\ lock = [i \in Inum |-> NoProc]
  /\ cwd = [p \in Proc |-> ROOTINO]
  /\ file = [p \in Proc |-> None]
  /\ me = [p \in Proc |-> Idle]
  /\ stray = {} /\ lost = {} /\ dangling = FALSE

--------------------------------------------------------------------------------
(* ilock() of i: its entry once it is loaded. *)
Unlocked(i) == lock[i] = NoProc
Loaded(i) == IF core[i].valid THEN core[i]
             ELSE [type |-> disk[i].type, nlink |-> disk[i].nlink, valid |-> TRUE]
Ilock(i) == Unlocked(i) /\ core' = [core EXCEPT ![i] = Loaded(i)]

(* Changing nlink in memory and, with iupdate(), on disk. *)
Iupdate(i, n) == /\ core' = [core EXCEPT ![i] = [Loaded(i) EXCEPT !.nlink = n]]
                 /\ disk' = [disk EXCEPT ![i].nlink = n]

(* iget() and idup(). *)
Iget(i) == ref' = [ref EXCEPT ![i] = @ + 1]

(* The ".." of dp names a directory that is freed, or has no links any more. *)
Dangles(dp) == dp \in lost \/ disk[ents[dp][".."]].nlink = 0

(* dirlookup(): the entry, if there is one, and its iget(). *)
Dirlookup(dp, name) == ents[dp][name]
Found(dp, name) == /\ Iget(Dirlookup(dp, name))
                   /\ dangling' = (dangling \/ (name = ".." /\ Dangles(dp)))

(* dirlink() of a name that is not there: the entries with one more. *)
Dirlink(es, dp, name, i) == [es EXCEPT ![dp][name] = i]

Become(p, r) == me' = [me EXCEPT ![p] = r]
At(p, there) == me[p].at = there /\ me[p].puts = <<>>
Put(i) == <<"iput", i>>
PutLocked(e, i) == <<Put(e), <<"iunlock", i>>, Put(i)>>     \* iput(e), iunlockput(i)

Panic(p) == Become(p, [me[p] EXCEPT !.at = "panic"])

(***************************************************************************)
(* iput(): under the lock, is this the last reference to an inode without  *)
(* links?  Then it is truncated and freed.  The count drops only after the *)
(* lock is released.                                                       *)
(***************************************************************************)
Stage(p, stage) == Become(p, [me[p] EXCEPT !.puts[1][1] = stage])
Pop(p) == Become(p, [me[p] EXCEPT !.puts = Tail(@)])
Putting(p, stage) == me[p].at # "panic" /\ me[p].puts # <<>> /\ me[p].puts[1][1] = stage
Inode(p) == me[p].puts[1][2]

BugIput(p) ==
  LET i == Inode(p) IN
  /\ Putting(p, "iput") /\ Unlocked(i)
  /\ IF core[i].valid /\ core[i].nlink = 0
     THEN lock' = [lock EXCEPT ![i] = p] /\ Stage(p, "itrunc")
     ELSE UNCHANGED lock /\ Stage(p, "drop")
  /\ UNCHANGED <<disk, core, ents, ref, cwd, file, history>>

Iput(p) ==
  LET i == Inode(p) IN
  /\ Putting(p, "iput") /\ Unlocked(i)
  /\ IF core[i].valid /\ core[i].nlink = 0 /\ ref[i] = 1
     THEN lock' = [lock EXCEPT ![i] = p] /\ Stage(p, "itrunc")
     ELSE UNCHANGED lock /\ Stage(p, "drop")
  /\ UNCHANGED <<disk, core, ents, ref, cwd, file, history>>

IputFree(p) ==
  LET i == Inode(p) IN
  /\ Putting(p, "itrunc")
  /\ ents' = [ents EXCEPT ![i] = NoEnts]
  /\ disk' = [disk EXCEPT ![i] = Unused]
  /\ core' = [core EXCEPT ![i] = [type |-> 0, nlink |-> 0, valid |-> FALSE]]
  /\ lost' = (lost \ {i}) \cup {d \in Inum \ {i} : ents[d][".."] = i}
  /\ lock' = [lock EXCEPT ![i] = NoProc]
  /\ Stage(p, "drop")
  /\ UNCHANGED <<ref, cwd, file, stray, dangling>>

IputDrop(p) ==
  /\ Putting(p, "drop")
  /\ ref' = [ref EXCEPT ![Inode(p)] = @ - 1]
  /\ core' = IF ref[Inode(p)] = 1                    \* the entry may be recycled
             THEN [core EXCEPT ![Inode(p)] = [type |-> 0, nlink |-> 0, valid |-> FALSE]] ELSE core
  /\ Pop(p)
  /\ UNCHANGED <<disk, ents, lock, cwd, file, history>>

Iunlock(p) ==
  /\ Putting(p, "iunlock")
  /\ lock' = [lock EXCEPT ![Inode(p)] = NoProc]
  /\ Pop(p)
  /\ UNCHANGED <<disk, core, ents, ref, cwd, file, history>>

--------------------------------------------------------------------------------
(* The start of namex(): from the root or from the current directory. *)
Start(p, path) == IF path.abs THEN ROOTINO ELSE cwd[p]

SysCall(p, r) ==
  /\ At(p, "user")
  /\ Iget(Start(p, r.path))
  /\ Become(p, [Idle EXCEPT !.at = "namex", !.call = r.call, !.path = r.path.names,
                            !.new = r.new, !.dp = Start(p, r.path)])
  /\ UNCHANGED <<disk, core, ents, lock, cwd, file, history>>

(* nameiparent() and not namei(): the second path of link too. *)
Parent(m) == m.call \in {"creat", "mkdir", "mknod", "unlink"} \/ m.ip # None

BugFails(m, puts) == IF m.ip # None THEN [m EXCEPT !.at = "undo", !.dp = None, !.puts = puts]
                                    ELSE Idle

(* A lookup that fails ends the call, but link takes its nlink++ back. *)
Fails(m, puts) == IF m.ip # None THEN [m EXCEPT !.at = "undo", !.dp = None, !.puts = puts]
                                 ELSE Done(puts)

(* One turn of namex(), which locks one directory at a time. *)
Namex(p) ==
  LET m == me[p]
      i == m.dp
      next == Dirlookup(i, m.path[1]) IN
  /\ At(p, "namex")
  /\ IF m.path = <<>>
     THEN /\ Become(p, IF Parent(m) THEN Fails(m, <<Put(i)>>)
                       ELSE [m EXCEPT !.at = m.call, !.ip = i, !.dp = None])
          /\ UNCHANGED <<core, ref, dangling>>
     ELSE /\ Ilock(i)
          /\ CASE Loaded(i).type = 0 -> Panic(p) /\ UNCHANGED <<ref, dangling>>
               [] Loaded(i).type \in {T_FILE, T_DEV} ->
                    Become(p, Fails(m, <<Put(i)>>)) /\ UNCHANGED <<ref, dangling>>
               [] Loaded(i).type = T_DIR /\ Parent(m) /\ Len(m.path) = 1 ->
                    Become(p, [m EXCEPT !.at = m.call]) /\ UNCHANGED <<ref, dangling>>
               [] Loaded(i).type = T_DIR /\ ~ (Parent(m) /\ Len(m.path) = 1) ->
                    IF next = None THEN Become(p, Fails(m, <<Put(i)>>)) /\ UNCHANGED <<ref, dangling>>
                    ELSE /\ Found(i, m.path[1])
                         /\ Become(p, [m EXCEPT !.dp = next, !.path = Tail(@), !.puts = <<Put(i)>>])
  /\ UNCHANGED <<disk, ents, lock, cwd, file, stray, lost>>

--------------------------------------------------------------------------------
(* The end of sys_open(), with ip locked: the process has one descriptor. *)
OpenFile(p, i) ==
  IF file[p] # None THEN Become(p, Done(<<Put(i)>>)) /\ UNCHANGED file
  ELSE Become(p, Idle) /\ file' = [file EXCEPT ![p] = i]

SysOpen(p) ==
  LET i == me[p].ip IN
  /\ At(p, "open") /\ Ilock(i)
  /\ \/ Loaded(i).type = 0 /\ Panic(p) /\ UNCHANGED file
     \/ Loaded(i).type # 0 /\ OpenFile(p, i)
     \/ Loaded(i).type = T_DIR /\ Become(p, Done(<<Put(i)>>)) /\ UNCHANGED file   \* to write it
  /\ UNCHANGED <<disk, ents, ref, lock, cwd, history>>

(* create() has returned a new ip: the rest of open, or of mkdir and mknod. *)
Created(p) ==
  LET i == me[p].ip IN
  /\ At(p, "created")
  /\ lock' = [lock EXCEPT ![i] = NoProc]
  /\ IF me[p].call = "creat" THEN OpenFile(p, i)
     ELSE Become(p, Done(<<Put(i)>>)) /\ UNCHANGED file
  /\ UNCHANGED <<disk, core, ents, ref, cwd, history>>

(* fileclose() of an inode. *)
SysClose(p) ==
  /\ At(p, "user") /\ file[p] # None
  /\ file' = [file EXCEPT ![p] = None]
  /\ Become(p, Done(<<Put(file[p])>>))
  /\ UNCHANGED <<disk, core, ents, ref, lock, cwd, history>>

SysChdir(p) ==
  LET i == me[p].ip IN
  /\ At(p, "chdir") /\ Ilock(i)
  /\ IF Loaded(i).type = 0 THEN Panic(p) /\ UNCHANGED cwd
     ELSE IF Loaded(i).type # T_DIR THEN Become(p, Done(<<Put(i)>>)) /\ UNCHANGED cwd
     ELSE Become(p, Done(<<Put(cwd[p])>>)) /\ cwd' = [cwd EXCEPT ![p] = i]
  /\ UNCHANGED <<disk, ents, ref, lock, file, history>>

--------------------------------------------------------------------------------
Type(call) == CASE call = "creat" -> T_FILE [] call = "mkdir" -> T_DIR [] call = "mknod" -> T_DEV

FreeInodes == {i \in Inum : disk[i].type = 0}

(* ialloc(): the first free inode; it panics when there is none (bound). *)
Ialloc(i) == i \in FreeInodes /\ \A j \in FreeInodes : i <= j

(* create() up to the lock of ip: the name is there, or ip is allocated. *)
Create(p) ==
  LET m == me[p]
      e == Dirlookup(m.dp, m.path[1]) IN
  /\ At(p, m.call) /\ m.call \in {"creat", "mkdir", "mknod"}
  /\ Ilock(m.dp)
  /\ IF e # None
     THEN /\ Found(m.dp, m.path[1])
          /\ Become(p, [m EXCEPT !.at = "exists", !.ip = e, !.dp = None, !.puts = <<Put(m.dp)>>])
          /\ UNCHANGED <<disk, lock>>
     ELSE \E i \in Inum :
          /\ Ialloc(i) /\ Iget(i)
          /\ disk' = [disk EXCEPT ![i] = [type |-> Type(m.call), nlink |-> 0]]
          /\ lock' = [lock EXCEPT ![m.dp] = p]
          /\ Become(p, [m EXCEPT !.at = "new", !.ip = i])
          /\ UNCHANGED dangling
  /\ UNCHANGED <<ents, cwd, file, stray, lost>>

CreateExists(p) ==
  LET i == me[p].ip IN
  /\ At(p, "exists") /\ Ilock(i)
  /\ IF Loaded(i).type = 0 THEN Panic(p) /\ UNCHANGED file
     ELSE IF me[p].call = "creat" /\ Loaded(i).type = T_FILE THEN OpenFile(p, i)
     ELSE Become(p, Done(<<Put(i)>>)) /\ UNCHANGED file
  /\ UNCHANGED <<disk, ents, ref, lock, cwd, history>>

(* A directory that has been removed, or never entered; what is linked into it. *)
Removed(dp) == dp # ROOTINO /\ \A d \in Inum, n \in Name : ents[d][n] # dp
Strays(dp, i) == stray' = IF Removed(dp) THEN stray \cup {i} ELSE stray

(* The rest of create(): iunlockput(dp) comes with ip still locked.  A new     *)
(* directory has entries already only if a dangling ".." has led to it.        *)
CreateNew(p) ==
  LET m == me[p]
      dir == m.call = "mkdir"
      up == IF dir THEN 1 ELSE 0
      dots == IF dir THEN Dirlink(Dirlink(ents, m.ip, ".", m.ip), m.ip, "..", m.dp) ELSE ents IN
  /\ At(p, "new") /\ Unlocked(m.ip)
  /\ IF Loaded(m.ip).type = 0 \/ (dir /\ \E n \in Dots : ents[m.ip][n] # None)
     THEN Panic(p) /\ UNCHANGED <<disk, core, ents, lock, stray>>
     ELSE /\ core' = [core EXCEPT ![m.ip] = [Loaded(m.ip) EXCEPT !.nlink = 1], ![m.dp].nlink = @ + up]
          /\ disk' = [disk EXCEPT ![m.ip].nlink = 1, ![m.dp].nlink = @ + up]
          /\ ents' = Dirlink(dots, m.dp, m.path[1], m.ip)
          /\ Strays(m.dp, m.ip)
          /\ lock' = [lock EXCEPT ![m.dp] = NoProc, ![m.ip] = p]
          /\ Become(p, [m EXCEPT !.at = "created", !.dp = None, !.puts = <<Put(m.dp)>>])
  /\ UNCHANGED <<ref, cwd, file, lost, dangling>>

--------------------------------------------------------------------------------
(* sys_unlink(): lock dp, find ip. *)
Unlink(p) ==
  LET m == me[p]
      e == Dirlookup(m.dp, m.path[1]) IN
  /\ At(p, "unlink") /\ Ilock(m.dp)
  /\ IF m.path[1] \in Dots \/ e = None
     THEN Become(p, Done(<<Put(m.dp)>>)) /\ UNCHANGED <<ref, lock>>
     ELSE /\ Iget(e)
          /\ lock' = [lock EXCEPT ![m.dp] = p]
          /\ Become(p, [m EXCEPT !.at = "victim", !.ip = e])
  /\ UNCHANGED <<disk, ents, cwd, file, history>>

(* Lock ip, remove the entry; iunlockput(dp) comes with ip still locked. *)
UnlinkEntry(p) ==
  LET m == me[p]
      ip == Loaded(m.ip)
      up == IF ip.type = T_DIR THEN 1 ELSE 0 IN
  /\ At(p, "victim") /\ Unlocked(m.ip)
  /\ IF ip.type = 0 \/ ip.nlink < 1
     THEN Panic(p) /\ UNCHANGED <<disk, core, ents, lock>>
     ELSE IF ip.type = T_DIR /\ \E n \in Name : ents[m.ip][n] # None       \* isdirempty()
     THEN /\ core' = [core EXCEPT ![m.ip] = ip]
          /\ Become(p, Done(PutLocked(m.ip, m.dp)))
          /\ UNCHANGED <<disk, ents, lock>>
     ELSE /\ core' = [core EXCEPT ![m.ip] = ip, ![m.dp].nlink = @ - up]
          /\ disk' = [disk EXCEPT ![m.dp].nlink = @ - up]
          /\ ents' = [ents EXCEPT ![m.dp][m.path[1]] = None]
          /\ lock' = [lock EXCEPT ![m.dp] = NoProc, ![m.ip] = p]
          /\ Become(p, [m EXCEPT !.at = "unlinked", !.dp = None, !.puts = <<Put(m.dp)>>])
  /\ UNCHANGED <<ref, cwd, file, history>>

UnlinkDone(p) ==
  LET i == me[p].ip IN
  /\ At(p, "unlinked")
  /\ Iupdate(i, core[i].nlink - 1)
  /\ lock' = [lock EXCEPT ![i] = NoProc]
  /\ Become(p, Done(<<Put(i)>>))
  /\ UNCHANGED <<ents, ref, cwd, file, history>>

--------------------------------------------------------------------------------
BugLink(p) ==
  LET m == me[p]
      ip == Loaded(m.ip) IN
  /\ At(p, "link") /\ m.dp = None /\ Unlocked(m.ip)
  /\ IF ip.type = 0 THEN Panic(p) /\ UNCHANGED <<disk, core, ref, lock>>
     ELSE IF ip.type = T_DIR
     THEN Ilock(m.ip) /\ Become(p, Done(<<Put(m.ip)>>)) /\ UNCHANGED <<disk, ref, lock>>
     ELSE /\ Iupdate(m.ip, ip.nlink + 1)
          /\ Iget(Start(p, m.new))
          /\ lock' = [lock EXCEPT ![m.ip] = p]
          /\ Become(p, [m EXCEPT !.at = "namex", !.path = m.new.names, !.dp = Start(p, m.new)])
  /\ UNCHANGED <<ents, cwd, file, history>>

(* sys_link(): nlink++ of the old file, then namex() of the new name. *)
Link(p) ==
  LET m == me[p]
      ip == Loaded(m.ip) IN
  /\ At(p, "link") /\ m.dp = None /\ Unlocked(m.ip)
  /\ IF ip.type = 0 THEN Panic(p) /\ UNCHANGED <<disk, core, ref>>
     ELSE IF ip.type = T_DIR
     THEN Ilock(m.ip) /\ Become(p, Done(<<Put(m.ip)>>)) /\ UNCHANGED <<disk, ref>>
     ELSE /\ Iupdate(m.ip, ip.nlink + 1)
          /\ Iget(Start(p, m.new))
          /\ Become(p, [m EXCEPT !.at = "namex", !.path = m.new.names, !.dp = Start(p, m.new)])
  /\ UNCHANGED <<ents, lock, cwd, file, history>>

(* dirlink(): a name that is there is put back with dp locked. *)
LinkEntry(p) ==
  LET m == me[p]
      e == Dirlookup(m.dp, m.path[1]) IN
  /\ At(p, "link") /\ m.dp # None /\ Ilock(m.dp)
  /\ IF e # None
     THEN /\ Found(m.dp, m.path[1])
          /\ lock' = [lock EXCEPT ![m.dp] = p]
          /\ Become(p, [m EXCEPT !.at = "undo", !.dp = None, !.puts = PutLocked(e, m.dp)])
          /\ UNCHANGED <<ents, stray>>
     ELSE /\ ents' = Dirlink(ents, m.dp, m.path[1], m.ip)
          /\ Strays(m.dp, m.ip)
          /\ Become(p, Done(<<Put(m.dp), Put(m.ip)>>))
          /\ UNCHANGED <<ref, lock, dangling>>
  /\ UNCHANGED <<disk, cwd, file, lost>>

BugLinkUndo(p) ==
  LET i == me[p].ip IN
  /\ At(p, "undo") /\ Unlocked(i)
  /\ Become(p, Done(<<Put(i)>>))
  /\ UNCHANGED <<disk, core, ents, ref, lock, cwd, file, history>>

(* bad: nlink--. *)
LinkUndo(p) ==
  LET i == me[p].ip IN
  /\ At(p, "undo") /\ Unlocked(i)
  /\ Iupdate(i, Loaded(i).nlink - 1)
  /\ Become(p, Done(<<Put(i)>>))
  /\ UNCHANGED <<ents, ref, lock, cwd, file, history>>

--------------------------------------------------------------------------------
Step(p) ==
  \/ \E r \in Request : SysCall(p, r)
  \/ SysClose(p)
  \/ Namex(p) \/ SysOpen(p) \/ SysChdir(p)
  \/ Create(p) \/ CreateExists(p) \/ CreateNew(p) \/ Created(p)
  \/ Unlink(p) \/ UnlinkEntry(p) \/ UnlinkDone(p)
  \/ Link(p) \/ LinkEntry(p) \/ LinkUndo(p)
  \/ Iput(p) \/ IputFree(p) \/ IputDrop(p) \/ Iunlock(p)

Next == \E p \in Proc : Step(p)

Spec == Init /\ [][Next]_vars

--------------------------------------------------------------------------------
Count(S) == Cardinality(S)

(* The inode of the k-th iput() that is due. *)
Due(puts, k) == IF k \in DOMAIN puts /\ puts[k][1] # "iunlock" THEN puts[k][2] ELSE None

(* The pointers to i that processes hold. *)
Pointers(i) ==
  Count({p \in Proc : cwd[p] = i}) + Count({p \in Proc : file[p] = i})
  + Count({p \in Proc : me[p].dp = i}) + Count({p \in Proc : me[p].ip = i})
  + Count({x \in Proc \X (1 .. 3) : Due(me[x[1]].puts, x[2]) = i})

(***************************************************************************)
(* "ip->ref tracks the number of in-memory pointers to the entry"          *)
(* (fs.c:122): at every step, on the error paths of every call too, the    *)
(* count is the number of pointers processes hold, so that an entry is     *)
(* never recycled under one of them nor kept for ever.                     *)
(***************************************************************************)
RefsExact == \A i \in Inum : ref[i] = Pointers(i)

(* The entries that name i, the ".." of its subdirectories among them. *)
Names(i) == Count({x \in Inum \X Name : ents[x[1]][x[2]] = i})
Subdirs(i) == Count({d \in Inum \ {ROOTINO} : ents[d][".."] = i /\ ~ Removed(d)})
Entries(i) == Names(i) + Subdirs(i)

(* Links that calls under way have counted without an entry, or not yet uncounted. *)
InFlight(i) ==
  {p \in Proc : me[p].ip = i /\ (\/ me[p].at = "unlinked"
                                 \/ me[p].call = "link" /\ (me[p].dp # None \/ me[p].at = "undo"))}

(***************************************************************************)
(* An inode's nlink is the number of directory entries that name it plus   *)
(* what calls under way owe, however link, unlink, mkdir and lookups of    *)
(* processes interleave; never less, or unlinking one name would free an   *)
(* inode that another still names.  It is more only for an inode that was  *)
(* entered in a directory already removed, which create() (sysfile.c:250)  *)
(* and dirlink() do not look for.  All this until a lookup finds a ".."    *)
(* that dangles (see InodeLive).                                           *)
(***************************************************************************)
LinksExact ==
  ~ dangling => \A i \in Inum \ {ROOTINO} :
    LET owed == Entries(i) + Count(InFlight(i))
    IN disk[i].nlink >= owed /\ (i \notin stray => disk[i].nlink = owed)

(***************************************************************************)
(* No inode is freed, or reused, while a directory names it or a process   *)
(* can use it, with one exception: the ".." of a directory that has been   *)
(* removed is not counted in its parent's nlink, and keeps the parent's    *)
(* number when the parent is removed and freed too.  Until a lookup finds  *)
(* such a "..", what processes use is allocated, the cache holds what is   *)
(* on the disk, and no panic about types or link counts (fs.c:309,         *)
(* sysfile.c:212, 274) is reached; after it, ilock() may panic.            *)
(***************************************************************************)
InodeLive ==
  /\ \A d \in Inum, n \in Name \cup Dots :
       ents[d][n] # None /\ (n = ".." => d \notin lost) => disk[ents[d][n]].type # 0
  /\ ~ dangling =>
       /\ \A p \in Proc : me[p].at # "panic"
       /\ \A p \in Proc, i \in Inum :
            i \in {cwd[p], file[p], me[p].dp, me[p].ip} => disk[i].type # 0
       /\ \A i \in Inum : core[i].valid =>
            ref[i] > 0 /\ disk[i] = [type |-> core[i].type, nlink |-> core[i].nlink]

(***************************************************************************)
(* "If that was the last reference and the inode has no links to it, free  *)
(* the inode (and its content) on disk" (fs.c:327).                        *)
(***************************************************************************)
LastPutFrees ==
  \A i \in Inum : disk[i].type # 0 /\ ref[i] = 0 => disk[i].nlink > 0

(* The lock that p's next step takes. *)
Wants(p) ==
  LET m == me[p] IN
  CASE m.puts # <<>> -> IF m.puts[1][1] = "iput" THEN m.puts[1][2] ELSE None
    [] m.puts = <<>> /\ m.at \in {"open", "chdir", "exists", "new", "victim", "undo"} -> m.ip
    [] m.puts = <<>> /\ m.at \in {"creat", "mkdir", "mknod", "unlink"} -> m.dp
    [] m.puts = <<>> /\ m.at = "namex" -> IF m.path = <<>> THEN None ELSE m.dp
    [] m.puts = <<>> /\ m.at = "link" -> IF m.dp = None THEN m.ip ELSE m.dp
    [] OTHER -> None

(***************************************************************************)
(* No set of processes waits for each other in ilock(): in a circle of     *)
(* processes of which each waits for an inode lock that the next one       *)
(* holds, one is in iput() (fs.c:334), which locks an inode with another   *)
(* lock held (sysfile.c:225, 280, fs.c:560).  The other calls that wait    *)
(* with a lock held hold a directory's and wait for that of an entry, or   *)
(* of a new inode.                                                         *)
(***************************************************************************)
OnlyIputDeadlocks ==
  \A S \in SUBSET Proc \ {{}} :
    (\A p \in S : Wants(p) # None /\ lock[Wants(p)] \in S) => \E p \in S : me[p].puts # <<>>
================================================================================
