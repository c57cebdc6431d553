------------------------------ MODULE PipeInvariant ------------------------------
(***************************************************************************)
(* The inductive invariant of Pipe, and that every step preserves its part *)
(* about files and ends, for any processes, pages and sizes that satisfy   *)
(* PipeAssumption.                                                         *)
(***************************************************************************)
EXTENDS Pipe, FiniteSetTheorems, Integers, TLAPS

Index == 0 .. UINT - 1
Number == 0 .. Byte - 1
Cell == 0 .. PIPESIZE - 1
Io == {"io", "tosleep", "sleep"}
Fresh == {"pipealloc", "kalloc"}
Label == {"user", "exit", "fileclose", "pipeclose"} \cup Io \cup Fresh

--------------------------------------------------------------------------------
(***************************************************************************)
(* The invariant of files and ends.                                        *)
(***************************************************************************)
FileType == [ref : Nat, type : {"none", "inode", "pipe"}, end : End \cup {""},
             pipe : Pipe \cup {NoPipe}]
RingType == [open : SUBSET End, nread : Index, nwrite : Index, data : [Cell -> Number],
             sent : Number, seen : Number]
OpType == [pipe : Pipe \cup {NoPipe}, end : End \cup {""}, n : Nat]

TypeInv ==
  /\ live \subseteq Proc /\ killed \subseteq Proc
  /\ ofile \in [Proc -> [Fd -> File \cup {NoFile}]]
  /\ local \in [Proc -> [1 .. 2 -> File \cup {NoFile}]]
  /\ file \in [File -> FileType]
  /\ page \subseteq Pipe /\ quiet \subseteq Pipe
  /\ pipe \in [Pipe -> RingType]
  /\ pc \in [Proc -> Label]
  /\ op \in [Proc -> OpType]

(* Reference counts are exact. *)
Total(t, l, f) == Cardinality(Refs(t, Fd, f)) + Cardinality(Refs(l, 1 .. 2, f))
RefInv == \A f \in File : file[f].ref = Total(ofile, local, f)

(* A file is of type FD_PIPE exactly when it has a pipe; then it is in use. *)
KindInv ==
  \A f \in File :
    IF file[f].type = "pipe" THEN file[f].ref > 0 /\ file[f].pipe \in Pipe /\ file[f].end \in End
    ELSE file[f].pipe = NoPipe

(* A process in a read or write has a descriptor of that end of the pipe; a *)
(* file that pipe() has allocated is nobody else's.                         *)
Place(p) ==
  /\ pc[p] \in {"user", "exit"} \cup Io => \A k \in 1 .. 2 : local[p][k] = NoFile
  /\ pc[p] \in {"fileclose", "pipeclose"} \cup Fresh => p \in live \/ \A k \in 1 .. 2 : local[p][k] = NoFile
  /\ pc[p] = "fileclose" => p \in live /\ \E k \in 1 .. 2 : local[p][k] # NoFile
  /\ pc[p] = "pipeclose" => local[p][1] = NoFile
  /\ pc[p] \in Fresh => /\ p \in live /\ local[p][1] # NoFile
                        /\ local[p][2] # NoFile <=> pc[p] = "kalloc"
                        /\ local[p][1] # local[p][2]
                        /\ \A k \in 1 .. 2 : local[p][k] # NoFile =>
                             file[local[p][k]].ref = 1 /\ file[local[p][k]].type = "none"
  /\ pc[p] \in Io => /\ p \in live
                     /\ \E fd \in Fd : /\ ofile[p][fd] # NoFile
                                       /\ file[ofile[p][fd]].type = "pipe"
                                       /\ file[ofile[p][fd]].pipe = op[p].pipe
                                       /\ file[ofile[p][fd]].end = op[p].end
  /\ pc[p] = "pipeclose" => op[p].pipe \in Pipe /\ op[p].end \in End
  /\ pc[p] \notin Io \cup {"pipeclose"} => op[p].pipe = NoPipe
  /\ pc[p] = "user" /\ p \notin live => \A fd \in Fd : ofile[p][fd] = NoFile
  /\ pc[p] = "exit" => p \notin live

PlaceInv == \A p \in Proc : Place(p)

(* Who has an end of a pipe: one file, or the process that closes it. *)
Has(f, i, end) == file[f].type = "pipe" /\ file[f].pipe = i /\ file[f].end = end
Closes(p, i, end) == pc[p] = "pipeclose" /\ op[p].pipe = i /\ op[p].end = end

EndInv ==
  \A i \in Pipe :
    /\ i \in page <=> pipe[i].open # {}
    /\ \A end \in End :
         /\ end \in pipe[i].open <=> \/ \E f \in File : Has(f, i, end)
                                     \/ \E p \in Proc : Closes(p, i, end)
         /\ \A f, g \in File : Has(f, i, end) /\ Has(g, i, end) => f = g
         /\ \A p, q \in Proc : Closes(p, i, end) /\ Closes(q, i, end) => p = q
         /\ \A f \in File, p \in Proc : ~ (Has(f, i, end) /\ Closes(p, i, end))

FInv == TypeInv /\ RefInv /\ KindInv /\ PlaceInv /\ EndInv

(* The invariant of rings and sleepers. *)
SleepInv ==
  \A p \in Proc : pc[p] \in {"tosleep", "sleep"} =>
    LET i == op[p].pipe
        r == pipe[i] IN
    IF op[p].end = "read" THEN "write" \in r.open /\ (r.nread = r.nwrite \/ i \in quiet)
    ELSE "read" \in r.open /\ Held(r) = PIPESIZE

IInv == FInv /\ InOrder /\ SleepInv


--------------------------------------------------------------------------------
(* PipeAssumption, constant by constant. *)
LEMMA Constants ==
  /\ NFILE \in Nat /\ 0 < NFILE /\ NOFILE \in Nat /\ 0 < NOFILE
  /\ PIPESIZE \in Nat /\ 0 < PIPESIZE /\ UINT \in Nat /\ 0 < UINT /\ PIPESIZE < UINT
  /\ UINT % PIPESIZE = 0 /\ Byte \in Nat /\ 0 < Byte /\ PIPESIZE < Byte
  /\ NoPipe \notin Pipe /\ IsFiniteSet(Proc)
  /\ \A k \in Sizes : k \in Nat
  BY PipeAssumption

(* Counting the places of a table of files. *)
Table(S) == [Proc -> [S -> File \cup {NoFile}]]
One(b) == IF b THEN 1 ELSE 0

(* There are finitely many descriptors and locals of a process. *)
LEMMA FinitePlaces == IsFiniteSet(Fd) /\ IsFiniteSet(1 .. 2) /\ NoFile \notin File
<1>1. IsFiniteSet(Fd)
  <2>1. NOFILE - 1 \in Int /\ 0 \in Int
    BY Constants
  <2> QED
    BY <2>1, FS_Interval, Zenon DEF Fd
<1>2. IsFiniteSet(1 .. 2)
  <2>1. 1 \in Int /\ 2 \in Int
    OBVIOUS
  <2> QED
    BY <2>1, FS_Interval, Zenon
<1> QED
  BY <1>1, <1>2, Constants DEF File, NoFile

(* A file has finitely many references. *)
LEMMA RefsFinite ==
  ASSUME NEW S, IsFiniteSet(S), NEW t, NEW f
  PROVE  IsFiniteSet(Refs(t, S, f)) /\ Cardinality(Refs(t, S, f)) \in Nat
<1>1. IsFiniteSet(Proc \X S)
  BY Constants, FS_Product, Zenon
<1>2. Refs(t, S, f) \in SUBSET (Proc \X S)
  BY Zenon DEF Refs
<1>3. IsFiniteSet(Refs(t, S, f))
  BY <1>1, <1>2, FS_Subset, Zenon
<1> QED
  BY <1>3, FS_CardinalityType, Zenon

(* A place that refers to x instead. *)
Replaced(t, u, S, p, s, x, f) ==
  Cardinality(Refs(u, S, f)) + One(t[p][s] = f) = Cardinality(Refs(t, S, f)) + One(x = f)

(* Replacing one reference changes the count of the old and the new file. *)
LEMMA Replace ==
  ASSUME NEW S, IsFiniteSet(S), NEW t \in Table(S), NEW p \in Proc, NEW s \in S,
         NEW x, NEW u, u = [t EXCEPT ![p][s] = x], NEW f
  PROVE  Replaced(t, u, S, p, s, x, f)
<1>1. IsFiniteSet(Refs(t, S, f)) /\ Cardinality(Refs(t, S, f)) \in Nat
  BY RefsFinite, Zenon
<1>2. PICK y : y = <<p, s>>
  BY ZenonT(60)
<1>3. y \in Proc \X S /\ y[1] = p /\ y[2] = s
  BY <1>2, Zenon
<1>4. ASSUME NEW z \in Proc \X S
      PROVE  u[z[1]][z[2]] = IF z = y THEN x ELSE t[z[1]][z[2]]
  <2>1. z[1] \in Proc /\ z[2] \in S /\ (z = y <=> z[1] = p /\ z[2] = s)
    BY <1>2
  <2> QED
    BY <2>1, Zenon DEF Table
<1>5. y \in Refs(t, S, f) <=> t[p][s] = f
  BY <1>3, Zenon DEF Refs
<1>6. CASE x = f
  <2>1. Refs(u, S, f) = Refs(t, S, f) \cup {y}
    BY <1>3, <1>4, <1>6, Zenon DEF Refs
  <2>2. Cardinality(Refs(u, S, f)) =
          IF y \in Refs(t, S, f) THEN Cardinality(Refs(t, S, f)) ELSE Cardinality(Refs(t, S, f)) + 1
    BY <1>1, <2>1, FS_AddElement, ZenonT(60)
  <2> QED
    BY <1>1, <1>5, <1>6, <2>2 DEF Replaced, One
<1>7. CASE x # f
  <2>1. Refs(u, S, f) = Refs(t, S, f) \ {y}
    BY <1>3, <1>4, <1>7, Zenon DEF Refs
  <2>2. Cardinality(Refs(u, S, f)) =
          IF y \in Refs(t, S, f) THEN Cardinality(Refs(t, S, f)) - 1 ELSE Cardinality(Refs(t, S, f))
    BY <1>1, <2>1, FS_RemoveElement, ZenonT(60)
  <2> QED
    BY <1>1, <1>5, <1>7, <2>2 DEF Replaced, One
<1> QED
  BY <1>6, <1>7, Zenon

(* A row without references that becomes a copy of another one. *)
Inherited(t, u, S, p, f) ==
  Cardinality(Refs(u, S, f)) = Cardinality(Refs(t, S, f)) + Cardinality({s \in S : t[p][s] = f})

(* The copy of a row adds the references of that row. *)
LEMMA Inherit ==
  ASSUME NEW S, IsFiniteSet(S), NEW t \in Table(S), NEW p \in Proc, NEW q \in Proc,
         \A s \in S : t[q][s] = NoFile, NEW u, u = [t EXCEPT ![q] = t[p]], NEW f, f # NoFile
  PROVE  Inherited(t, u, S, p, f)
<1> DEFINE A == {s \in S : t[p][s] = f}
           B == {q} \X A
<1>1. IsFiniteSet(Refs(t, S, f)) /\ Cardinality(Refs(t, S, f)) \in Nat
  BY RefsFinite, Zenon
<1>2. IsFiniteSet(A)
  <2>1. A \in SUBSET S
    BY Zenon
  <2> QED
    BY <2>1, FS_Subset, Zenon
<1>3. IsFiniteSet({q}) /\ Cardinality({q}) = 1 /\ Cardinality(A) \in Nat
  BY <1>2, FS_Singleton, FS_CardinalityType, ZenonT(60)
<1>4. IsFiniteSet(B) /\ Cardinality(B) = Cardinality({q}) * Cardinality(A)
  BY <1>2, <1>3, FS_Product, Zenon
<1>5. Cardinality(B) = Cardinality(A)
  BY <1>3, <1>4
<1>6. ASSUME NEW z \in Proc \X S
      PROVE  u[z[1]][z[2]] = IF z[1] = q THEN t[p][z[2]] ELSE t[z[1]][z[2]]
  BY Zenon DEF Table
<1>7. ASSUME NEW z \in Proc \X S PROVE z \in B <=> z[1] = q /\ t[p][z[2]] = f
  BY Zenon
<1>8. B \subseteq Proc \X S
  BY Zenon
<1>9. ASSUME NEW z \in Proc \X S PROVE z \in Refs(t, S, f) => z[1] # q
  BY Zenon DEF Refs
<1>10. Refs(u, S, f) = Refs(t, S, f) \cup B
  <2> HIDE DEF B
  <2>1. ASSUME NEW z \in Proc \X S PROVE z \in Refs(u, S, f) <=> z \in Refs(t, S, f) \cup B
    BY <1>6, <1>7, <1>9 DEF Refs
  <2> QED
    BY <1>8, <2>1, Zenon DEF Refs
<1>11. Refs(t, S, f) \cap B = {}
  <2> HIDE DEF B
  <2> QED
    BY <1>7, <1>8, <1>9, Zenon
<1>12. Cardinality(Refs(u, S, f)) = Cardinality(Refs(t, S, f)) + Cardinality(B) - Cardinality({})
  <2> HIDE DEF B
  <2> QED
    BY <1>1, <1>4, <1>10, <1>11, FS_Union, ZenonT(60)
<1> HIDE DEF A, B
<1>13. Cardinality(Refs(u, S, f)) = Cardinality(Refs(t, S, f)) + Cardinality(A)
  BY <1>1, <1>3, <1>5, <1>12, FS_EmptySet
<1> QED
  BY <1>13, Zenon DEF Inherited, A

(* One place that refers to f, and two. *)
LEMMA Used ==
  ASSUME NEW S, IsFiniteSet(S), NEW t, NEW f, NEW p \in Proc, NEW s \in S, t[p][s] = f
  PROVE  Cardinality(Refs(t, S, f)) >= 1
<1>1. IsFiniteSet(Refs(t, S, f)) /\ Cardinality(Refs(t, S, f)) \in Nat
  BY RefsFinite, Zenon
<1>2. <<p, s>> \in Refs(t, S, f)
  BY Zenon DEF Refs
<1>3. Cardinality(Refs(t, S, f)) # 0
  BY <1>1, <1>2, FS_EmptySet, Zenon
<1> QED
  BY <1>1, <1>3

(* A file with two references. *)
LEMMA UsedTwice ==
  ASSUME NEW S, IsFiniteSet(S), NEW t, NEW f, NEW p \in Proc, NEW s \in S, t[p][s] = f,
         NEW q \in Proc, NEW s2 \in S, t[q][s2] = f, p # q \/ s # s2
  PROVE  Cardinality(Refs(t, S, f)) >= 2
<1> DEFINE R == Refs(t, S, f)
<1>1. IsFiniteSet(R) /\ Cardinality(R) \in Nat
  BY RefsFinite, Zenon
<1>2. PICK y : y = <<p, s>>
  BY ZenonT(60)
<1>3. y \in R /\ <<q, s2>> \in R \ {y}
  BY <1>2, Zenon DEF Refs
<1> HIDE DEF R
<1>4. IsFiniteSet(R \ {y}) /\ Cardinality(R \ {y}) = Cardinality(R) - 1
  BY <1>1, <1>3, FS_RemoveElement, Zenon
<1>5. Cardinality(R \ {y}) # 0 /\ Cardinality(R \ {y}) \in Nat
  BY <1>3, <1>4, FS_EmptySet, FS_CardinalityType, ZenonT(60)
<1> QED
  BY <1>1, <1>4, <1>5 DEF R

(* What an exact count says about who refers to a file. *)
LEMMA RefFacts ==
  ASSUME TypeInv, RefInv
  PROVE  /\ \A p \in Proc, s \in Fd : ofile[p][s] # NoFile =>
              ofile[p][s] \in File /\ file[ofile[p][s]].ref >= 1
         /\ \A p \in Proc, k \in 1 .. 2 : local[p][k] # NoFile =>
              local[p][k] \in File /\ file[local[p][k]].ref >= 1
         /\ \A p, q \in Proc, s, s2 \in Fd :
              /\ ofile[p][s] # NoFile /\ ofile[p][s] = ofile[q][s2] /\ (p # q \/ s # s2)
              => file[ofile[p][s]].ref >= 2
         /\ \A p, q \in Proc, s \in Fd, k \in 1 .. 2 :
              /\ ofile[p][s] # NoFile /\ ofile[p][s] = local[q][k]
              => file[ofile[p][s]].ref >= 2
         /\ \A p, q \in Proc, k, k2 \in 1 .. 2 :
              /\ local[p][k] # NoFile /\ local[p][k] = local[q][k2] /\ (p # q \/ k # k2)
              => file[local[p][k]].ref >= 2
<1>1. /\ \A p \in Proc, s \in Fd : ofile[p][s] # NoFile => ofile[p][s] \in File
      /\ \A p \in Proc, k \in 1 .. 2 : local[p][k] # NoFile => local[p][k] \in File
  BY DEF TypeInv
<1>2. \A f : /\ Cardinality(Refs(ofile, Fd, f)) \in Nat
             /\ Cardinality(Refs(local, 1 .. 2, f)) \in Nat
  BY FinitePlaces, RefsFinite, Zenon
<1>3. \A f \in File :
        file[f].ref = Cardinality(Refs(ofile, Fd, f)) + Cardinality(Refs(local, 1 .. 2, f))
  BY Zenon DEF RefInv, Total
<1>4. \A p \in Proc, s \in Fd : Cardinality(Refs(ofile, Fd, ofile[p][s])) >= 1
  BY FinitePlaces, Used, ZenonT(60)
<1>5. \A p \in Proc, k \in 1 .. 2 : Cardinality(Refs(local, 1 .. 2, local[p][k])) >= 1
  BY FinitePlaces, Used, ZenonT(60)
<1>6. \A p, q \in Proc, s, s2 \in Fd :
        ofile[p][s] = ofile[q][s2] /\ (p # q \/ s # s2)
        => Cardinality(Refs(ofile, Fd, ofile[p][s])) >= 2
  BY FinitePlaces, UsedTwice
<1>7. \A p, q \in Proc, k, k2 \in 1 .. 2 :
        local[p][k] = local[q][k2] /\ (p # q \/ k # k2)
        => Cardinality(Refs(local, 1 .. 2, local[p][k])) >= 2
  <2>1. PICK S : S = 1 .. 2
    BY ZenonT(60)
  <2>2. IsFiniteSet(S)
    BY <2>1, FinitePlaces, Zenon
  <2>3. \A p, q \in Proc, k, k2 \in S :
          local[p][k] = local[q][k2] /\ (p # q \/ k # k2)
          => Cardinality(Refs(local, S, local[p][k])) >= 2
    BY <2>2, UsedTwice
  <2> QED
    BY <2>1, <2>3, Zenon
<1>8. \A p \in Proc, s \in Fd : ofile[p][s] # NoFile =>
        ofile[p][s] \in File /\ file[ofile[p][s]].ref >= 1
  BY <1>1, <1>2, <1>3, <1>4
<1>9. \A p \in Proc, k \in 1 .. 2 : local[p][k] # NoFile =>
        local[p][k] \in File /\ file[local[p][k]].ref >= 1
  BY <1>1, <1>2, <1>3, <1>5
<1>10. \A p, q \in Proc, s, s2 \in Fd :
         /\ ofile[p][s] # NoFile /\ ofile[p][s] = ofile[q][s2] /\ (p # q \/ s # s2)
         => file[ofile[p][s]].ref >= 2
  BY <1>1, <1>2, <1>3, <1>6
<1>11. \A p, q \in Proc, s \in Fd, k \in 1 .. 2 :
         /\ ofile[p][s] # NoFile /\ ofile[p][s] = local[q][k]
         => file[ofile[p][s]].ref >= 2
  BY <1>1, <1>2, <1>3, <1>4, <1>5
<1>12. \A p, q \in Proc, k, k2 \in 1 .. 2 :
         /\ local[p][k] # NoFile /\ local[p][k] = local[q][k2] /\ (p # q \/ k # k2)
         => file[local[p][k]].ref >= 2
  BY <1>1, <1>2, <1>3, <1>7
<1> QED
  BY <1>8, <1>9, <1>10, <1>11, <1>12, Zenon


(* The same for descriptors and locals together. *)
InOfile(t, u, l, p, s, x, f) ==
  Total(u, l, f) + One(t[p][s] = f) = Total(t, l, f) + One(x = f)
InLocal(t, l, m, p, k, x, f) ==
  Total(t, m, f) + One(l[p][k] = f) = Total(t, l, f) + One(x = f)

(* References are a number. *)
LEMMA TotalNat ==
  ASSUME NEW t, NEW l, NEW f
  PROVE  Total(t, l, f) \in Nat
<1>1. /\ Cardinality(Refs(t, Fd, f)) \in Nat
      /\ Cardinality(Refs(l, 1 .. 2, f)) \in Nat
  BY FinitePlaces, RefsFinite, Zenon
<1> QED
  BY <1>1 DEF Total

(* An assignment to a descriptor. *)
LEMMA OfileStep ==
  ASSUME NEW t \in Table(Fd), NEW l, NEW p \in Proc, NEW s \in Fd, NEW x,
         NEW u, u = [t EXCEPT ![p][s] = x], NEW f
  PROVE  InOfile(t, u, l, p, s, x, f)
<1>1. Replaced(t, u, Fd, p, s, x, f)
  BY FinitePlaces, Replace, ZenonT(60)
<1>2. /\ Cardinality(Refs(t, Fd, f)) \in Nat /\ Cardinality(Refs(u, Fd, f)) \in Nat
      /\ Cardinality(Refs(l, 1 .. 2, f)) \in Nat
  BY FinitePlaces, RefsFinite, Zenon
<1> QED
  BY <1>1, <1>2 DEF InOfile, Replaced, Total, One

(* An assignment to a local. *)
LEMMA LocalStep ==
  ASSUME NEW l \in Table(1 .. 2), NEW t, NEW p \in Proc, NEW k \in 1 .. 2, NEW x,
         NEW m, m = [l EXCEPT ![p][k] = x], NEW f
  PROVE  InLocal(t, l, m, p, k, x, f)
<1>1. Replaced(l, m, 1 .. 2, p, k, x, f)
  <2>1. PICK S : S = 1 .. 2
    BY Zenon
  <2>2. IsFiniteSet(S) /\ l \in Table(S) /\ k \in S
    BY <2>1, FinitePlaces, Zenon
  <2>3. Replaced(l, m, S, p, k, x, f)
    BY <2>2, Replace, ZenonT(60)
  <2> QED
    BY <2>1, <2>3, Zenon
<1>2. /\ Cardinality(Refs(l, 1 .. 2, f)) \in Nat /\ Cardinality(Refs(m, 1 .. 2, f)) \in Nat
      /\ Cardinality(Refs(t, Fd, f)) \in Nat
  BY FinitePlaces, RefsFinite, Zenon
<1> QED
  BY <1>1, <1>2 DEF InLocal, Replaced, Total, One

--------------------------------------------------------------------------------
(***************************************************************************)
(* What a step that leaves a process, or the ends, alone keeps.            *)
(***************************************************************************)
Kept(f) ==
  file'[f].type = file[f].type /\ file'[f].pipe = file[f].pipe /\ file'[f].end = file[f].end

(* A process that a step leaves alone, or only wakes. *)
LEMMA PlaceFrame ==
  ASSUME NEW q \in Proc, Place(q),
         pc'[q] = pc[q] \/ (pc[q] = "sleep" /\ pc'[q] = "io"),
         local'[q] = local[q], ofile'[q] = ofile[q], op'[q] = op[q], q \in live' <=> q \in live,
         \A k \in 1 .. 2 : pc[q] \in Fresh /\ local[q][k] # NoFile =>
           file'[local[q][k]] = file[local[q][k]],
         \A fd \in Fd : pc[q] \in Io /\ ofile[q][fd] # NoFile => Kept(ofile[q][fd])
  PROVE  Place(q)'
<1>1. CASE pc[q] \in {"user", "exit", "fileclose", "pipeclose"}
  BY <1>1, Zenon DEF Place, Fresh, Io
<1>2. CASE pc[q] \in Fresh
  BY <1>2, SMTT(60) DEF Place, Fresh, Io
<1>3. CASE pc[q] \in Io
  <2>1. PICK fd \in Fd : /\ ofile[q][fd] # NoFile
                         /\ file[ofile[q][fd]].type = "pipe"
                         /\ file[ofile[q][fd]].pipe = op[q].pipe
                         /\ file[ofile[q][fd]].end = op[q].end
    BY <1>3, Zenon DEF Place
  <2>2. /\ ofile'[q][fd] # NoFile
        /\ file'[ofile'[q][fd]].type = "pipe"
        /\ file'[ofile'[q][fd]].pipe = op'[q].pipe
        /\ file'[ofile'[q][fd]].end = op'[q].end
    BY <1>3, <2>1, Zenon DEF Kept
  <2>3. pc'[q] \in Io /\ q \in live' /\ \A k \in 1 .. 2 : local'[q][k] = NoFile
    BY <1>3, Zenon DEF Place, Io
  <2> QED
    BY <2>2, <2>3, Zenon DEF Place, Io, Fresh
<1>4. CASE pc[q] \notin Label
  BY <1>4, Zenon DEF Place, Fresh, Io, Label
<1> QED
  BY <1>1, <1>2, <1>3, <1>4, Zenon DEF Label

(* Ends that nobody opens or closes. *)
LEMMA EndFrame ==
  ASSUME EndInv, page' = page, \A i \in Pipe : pipe'[i].open = pipe[i].open,
         \A f \in File, i \in Pipe, end \in End : Has(f, i, end)' <=> Has(f, i, end),
         \A p \in Proc, i \in Pipe, end \in End : Closes(p, i, end)' <=> Closes(p, i, end)
  PROVE  EndInv'
<1> QED
  BY DEF EndInv


(* PlaceInv of all but one process. *)
LEMMA Others ==
  ASSUME NEW p \in Proc, Place(p)', \A q \in Proc \ {p} : Place(q)'
  PROVE  PlaceInv'
  BY Zenon DEF PlaceInv

(* Where a process can be after a step, and what it must then hold. *)
LEMMA PlaceUser ==
  ASSUME NEW p \in Proc, pc'[p] = "user", p \in live', op'[p].pipe = NoPipe,
         \A k \in 1 .. 2 : local'[p][k] = NoFile
  PROVE  Place(p)'
  BY DEF Place, Io, Fresh

LEMMA PlaceExit ==
  ASSUME NEW p \in Proc, pc'[p] = "exit", p \notin live', op'[p].pipe = NoPipe,
         \A k \in 1 .. 2 : local'[p][k] = NoFile
  PROVE  Place(p)'
  BY DEF Place, Io, Fresh

LEMMA PlaceFileclose ==
  ASSUME NEW p \in Proc, pc'[p] = "fileclose", p \in live', op'[p].pipe = NoPipe,
         NEW k \in 1 .. 2, local'[p][k] # NoFile
  PROVE  Place(p)'
  BY DEF Place, Io, Fresh

LEMMA PlacePipeclose ==
  ASSUME NEW p \in Proc, pc'[p] = "pipeclose", op'[p].pipe \in Pipe, op'[p].end \in End,
         local'[p][1] = NoFile, p \in live' \/ \A k \in 1 .. 2 : local'[p][k] = NoFile
  PROVE  Place(p)'
  BY DEF Place, Io, Fresh

(* What pipealloc() holds between its two calls of filealloc() and kalloc(). *)
LEMMA FreshFacts ==
  ASSUME NEW p \in Proc, Place(p), pc[p] \in Fresh
  PROVE  /\ p \in live /\ local[p][1] # NoFile /\ op[p].pipe = NoPipe
         /\ local[p][2] # NoFile <=> pc[p] = "kalloc"
         /\ local[p][1] # local[p][2]
         /\ \A k \in 1 .. 2 : local[p][k] # NoFile =>
              file[local[p][k]].ref = 1 /\ file[local[p][k]].type = "none"
  BY DEF Place, Io, Fresh

(* A file with one reference that a local holds is nowhere else. *)
LEMMA SoleLocal ==
  ASSUME TypeInv, RefInv, NEW p \in Proc, NEW k \in 1 .. 2, NEW f \in File,
         f = local[p][k], f # NoFile, file[f].ref = 1
  PROVE  /\ \A q \in Proc, d \in Fd : ofile[q][d] # f
         /\ \A q \in Proc, j \in 1 .. 2 : q # p \/ j # k => local[q][j] # f
<1>1. ASSUME NEW q \in Proc, NEW d \in Fd, ofile[q][d] = f PROVE file[f].ref >= 2
  BY <1>1, RefFacts
<1>2. ASSUME NEW q \in Proc, NEW j \in 1 .. 2, q # p \/ j # k, local[q][j] = f PROVE file[f].ref >= 2
  BY <1>2, RefFacts
<1>3. ~ (file[f].ref >= 2)
  OBVIOUS
<1> QED
  BY <1>1, <1>2, <1>3, Zenon

(* The tables of descriptors and of locals. *)
LEMMA Tables ==
  ASSUME TypeInv
  PROVE  ofile \in Table(Fd) /\ local \in Table(1 .. 2)
  BY Zenon DEF TypeInv, Table

(* struct file with another count. *)
LEMMA Counted ==
  ASSUME NEW x \in FileType, NEW n \in Nat, NEW y, y = [x EXCEPT !.ref = n]
  PROVE  y \in FileType /\ y.ref = n /\ y.type = x.type /\ y.pipe = x.pipe /\ y.end = x.end
  BY Zenon DEF FileType

(* file[f].ref = n. *)
LEMMA Recount ==
  ASSUME file \in [File -> FileType], NEW f \in File, NEW n \in Nat,
         file' = [file EXCEPT ![f].ref = n]
  PROVE  /\ file' \in [File -> FileType] /\ file'[f].ref = n
         /\ \A g \in File : Kept(g) /\ (g # f => file'[g] = file[g])
<1>1. file[f] \in FileType /\ file'[f] = [file[f] EXCEPT !.ref = n]
  BY Zenon
<1>2. file'[f] \in FileType /\ file'[f].ref = n /\ Kept(f)
  BY <1>1, Counted DEF Kept
<1>3. file' = [g \in File |-> IF g = f THEN file'[f] ELSE file[g]]
  BY ZenonT(60)
<1> QED
  BY <1>2, <1>3, Zenon DEF Kept

--------------------------------------------------------------------------------
(***************************************************************************)
(* The steps and the invariant of files.                                   *)
(***************************************************************************)
(* sys_dup(): a descriptor more, and a reference more. *)
LEMMA DupFInv ==
  ASSUME FInv, NEW p \in Proc, NEW fd \in Fd, SysDup(p, fd)
  PROVE  FInv'
<1>1. /\ TypeInv /\ RefInv /\ KindInv /\ PlaceInv /\ EndInv
      /\ pc[p] = "user" /\ p \in live /\ ofile[p][fd] # NoFile
      /\ UNCHANGED <<live, killed, page, pipe, quiet, pc, op, local>>
  BY Zenon DEF FInv, SysDup, InUser
<1>2. PICK new \in Fd : /\ ofile[p][new] = NoFile
                        /\ ofile' = [ofile EXCEPT ![p][new] = ofile[p][fd]]
                        /\ file' = [file EXCEPT ![ofile[p][fd]].ref = @ + 1]
  BY ZenonT(60) DEF SysDup, FreeFd
<1>3. PICK f \in File : f = ofile[p][fd]
  BY <1>1, RefFacts, Zenon
<1>4. /\ file \in [File -> FileType] /\ file' = [file EXCEPT ![f].ref = @ + 1]
      /\ ofile \in [Proc -> [Fd -> File \cup {NoFile}]]
  BY <1>1, <1>2, <1>3, Zenon DEF TypeInv
<1>5. /\ \A g \in File : Kept(g) /\ (g # f => file'[g] = file[g])
      /\ \A g \in File : file'[g].ref = file[g].ref + One(f = g)
      /\ \A g \in File : file[g].ref \in Nat
      /\ file' \in [File -> FileType]
  <2>1. \A g \in File : file[g].ref \in Nat
    BY <1>4, Zenon DEF FileType
  <2>2. file' = [file EXCEPT ![f].ref = file[f].ref + 1] /\ file[f].ref + 1 \in Nat
    BY <1>4, <2>1
  <2>3. /\ file' \in [File -> FileType] /\ file'[f].ref = file[f].ref + 1
        /\ \A g \in File : Kept(g) /\ (g # f => file'[g] = file[g])
    BY <1>4, <2>2, Recount, ZenonT(60)
  <2> QED
    BY <2>1, <2>3 DEF One
<1>6. TypeInv'
  <2>1. ofile' \in [Proc -> [Fd -> File \cup {NoFile}]]
    BY <1>2, <1>3, <1>4, Zenon
  <2> QED
    BY <1>1, <1>5, <2>1, Zenon DEF TypeInv
<1>7. RefInv'
  <2>1. ASSUME NEW g \in File PROVE file'[g].ref = Total(ofile', local', g)
    <3>1. InOfile(ofile, ofile', local, p, new, f, g)
      BY <1>1, <1>2, <1>3, Tables, OfileStep, ZenonT(60)
    <3>2. file[g].ref = Total(ofile, local, g) /\ One(ofile[p][new] = g) = 0
      BY <1>1, <1>2, FinitePlaces, Zenon DEF RefInv, One
    <3>3. Total(ofile', local, g) \in Nat /\ Total(ofile, local, g) \in Nat
      BY TotalNat, Zenon
    <3> QED
      BY <1>1, <1>5, <3>1, <3>2, <3>3 DEF InOfile, One
  <2> QED
    BY <2>1, Zenon DEF RefInv
<1>8. KindInv'
  <2>1. ASSUME NEW g \in File PROVE file'[g].ref > 0 \/ ~ (file[g].ref > 0)
    BY <1>5 DEF One
  <2> QED
    BY <1>1, <1>5, <2>1 DEF KindInv, Kept
<1>9. PlaceInv'
  <2>1. ASSUME NEW q \in Proc \ {p} PROVE Place(q)'
    <3>1. Place(q) /\ ofile'[q] = ofile[q]
      BY <1>1, <1>2, <1>4 DEF PlaceInv
    <3>2. ASSUME NEW k \in 1 .. 2, pc[q] \in Fresh, local[q][k] # NoFile
          PROVE  file'[local[q][k]] = file[local[q][k]]
      <4>1. local[q][k] \in File /\ file[local[q][k]].ref = 1
        BY <1>1, <3>1, <3>2, RefFacts, Zenon DEF Place
      <4>2. local[q][k] # f
        BY <1>1, <1>3, <4>1, RefFacts, SMTT(60)
      <4> QED
        BY <1>5, <4>1, <4>2, Zenon
    <3>3. ASSUME NEW d \in Fd, ofile[q][d] # NoFile PROVE Kept(ofile[q][d])
      BY <1>1, <1>5, <3>3, RefFacts, Zenon
    <3> QED
      BY <1>1, <3>1, <3>2, <3>3, PlaceFrame, Zenon
  <2>2. Place(p)'
    BY <1>1, Zenon DEF PlaceInv, Place, Io, Fresh
  <2> QED
    BY <2>1, <2>2, Others, Zenon
<1>10. EndInv'
  <2>1. \A g \in File, i \in Pipe, end \in End : Has(g, i, end)' <=> Has(g, i, end)
    BY <1>5, Zenon DEF Has, Kept
  <2>2. \A q \in Proc, i \in Pipe, end \in End : Closes(q, i, end)' <=> Closes(q, i, end)
    BY <1>1, Zenon DEF Closes
  <2> QED
    BY <1>1, <2>1, <2>2, EndFrame, Zenon
<1> QED
  BY <1>6, <1>7, <1>8, <1>9, <1>10, Zenon DEF FInv

(* sys_close() moves the reference from the descriptor to a local. *)
LEMMA CloseFInv ==
  ASSUME FInv, NEW p \in Proc, NEW fd \in Fd, SysClose(p, fd)
  PROVE  FInv'
<1>1. /\ TypeInv /\ RefInv /\ KindInv /\ PlaceInv /\ EndInv
      /\ pc[p] = "user" /\ p \in live /\ ofile[p][fd] # NoFile
      /\ UNCHANGED <<live, killed, file, page, pipe, quiet, op>>
      /\ ofile' = [ofile EXCEPT ![p][fd] = NoFile]
      /\ pc' = [pc EXCEPT ![p] = "fileclose"]
  BY Zenon DEF FInv, SysClose, InUser, Goto
<1>2. PICK f \in File : f = ofile[p][fd]
  BY <1>1, RefFacts, Zenon
<1>3. local' = [local EXCEPT ![p][1] = f]
  BY <1>2, Zenon DEF SysClose
<1>4. /\ local \in [Proc -> [1 .. 2 -> File \cup {NoFile}]]
      /\ ofile \in [Proc -> [Fd -> File \cup {NoFile}]]
      /\ pc \in [Proc -> Label]
  BY <1>1, Zenon DEF TypeInv
<1>5. /\ local' \in [Proc -> [1 .. 2 -> File \cup {NoFile}]]
      /\ ofile' \in [Proc -> [Fd -> File \cup {NoFile}]]
      /\ pc' \in [Proc -> Label]
  BY <1>1, <1>3, <1>4, Zenon DEF Label
<1>6. TypeInv'
  BY <1>1, <1>5, Zenon DEF TypeInv
<1>7. Place(p) /\ \A k \in 1 .. 2 : local[p][k] = NoFile
  BY <1>1, Zenon DEF PlaceInv, Place
<1>8. RefInv'
  <2>1. ASSUME NEW g \in File PROVE file'[g].ref = Total(ofile', local', g)
    <3>1. InOfile(ofile, ofile', local, p, fd, NoFile, g)
      BY <1>1, Tables, OfileStep, ZenonT(60)
    <3>2. InLocal(ofile', local, local', p, 1, f, g)
      <4>1. 1 \in 1 .. 2
        OBVIOUS
      <4> QED
        BY <1>1, <1>3, <4>1, Tables, LocalStep, ZenonT(60)
    <3>3. file[g].ref = Total(ofile, local, g) /\ One(local[p][1] = g) = 0 /\ One(NoFile = g) = 0
      BY <1>1, <1>7, FinitePlaces DEF RefInv, One
    <3>4. Total(ofile', local, g) \in Nat /\ Total(ofile, local, g) \in Nat /\ Total(ofile', local', g) \in Nat
      BY TotalNat, Zenon
    <3> QED
      BY <1>1, <1>2, <3>1, <3>2, <3>3, <3>4 DEF InOfile, InLocal, One
  <2> QED
    BY <2>1 DEF RefInv
<1>9. KindInv'
  BY <1>1, Zenon DEF KindInv
<1>10. PlaceInv'
  <2>1. ASSUME NEW q \in Proc \ {p} PROVE Place(q)'
    <3>1. Place(q) /\ ofile'[q] = ofile[q] /\ local'[q] = local[q] /\ pc'[q] = pc[q]
      BY <1>1, <1>3, <1>4, Zenon DEF PlaceInv
    <3> QED
      BY <1>1, <3>1, PlaceFrame, Zenon DEF Kept
  <2>2. Place(p)'
    <3>1. pc'[p] = "fileclose" /\ local'[p][1] = f /\ f # NoFile /\ op[p].pipe = NoPipe
      BY <1>1, <1>3, <1>4, <1>7, FinitePlaces DEF Place, Io
    <3> QED
      BY <1>1, <3>1, SMTT(60) DEF Place, Io, Fresh
  <2> QED
    BY <2>1, <2>2, Others, Zenon
<1>11. EndInv'
  <2>1. \A g \in File, i \in Pipe, end \in End : Has(g, i, end)' <=> Has(g, i, end)
    BY <1>1, Zenon DEF Has
  <2>2. \A q \in Proc, i \in Pipe, end \in End : Closes(q, i, end)' <=> Closes(q, i, end)
    BY <1>1, <1>4, Zenon DEF Closes
  <2> QED
    BY <1>1, <2>1, <2>2, EndFrame, Zenon
<1> QED
  BY <1>6, <1>8, <1>9, <1>10, <1>11, Zenon DEF FInv


(* fork(): the child has a reference for each of the parent's. *)
LEMMA ForkFInv ==
  ASSUME FInv, NEW p \in Proc, NEW q \in Proc, Fork(p, q)
  PROVE  FInv'
<1>1. /\ TypeInv /\ RefInv /\ KindInv /\ PlaceInv /\ EndInv
      /\ pc[p] = "user" /\ p \in live /\ q \notin live /\ pc[q] = "user"
      /\ live' = live \cup {q}
      /\ ofile' = [ofile EXCEPT ![q] = ofile[p]]
      /\ UNCHANGED <<killed, page, pipe, quiet, pc, op, local>>
  BY Zenon DEF FInv, Fork, InUser
<1>2. file' = [f \in File |-> [file[f] EXCEPT !.ref = @ + Count(f, p)]]
  BY Zenon DEF Fork
<1>3. /\ file \in [File -> FileType]
      /\ ofile \in [Proc -> [Fd -> File \cup {NoFile}]]
  BY <1>1, Zenon DEF TypeInv
<1>4. \A f : Count(f, p) \in Nat
  <2>1. ASSUME NEW f PROVE IsFiniteSet({fd \in Fd : ofile[p][fd] = f})
    <3>1. {fd \in Fd : ofile[p][fd] = f} \in SUBSET Fd
      BY Zenon
    <3> QED
      BY <3>1, FinitePlaces, FS_Subset, Zenon
  <2> QED
    BY <2>1, FS_CardinalityType, ZenonT(60) DEF Count
<1>5. ASSUME NEW f \in File
      PROVE  /\ Kept(f) /\ file'[f].ref = file[f].ref + Count(f, p)
             /\ file'[f] \in FileType /\ file[f].ref \in Nat
  <2>1. file[f].ref \in Nat /\ file[f] \in FileType
    BY <1>3, Zenon DEF FileType
  <2>2. PICK n \in Nat : n = file[f].ref + Count(f, p)
    BY <1>4, <2>1
  <2>3. file'[f] = [file[f] EXCEPT !.ref = n]
    BY <1>2, <2>2, Zenon
  <2> QED
    BY <2>1, <2>2, <2>3, Counted DEF Kept
<1>6. TypeInv'
  <2>1. ofile' \in [Proc -> [Fd -> File \cup {NoFile}]]
    BY <1>1, <1>3, Zenon
  <2>2. file' \in [File -> FileType]
    <3>1. file' = [f \in File |-> file'[f]]
      BY <1>2, Zenon
    <3> QED
      BY <1>5, <3>1, Zenon
  <2> QED
    BY <1>1, <2>1, <2>2, Zenon DEF TypeInv
<1>7. \A fd \in Fd : ofile[q][fd] = NoFile
  BY <1>1, Zenon DEF PlaceInv, Place
<1>8. RefInv'
  <2>1. ASSUME NEW g \in File PROVE file'[g].ref = Total(ofile', local', g)
    <3>1. Inherited(ofile, ofile', Fd, p, g)
      <4>1. g # NoFile
        BY FinitePlaces, Zenon
      <4> QED
        BY <1>1, <1>7, <4>1, Tables, FinitePlaces, Inherit, ZenonT(60)
    <3>2. file[g].ref = Total(ofile, local, g)
      BY <1>1, Zenon DEF RefInv
    <3>3. /\ Cardinality(Refs(ofile, Fd, g)) \in Nat
          /\ Cardinality(Refs(local, 1 .. 2, g)) \in Nat
      BY FinitePlaces, RefsFinite, Zenon
    <3>4. Cardinality(Refs(ofile', Fd, g)) = Cardinality(Refs(ofile, Fd, g)) + Count(g, p)
      BY <3>1, Zenon DEF Inherited, Count
    <3> QED
      BY <1>1, <1>4, <1>5, <3>2, <3>3, <3>4 DEF Total
  <2> QED
    BY <2>1 DEF RefInv
<1>9. KindInv'
  <2>1. ASSUME NEW g \in File PROVE file[g].ref > 0 => file'[g].ref > 0
    BY <1>4, <1>5
  <2> QED
    BY <1>1, <1>5, <2>1, Zenon DEF KindInv, Kept
<1>10. PlaceInv'
  <2>1. ASSUME NEW r \in Proc \ {q} PROVE Place(r)'
    <3>1. Place(r) /\ ofile'[r] = ofile[r]
      BY <1>1, <1>3, Zenon DEF PlaceInv
    <3>2. ASSUME NEW k \in 1 .. 2, pc[r] \in Fresh, local[r][k] # NoFile
          PROVE  file'[local[r][k]] = file[local[r][k]]
      <4>1. PICK f \in File : f = local[r][k] /\ file[f].ref = 1
        BY <1>1, <3>1, <3>2, RefFacts, Zenon DEF Place
      <4>2. {fd \in Fd : ofile[p][fd] = f} = {}
        BY <1>1, <3>2, <4>1, RefFacts
      <4>3. Count(f, p) = 0
        BY <4>2, FS_EmptySet, Zenon DEF Count
      <4>4. file'[f] = [file[f] EXCEPT !.ref = file[f].ref]
        BY <1>2, <4>1, <4>3, SMTT(60)
      <4> QED
        BY <1>3, <4>1, <4>4, ZenonT(60) DEF FileType
    <3>3. ASSUME NEW d \in Fd, ofile[r][d] # NoFile PROVE Kept(ofile[r][d])
      BY <1>1, <1>5, <3>3, RefFacts, Zenon
    <3> QED
      BY <1>1, <3>1, <3>2, <3>3, PlaceFrame
  <2>2. Place(q)'
    BY <1>1, Zenon DEF PlaceInv, Place, Io, Fresh
  <2> QED
    BY <2>1, <2>2, Others, Zenon
<1>11. EndInv'
  <2>1. \A g \in File, i \in Pipe, end \in End : Has(g, i, end)' <=> Has(g, i, end)
    BY <1>5, Zenon DEF Has, Kept
  <2>2. \A r \in Proc, i \in Pipe, end \in End : Closes(r, i, end)' <=> Closes(r, i, end)
    BY <1>1, Zenon DEF Closes
  <2> QED
    BY <1>1, <2>1, <2>2, EndFrame, Zenon
<1> QED
  BY <1>6, <1>8, <1>9, <1>10, <1>11, Zenon DEF FInv

(* exit() up to its first fileclose(). *)
LEMMA ExitFInv ==
  ASSUME FInv, NEW p \in Proc, Exit(p)
  PROVE  FInv'
<1>1. /\ TypeInv /\ RefInv /\ KindInv /\ PlaceInv /\ EndInv
      /\ pc[p] = "user" /\ live' = live \ {p} /\ killed' = killed \ {p}
      /\ pc' = [pc EXCEPT ![p] = "exit"]
      /\ UNCHANGED <<ofile, file, page, pipe, quiet, op, local>>
      /\ pc \in [Proc -> Label] /\ pc' \in [Proc -> Label]
  BY Zenon DEF FInv, Exit, Goto, TypeInv, Label
<1>2. TypeInv'
  BY <1>1, Zenon DEF TypeInv
<1>3. RefInv' /\ KindInv'
  BY <1>1, Zenon DEF RefInv, KindInv
<1>4. PlaceInv'
  <2>1. ASSUME NEW q \in Proc \ {p} PROVE Place(q)'
    <3>1. Place(q) /\ pc'[q] = pc[q]
      BY <1>1, Zenon DEF PlaceInv
    <3> QED
      BY <1>1, <3>1, PlaceFrame, Zenon DEF Kept
  <2>2. Place(p)'
    <3>1. Place(p) /\ pc'[p] = "exit"
      BY <1>1, Zenon DEF PlaceInv
    <3> QED
      BY <1>1, <3>1, Zenon DEF Place, Io, Fresh
  <2> QED
    BY <2>1, <2>2, Others, Zenon
<1>5. EndInv'
  <2>1. \A g \in File, i \in Pipe, end \in End : Has(g, i, end)' <=> Has(g, i, end)
    BY <1>1, Zenon DEF Has
  <2>2. \A r \in Proc, i \in Pipe, end \in End : Closes(r, i, end)' <=> Closes(r, i, end)
    BY <1>1, Zenon DEF Closes
  <2> QED
    BY <1>1, <2>1, <2>2, EndFrame, Zenon
<1> QED
  BY <1>2, <1>3, <1>4, <1>5, Zenon DEF FInv


(* A step inside a read or write: files and ends stay as they are. *)
LEMMA MoveFInv ==
  ASSUME FInv, NEW p \in Proc, TypeInv', Place(p)',
         UNCHANGED <<live, ofile, file, page, local>>,
         \A i \in Pipe : pipe'[i].open = pipe[i].open,
         pc[p] # "pipeclose", pc'[p] # "pipeclose",
         \A q \in Proc \ {p} : pc'[q] = pc[q] \/ (pc[q] = "sleep" /\ pc'[q] = "io"),
         \A q \in Proc \ {p} : op'[q] = op[q]
  PROVE  FInv'
<1>1. RefInv' /\ KindInv'
  BY Zenon DEF FInv, RefInv, KindInv
<1>2. PlaceInv'
  <2>1. ASSUME NEW q \in Proc \ {p} PROVE Place(q)'
    <3>1. Place(q)
      BY Zenon DEF FInv, PlaceInv
    <3> QED
      BY <3>1, PlaceFrame, Zenon DEF Kept
  <2> QED
    BY <2>1, Others, Zenon
<1>3. EndInv'
  <2>1. \A g \in File, i \in Pipe, end \in End : Has(g, i, end)' <=> Has(g, i, end)
    BY Zenon DEF Has
  <2>2. ASSUME NEW q \in Proc, NEW i \in Pipe, NEW end \in End
        PROVE  Closes(q, i, end)' <=> Closes(q, i, end)
    <3>1. CASE q = p
      BY <3>1, Zenon DEF Closes
    <3>2. CASE q # p
      BY <3>2, Zenon DEF Closes
    <3> QED
      BY <3>1, <3>2, Zenon
  <2> QED
    BY <2>1, <2>2, EndFrame, Zenon DEF FInv
<1> QED
  BY <1>1, <1>2, <1>3, Zenon DEF FInv

(* A read or write holds the end by its descriptor. *)
LEMMA SysReadWriteFInv ==
  ASSUME FInv, NEW p \in Proc, NEW fd \in Fd, NEW n \in Sizes, SysReadWrite(p, fd, n)
  PROVE  FInv'
<1>1. /\ TypeInv /\ PlaceInv /\ RefInv /\ KindInv
      /\ pc[p] = "user" /\ p \in live /\ ofile[p][fd] # NoFile
      /\ pc' = [pc EXCEPT ![p] = "io"]
      /\ UNCHANGED <<live, killed, ofile, file, page, pipe, quiet, local>>
  BY Zenon DEF FInv, SysReadWrite, InUser, Goto
<1>2. PICK f \in File : f = ofile[p][fd]
  BY <1>1, RefFacts, Zenon
<1>3. /\ file[f].type = "pipe"
      /\ op' = [op EXCEPT ![p] = [pipe |-> file[f].pipe, end |-> file[f].end, n |-> n]]
  BY <1>2, Zenon DEF SysReadWrite
<1>4. file \in [File -> FileType] /\ op \in [Proc -> OpType] /\ pc \in [Proc -> Label] /\ n \in Nat
  BY <1>1, Constants, Zenon DEF TypeInv
<1>5. PICK o : o = [pipe |-> file[f].pipe, end |-> file[f].end, n |-> n]
  BY ZenonT(60)
<1>6. o \in OpType /\ o.pipe = file[f].pipe /\ o.end = file[f].end
  <2>1. file[f].pipe \in Pipe \cup {NoPipe} /\ file[f].end \in End \cup {""}
    BY <1>4, Zenon DEF FileType
  <2> QED
    BY <1>4, <1>5, <2>1, Zenon DEF OpType
<1>7. TypeInv'
  <2>1. op' \in [Proc -> OpType] /\ pc' \in [Proc -> Label]
    BY <1>1, <1>3, <1>4, <1>5, <1>6, Zenon DEF Label, Io
  <2> QED
    BY <1>1, <2>1 DEF TypeInv
<1>8. Place(p)'
  <2>1. Place(p) /\ pc'[p] = "io" /\ op'[p] = o
    BY <1>1, <1>3, <1>4, <1>5, Zenon DEF PlaceInv
  <2> QED
    BY <1>1, <1>2, <1>3, <1>6, <2>1, ZenonT(60) DEF Place, Io, Fresh
<1>9. /\ pc'[p] = "io"
      /\ \A q \in Proc \ {p} : pc'[q] = pc[q] /\ op'[q] = op[q]
  BY <1>1, <1>3, <1>4
<1> QED
  BY <1>1, <1>7, <1>8, <1>9, MoveFInv, Zenon

(* sleep() keeps the descriptor. *)
LEMMA SleepFInv ==
  ASSUME FInv, NEW p \in Proc, Sleep(p)
  PROVE  FInv'
<1>1. /\ TypeInv /\ PlaceInv
      /\ pc[p] = "tosleep" /\ pc' = [pc EXCEPT ![p] = "sleep"]
      /\ UNCHANGED <<live, killed, ofile, file, page, pipe, quiet, op, local>>
  BY Zenon DEF FInv, Sleep, Goto
<1>2. pc \in [Proc -> Label] /\ pc' \in [Proc -> Label]
  BY <1>1, Zenon DEF TypeInv, Label, Io
<1>3. TypeInv'
  BY <1>1, <1>2, Zenon DEF TypeInv
<1>4. pc'[p] = "sleep" /\ \A q \in Proc \ {p} : pc'[q] = pc[q]
  BY <1>1, <1>2, Zenon
<1>5. Place(p)'
  BY <1>1, <1>4, ZenonT(60) DEF PlaceInv, Place, Io, Fresh
<1> QED
  BY <1>1, <1>3, <1>4, <1>5, MoveFInv, Zenon

(* kill() wakes at most one process. *)
LEMMA KillFInv ==
  ASSUME FInv, NEW p \in Proc, Kill(p)
  PROVE  FInv'
<1>1. /\ TypeInv /\ PlaceInv /\ EndInv /\ RefInv /\ KindInv
      /\ killed' = killed \cup {p} /\ pc' = [pc EXCEPT ![p] = IF pc[p] = "sleep" THEN "io" ELSE pc[p]]
      /\ UNCHANGED <<live, ofile, file, page, pipe, quiet, op, local>>
  BY Zenon DEF FInv, Kill, Goto
<1>2. pc \in [Proc -> Label] /\ pc' \in [Proc -> Label]
  BY <1>1, Zenon DEF TypeInv, Label, Io
<1>3. TypeInv'
  BY <1>1, <1>2, Zenon DEF TypeInv
<1>4. \A q \in Proc : pc'[q] = pc[q] \/ (pc[q] = "sleep" /\ pc'[q] = "io")
  BY <1>1, <1>2, Zenon
<1>5. PlaceInv'
  <2>1. ASSUME NEW q \in Proc PROVE Place(q)'
    <3>1. Place(q)
      BY <1>1, Zenon DEF PlaceInv
    <3> QED
      BY <1>1, <1>4, <3>1, PlaceFrame DEF Kept
  <2> QED
    BY <2>1, Zenon DEF PlaceInv
<1>6. EndInv'
  <2>1. \A g \in File, i \in Pipe, end \in End : Has(g, i, end)' <=> Has(g, i, end)
    BY <1>1, Zenon DEF Has
  <2>2. \A r \in Proc, i \in Pipe, end \in End : Closes(r, i, end)' <=> Closes(r, i, end)
    BY <1>1, <1>4, Zenon DEF Closes
  <2> QED
    BY <1>1, <2>1, <2>2, EndFrame, Zenon
<1>7. RefInv' /\ KindInv'
  BY <1>1, Zenon DEF RefInv, KindInv
<1> QED
  BY <1>3, <1>5, <1>6, <1>7, Zenon DEF FInv


(* fileclose(f): the count goes down by one; the last close of a pipe's end *)
(* leaves it to the process that closes it.                                 *)
Closed(p, f, return) ==
  /\ file' \in [File -> FileType] /\ op' \in [Proc -> OpType] /\ pc' \in [Proc -> Label]
  /\ \A g \in File : file'[g].ref = file[g].ref - One(f = g) /\ (g # f => file'[g] = file[g])
  /\ file[f].ref > 1 => Kept(f)
  /\ \A q \in Proc \ {p} : pc'[q] = pc[q] /\ op'[q] = op[q]
  /\ \/ pc'[p] = return /\ op'[p].pipe = NoPipe
     \/ pc'[p] = "pipeclose" /\ op'[p].pipe \in Pipe /\ op'[p].end \in End
  /\ KindInv' /\ EndInv'
  /\ UNCHANGED <<live, killed, page, pipe, quiet>>

(* fileclose() is Closed. *)
LEMMA ClosedFile ==
  ASSUME FInv, NEW p \in Proc, NEW f \in File, file[f].ref >= 1,
         NEW return \in {"user", "exit", "fileclose"}, FileClose(p, f, return),
         pc[p] \in {"exit", "fileclose"}
  PROVE  Closed(p, f, return)
<1>1. /\ TypeInv /\ KindInv /\ PlaceInv /\ EndInv
      /\ file \in [File -> FileType] /\ op \in [Proc -> OpType] /\ pc \in [Proc -> Label]
      /\ UNCHANGED <<live, killed, page, pipe, quiet>>
      /\ op[p].pipe = NoPipe
  BY Zenon DEF FInv, TypeInv, FileClose, PlaceInv, Place, Io
<1>2. \A g \in File : file[g].ref \in Nat
  BY <1>1, Zenon DEF FileType
<1>3. /\ file[f].ref > 1 => /\ file' = [file EXCEPT ![f].ref = file[f].ref - 1]
                            /\ op' = op /\ pc' = [pc EXCEPT ![p] = return]
      /\ file[f].ref = 1 =>
           /\ file' = [file EXCEPT ![f] = Freed]
           /\ op' = [op EXCEPT ![p] = [pipe |-> file[f].pipe, end |-> file[f].end, n |-> 0]]
           /\ pc' = [pc EXCEPT ![p] = IF file[f].type = "pipe" THEN "pipeclose" ELSE return]
  <2>1. CASE file[f].ref > 1
    <3>1. ~ (file[f].ref < 1) /\ ~ LastClose(f)
      BY <1>2, <2>1 DEF LastClose
    <3> QED
      BY <1>1, <1>2, <2>1, <3>1, Zenon DEF FileClose, Goto
  <2>2. CASE file[f].ref = 1
    <3>1. ~ (file[f].ref < 1) /\ LastClose(f)
      BY <2>2 DEF LastClose
    <3> QED
      BY <2>2, <3>1, Zenon DEF FileClose, Goto
  <2> QED
    BY <1>2, <2>1, <2>2
<1>4. CASE file[f].ref > 1
  <2>1. file[f].ref - 1 \in Nat /\ file' = [file EXCEPT ![f].ref = file[f].ref - 1]
    BY <1>2, <1>3, <1>4
  <2>2. /\ file' \in [File -> FileType] /\ file'[f].ref = file[f].ref - 1
        /\ \A g \in File : Kept(g) /\ (g # f => file'[g] = file[g])
    BY <1>1, <2>1, Recount, ZenonT(60)
  <2>3. \A g \in File : file'[g].ref = file[g].ref - One(f = g)
    BY <1>2, <2>2 DEF One
  <2>4. KindInv'
    <3>1. file'[f].ref > 0
      BY <1>2, <1>4, <2>2
    <3> QED
      BY <1>1, <2>2, <3>1 DEF KindInv, Kept
  <2>5. /\ op' = op /\ pc'[p] = return /\ \A q \in Proc \ {p} : pc'[q] = pc[q]
        /\ pc' \in [Proc -> Label]
    BY <1>1, <1>3, <1>4 DEF Label
  <2>6. EndInv'
    <3>1. \A g \in File, i \in Pipe, end \in End : Has(g, i, end)' <=> Has(g, i, end)
      BY <2>2, Zenon DEF Has, Kept
    <3>2. \A r \in Proc, i \in Pipe, end \in End : Closes(r, i, end)' <=> Closes(r, i, end)
      BY <2>5, Zenon DEF Closes
    <3> QED
      BY <1>1, <3>1, <3>2, EndFrame, Zenon
  <2> QED
    BY <1>1, <2>2, <2>3, <2>4, <2>5, <2>6, Zenon DEF Closed
<1>5. CASE file[f].ref = 1
  <2>1. Freed \in FileType /\ Freed.ref = 0 /\ Freed.type = "none" /\ Freed.pipe = NoPipe
    BY Zenon DEF Freed, FileType
  <2>2. /\ file' \in [File -> FileType] /\ file'[f] = Freed
        /\ \A g \in File : g # f => file'[g] = file[g]
    BY <1>1, <1>3, <1>5, <2>1, SMTT(60)
  <2>3. \A g \in File : file'[g].ref = file[g].ref - One(f = g)
    BY <1>2, <1>5, <2>1, <2>2, SMTT(60) DEF One
  <2>4. KindInv'
    BY <1>1, <2>1, <2>2, Zenon DEF KindInv
  <2>5. PICK o : o = [pipe |-> file[f].pipe, end |-> file[f].end, n |-> 0]
    BY Zenon
  <2>6. o \in OpType /\ o.pipe = file[f].pipe /\ o.end = file[f].end
    <3>1. file[f].pipe \in Pipe \cup {NoPipe} /\ file[f].end \in End \cup {""}
      BY <1>1, Zenon DEF FileType
    <3> QED
      BY <2>5, <3>1, Zenon DEF OpType
  <2>7. /\ op' \in [Proc -> OpType] /\ pc' \in [Proc -> Label]
        /\ op'[p] = o /\ pc'[p] = IF file[f].type = "pipe" THEN "pipeclose" ELSE return
        /\ \A q \in Proc \ {p} : pc'[q] = pc[q] /\ op'[q] = op[q]
    BY <1>1, <1>3, <1>5, <2>5, <2>6, SMTT(60) DEF Label
  <2>8. CASE file[f].type # "pipe"
    <3>1. file[f].pipe = NoPipe
      BY <1>1, <2>8, ZenonT(60) DEF KindInv
    <3>2. EndInv'
      <4>1. \A g \in File, i \in Pipe, end \in End : Has(g, i, end)' <=> Has(g, i, end)
        BY <2>1, <2>2, <2>8, SMTT(60) DEF Has
      <4>2. ASSUME NEW r \in Proc, NEW i \in Pipe, NEW end \in End
            PROVE  Closes(r, i, end)' <=> Closes(r, i, end)
        <5>1. CASE r = p
          BY <2>7, <2>8, <5>1, SMTT(60) DEF Closes
        <5>2. CASE r # p
          BY <2>7, <5>2, Zenon DEF Closes
        <5> QED
          BY <5>1, <5>2, Zenon
      <4> QED
        BY <1>1, <4>1, <4>2, EndFrame, Zenon
    <3> QED
      BY <1>1, <1>5, <2>2, <2>3, <2>4, <2>6, <2>7, <2>8, <3>1, <3>2, SMTT(60) DEF Closed
  <2>9. CASE file[f].type = "pipe"
    <3>1. file[f].pipe \in Pipe /\ file[f].end \in End
      BY <1>1, <2>9, Zenon DEF KindInv
    <3>2. EndInv'
      <4>1. \A g \in File, i \in Pipe, end \in End : Has(g, i, end)' <=> Has(g, i, end) /\ g # f
        BY <2>1, <2>2, Zenon DEF Has
      <4>2. \A i \in Pipe, end \in End :
              Has(f, i, end) <=> i = file[f].pipe /\ end = file[f].end
        BY <2>9, Zenon DEF Has
      <4>3. ASSUME NEW r \in Proc, NEW i \in Pipe, NEW end \in End
            PROVE  Closes(r, i, end)' <=> Closes(r, i, end) \/ (r = p /\ Has(f, i, end))
        <5>1. CASE r = p
          BY <2>6, <2>7, <2>9, <4>2, <5>1, SMTT(60) DEF Closes
        <5>2. CASE r # p
          BY <2>7, <5>2, Zenon DEF Closes
        <5> QED
          BY <5>1, <5>2, ZenonT(60)
      <4> QED
        BY <1>1, <4>1, <4>3, ZenonT(60) DEF EndInv
    <3> QED
      BY <1>1, <1>5, <2>2, <2>3, <2>4, <2>6, <2>7, <2>9, <3>1, <3>2, SMTT(60) DEF Closed
  <2> QED
    BY <2>8, <2>9, Zenon
<1> QED
  BY <1>2, <1>4, <1>5


(* Nobody else is disturbed by a fileclose(). *)
LEMMA ClosedOther ==
  ASSUME FInv, NEW p \in Proc, NEW f \in File, file[f].ref >= 1, NEW return, Closed(p, f, return),
         NEW q \in Proc \ {p}, local'[q] = local[q], ofile'[q] = ofile[q],
         file[f].ref = 1 => \A d \in Fd : ofile[q][d] # f,
         file[f].ref = 1 => \A k \in 1 .. 2 : local[q][k] # f
  PROVE  Place(q)'
<1>1. /\ TypeInv /\ RefInv /\ Place(q)
      /\ pc'[q] = pc[q] /\ op'[q] = op[q] /\ live' = live
  BY Zenon DEF FInv, PlaceInv, Closed
<1>2. file[f].ref \in Nat
  BY <1>1, ZenonT(60) DEF TypeInv, FileType
<1>3. \A g \in File : g # f => file'[g] = file[g]
  BY ZenonT(60) DEF Closed
<1>4. ASSUME NEW k \in 1 .. 2, pc[q] \in Fresh, local[q][k] # NoFile
      PROVE  file'[local[q][k]] = file[local[q][k]]
  <2>1. local[q][k] \in File /\ file[local[q][k]].ref = 1
    BY <1>1, <1>4, RefFacts, ZenonT(60) DEF Place
  <2> QED
    BY <1>3, <2>1, SMTT(60)
<1>5. ASSUME NEW d \in Fd, ofile[q][d] # NoFile PROVE Kept(ofile[q][d])
  <2>1. ofile[q][d] \in File
    BY <1>1, <1>5, RefFacts, Zenon
  <2>2. CASE ofile[q][d] = f
    <3>1. file[f].ref > 1
      BY <1>2, <2>2, SMTT(60)
    <3> QED
      BY <2>2, <3>1, ZenonT(60) DEF Closed
  <2>3. CASE ofile[q][d] # f
    BY <1>3, <2>1, <2>3, Zenon DEF Kept
  <2> QED
    BY <2>2, <2>3, SMTT(60)
<1> QED
  BY <1>1, <1>4, <1>5, PlaceFrame, SMTT(60)

(* sys_close() and the failure path of pipealloc() drop a local. *)
LEMMA CloseLocalFInv ==
  ASSUME FInv, NEW p \in Proc, CloseLocal(p)
  PROVE  FInv'
<1>1. /\ TypeInv /\ RefInv /\ PlaceInv /\ pc[p] = "fileclose" /\ ofile' = ofile
      /\ Place(p) /\ p \in live
  BY ZenonT(60) DEF FInv, CloseLocal, PlaceInv, Place
<1>2. PICK k \in 1 .. 2 :
        /\ local[p][k] # NoFile /\ (k = 2 => local[p][1] = NoFile)
        /\ FileClose(p, local[p][k], IF k = 1 /\ local[p][2] # NoFile THEN "fileclose" ELSE "user")
        /\ local' = [local EXCEPT ![p][k] = NoFile]
  BY ZenonT(60) DEF CloseLocal
<1>3. PICK f \in File : f = local[p][k] /\ file[f].ref >= 1
  BY <1>1, <1>2, RefFacts, Zenon
<1>4. PICK return \in {"user", "exit", "fileclose"} :
        return = IF k = 1 /\ local[p][2] # NoFile THEN "fileclose" ELSE "user"
  BY Zenon
<1>5. FileClose(p, f, return)
  BY <1>2, <1>3, <1>4, Zenon
<1>6. Closed(p, f, return)
  BY <1>1, <1>3, <1>5, ClosedFile, SMTT(60)
<1>7. /\ local \in [Proc -> [1 .. 2 -> File \cup {NoFile}]]
      /\ local' \in [Proc -> [1 .. 2 -> File \cup {NoFile}]]
  BY <1>1, <1>2, Zenon DEF TypeInv
<1>8. TypeInv'
  BY <1>1, <1>6, <1>7 DEF TypeInv, Closed
<1>9. RefInv'
  <2>1. ASSUME NEW g \in File PROVE file'[g].ref = Total(ofile', local', g)
    <3>1. InLocal(ofile, local, local', p, k, NoFile, g)
      BY <1>1, <1>2, Tables, LocalStep, ZenonT(60)
    <3>2. /\ file[g].ref = Total(ofile, local, g) /\ One(NoFile = g) = 0
          /\ file'[g].ref = file[g].ref - One(f = g)
      BY <1>1, <1>6, FinitePlaces, Zenon DEF RefInv, One, Closed
    <3>3. Total(ofile, local, g) \in Nat /\ Total(ofile, local', g) \in Nat
      BY TotalNat
    <3> QED
      BY <1>1, <1>3, <3>1, <3>2, <3>3, SMTT(60) DEF InLocal, One
  <2> QED
    BY <2>1, Zenon DEF RefInv
<1>10. PlaceInv'
  <2>1. ASSUME NEW q \in Proc \ {p} PROVE Place(q)'
    <3>1. local'[q] = local[q] /\ ofile'[q] = ofile[q]
      BY <1>1, <1>2, <1>7, Zenon
    <3>2. file[f].ref = 1 => \A d \in Fd : ofile[q][d] # f
      BY <1>1, <1>2, <1>3, RefFacts, SMTT(60)
    <3>3. file[f].ref = 1 => \A j \in 1 .. 2 : local[q][j] # f
      BY <1>1, <1>2, <1>3, RefFacts, SMTT(60)
    <3> QED
      BY <1>3, <1>6, <3>1, <3>2, <3>3, ClosedOther, SMTT(60)
  <2>2. Place(p)'
    <3>1. local'[p][k] = NoFile /\ \A j \in 1 .. 2 : j # k => local'[p][j] = local[p][j]
      BY <1>2, <1>7, Zenon
    <3>2. /\ \/ pc'[p] = return /\ op'[p].pipe = NoPipe
             \/ pc'[p] = "pipeclose" /\ op'[p].pipe \in Pipe /\ op'[p].end \in End
          /\ live' = live
      BY <1>6, Zenon DEF Closed
    <3>3. local'[p][1] = NoFile /\ (return = "fileclose" => local'[p][2] # NoFile)
      BY <1>2, <1>4, <3>1
    <3>4. return = "user" => \A j \in 1 .. 2 : local'[p][j] = NoFile
      BY <1>2, <1>4, <3>1
    <3>5. return \in {"user", "fileclose"}
      BY <1>4, Zenon
    <3>6. CASE pc'[p] = "user"
      BY <1>1, <3>2, <3>4, <3>5, <3>6, PlaceUser, Zenon
    <3>7. CASE pc'[p] = "fileclose"
      <4>1. local'[p][2] # NoFile /\ op'[p].pipe = NoPipe
        BY <3>2, <3>3, <3>5, <3>7, Zenon
      <4>2. 2 \in 1 .. 2
        OBVIOUS
      <4> QED
        BY <1>1, <3>2, <3>7, <4>1, <4>2, PlaceFileclose, Zenon
    <3>8. CASE pc'[p] = "pipeclose"
      BY <1>1, <3>2, <3>3, <3>5, <3>8, PlacePipeclose, Zenon
    <3> QED
      BY <3>2, <3>5, <3>6, <3>7, <3>8, Zenon
  <2> QED
    BY <2>1, <2>2, Others, Zenon
<1> QED
  BY <1>6, <1>8, <1>9, <1>10, SMTT(60) DEF FInv, Closed

(* exit() drops one descriptor, or has dropped all. *)
LEMMA ExitCloseFInv ==
  ASSUME FInv, NEW p \in Proc, ExitClose(p)
  PROVE  FInv'
<1>1. /\ TypeInv /\ RefInv /\ PlaceInv /\ pc[p] = "exit" /\ local' = local
      /\ Place(p) /\ p \notin live /\ op[p].pipe = NoPipe
      /\ \A k \in 1 .. 2 : local[p][k] = NoFile
  BY ZenonT(60) DEF FInv, ExitClose, PlaceInv, Place, Io
<1>2. ASSUME NEW fd \in Fd, ofile[p][fd] # NoFile, FileClose(p, ofile[p][fd], "exit"),
             ofile' = [ofile EXCEPT ![p][fd] = NoFile]
      PROVE  FInv'
  <2>1. PICK f \in File : f = ofile[p][fd] /\ file[f].ref >= 1
    BY <1>1, <1>2, RefFacts
  <2>2. FileClose(p, f, "exit")
    BY <1>2, <2>1, Zenon
  <2>3. Closed(p, f, "exit")
    BY <1>1, <2>1, <2>2, ClosedFile, ZenonT(60)
  <2>4. /\ ofile \in [Proc -> [Fd -> File \cup {NoFile}]]
        /\ ofile' \in [Proc -> [Fd -> File \cup {NoFile}]]
    BY <1>1, <1>2, Zenon DEF TypeInv
  <2>5. TypeInv'
    BY <1>1, <2>3, <2>4, Zenon DEF TypeInv, Closed
  <2>6. RefInv'
    <3>1. ASSUME NEW g \in File PROVE file'[g].ref = Total(ofile', local', g)
      <4>1. InOfile(ofile, ofile', local, p, fd, NoFile, g)
        BY <1>1, <1>2, Tables, OfileStep, ZenonT(60)
      <4>2. /\ file[g].ref = Total(ofile, local, g) /\ One(NoFile = g) = 0
            /\ file'[g].ref = file[g].ref - One(f = g)
        BY <1>1, <2>3, FinitePlaces, Zenon DEF RefInv, One, Closed
      <4>3. Total(ofile, local, g) \in Nat /\ Total(ofile', local, g) \in Nat
        BY TotalNat, Zenon
      <4> QED
        BY <1>1, <2>1, <4>1, <4>2, <4>3 DEF InOfile, One
    <3> QED
      BY <3>1, Zenon DEF RefInv
  <2>7. PlaceInv'
    <3>1. ASSUME NEW q \in Proc \ {p} PROVE Place(q)'
      <4>1. local'[q] = local[q] /\ ofile'[q] = ofile[q]
        BY <1>1, <1>2, <2>4, Zenon
      <4>2. file[f].ref = 1 => \A d \in Fd : ofile[q][d] # f
        BY <1>1, <1>2, <2>1, RefFacts, SMTT(60)
      <4>3. file[f].ref = 1 => \A j \in 1 .. 2 : local[q][j] # f
        BY <1>1, <1>2, <2>1, RefFacts, SMTT(60)
      <4> QED
        BY <2>1, <2>3, <4>1, <4>2, <4>3, ClosedOther, SMTT(60)
    <3>2. Place(p)'
      <4>1. /\ \/ pc'[p] = "exit" /\ op'[p].pipe = NoPipe
               \/ pc'[p] = "pipeclose" /\ op'[p].pipe \in Pipe /\ op'[p].end \in End
            /\ live' = live
        BY <2>3, Zenon DEF Closed
      <4>2. CASE pc'[p] = "exit"
        BY <1>1, <4>1, <4>2, PlaceExit, Zenon
      <4>3. CASE pc'[p] = "pipeclose"
        <5>1. local'[p][1] = NoFile
          BY <1>1
        <5> QED
          BY <1>1, <4>1, <4>3, <5>1, PlacePipeclose, Zenon
      <4> QED
        BY <4>1, <4>2, <4>3, Zenon
    <3> QED
      BY <3>1, <3>2, Others, Zenon
  <2> QED
    BY <2>3, <2>5, <2>6, <2>7, ZenonT(60) DEF FInv, Closed
<1>3. ASSUME \A fd \in Fd : ofile[p][fd] = NoFile, Goto(p, "user"),
             UNCHANGED <<live, killed, ofile, file, page, pipe, quiet, op>>
      PROVE  FInv'
  <2>1. pc \in [Proc -> Label] /\ pc' = [pc EXCEPT ![p] = "user"]
    BY <1>1, <1>3, Zenon DEF TypeInv, Goto
  <2>2. TypeInv'
    <3>1. pc' \in [Proc -> Label]
      BY <2>1, Zenon DEF Label
    <3> QED
      BY <1>1, <1>3, <3>1, Zenon DEF TypeInv
  <2>3. pc'[p] = "user" /\ \A q \in Proc \ {p} : pc'[q] = pc[q]
    BY <2>1, Zenon
  <2>4. Place(p)'
    BY <1>1, <1>3, <2>3, ZenonT(60) DEF Place, Io, Fresh
  <2> QED
    BY <1>1, <1>3, <2>2, <2>3, <2>4, MoveFInv, ZenonT(60)
<1> QED
  BY <1>2, <1>3, Zenon DEF ExitClose


(* The fields of a ring. *)
LEMMA RingFields ==
  ASSUME NEW r \in RingType
  PROVE  /\ r.open \in SUBSET End /\ r.nread \in Index /\ r.nwrite \in Index
         /\ r.data \in [Cell -> Number] /\ r.sent \in Number /\ r.seen \in Number
  BY Zenon DEF RingType

(* The ring of a page that is no pipe. *)
LEMMA NoRingType == NoRing \in RingType /\ NoRing.open = {}
<1>1. 0 \in Index /\ 0 \in Number /\ [i \in 0 .. PIPESIZE - 1 |-> 0] \in [Cell -> Number]
  BY Constants DEF Index, Number, Cell
<1> QED
  BY <1>1, ZenonT(60) DEF NoRing, RingType

(* pipeclose(): nobody else has the end that it closes. *)
LEMMA PipeCloseFInv ==
  ASSUME FInv, NEW p \in Proc, PipeClose(p)
  PROVE  FInv'
<1>1. /\ TypeInv /\ RefInv /\ KindInv /\ PlaceInv /\ EndInv /\ Place(p)
      /\ pc[p] = "pipeclose" /\ op' = [op EXCEPT ![p] = NoOp]
      /\ UNCHANGED <<live, killed, ofile, file, local>>
  BY Zenon DEF FInv, PipeClose, PlaceInv
<1>2. PICK i \in Pipe, e \in End : i = op[p].pipe /\ e = op[p].end
  BY <1>1, ZenonT(60) DEF Place
<1>3. PICK left : left = pipe[i].open \ {e}
  BY Zenon
<1>4. /\ pipe' = [pipe EXCEPT ![i] = IF left = {} THEN NoRing ELSE [pipe[i] EXCEPT !.open = left]]
      /\ page' = (IF left = {} THEN page \ {i} ELSE page)
      /\ quiet' = (IF left = {} THEN quiet \ {i} ELSE quiet)
      /\ Wakeup(i, IF op[p].end = "write" THEN "read" ELSE "write", p, AfterClose(p))
  BY <1>2, <1>3, Zenon DEF PipeClose
<1>5. /\ pc \in [Proc -> Label] /\ op \in [Proc -> OpType] /\ pipe \in [Pipe -> RingType]
      /\ page \subseteq Pipe /\ quiet \subseteq Pipe
  BY <1>1, Zenon DEF TypeInv
<1>6. /\ pc'[p] = AfterClose(p)
      /\ \A q \in Proc \ {p} : pc'[q] = pc[q] \/ (pc[q] = "sleep" /\ pc'[q] = "io")
      /\ \A q \in Proc \ {p} : op'[q] = op[q]
      /\ op'[p] = NoOp /\ NoOp \in OpType /\ NoOp.pipe = NoPipe
      /\ op' \in [Proc -> OpType]
  <2>1. NoOp \in OpType /\ NoOp.pipe = NoPipe
    BY Zenon DEF NoOp, OpType
  <2>2. /\ pc'[p] = AfterClose(p)
        /\ \A q \in Proc \ {p} : pc'[q] = pc[q] \/ (pc[q] = "sleep" /\ pc'[q] = "io")
    BY <1>4, Zenon DEF Wakeup
  <2> QED
    BY <1>1, <1>5, <2>1, <2>2, Zenon
<1>7. pc' \in [Proc -> Label]
  <2>1. pc' = [q \in Proc |-> pc'[q]]
    BY <1>4, Zenon DEF Wakeup
  <2>2. AfterClose(p) \in Label /\ "io" \in Label
    BY Zenon DEF AfterClose, Label, Io
  <2>3. \A q \in Proc : pc'[q] \in Label
    BY <1>5, <1>6, <2>2
  <2> QED
    BY <2>1, <2>3, Zenon
<1>8. /\ pipe' \in [Pipe -> RingType] /\ pipe'[i].open = left
      /\ \A j \in Pipe : j # i => pipe'[j] = pipe[j]
  <2>1. PICK r : r = IF left = {} THEN NoRing ELSE [pipe[i] EXCEPT !.open = left]
    BY Zenon
  <2>2. r \in RingType /\ r.open = left
    <3>1. pipe[i] \in RingType /\ left \in SUBSET End
      BY <1>3, <1>5, RingFields, ZenonT(60)
    <3>2. ASSUME NEW x \in RingType PROVE [x EXCEPT !.open = left] \in RingType
      BY <3>1, Zenon DEF RingType
    <3>3. [pipe[i] EXCEPT !.open = left] \in RingType
      BY <3>1, <3>2, Zenon
    <3>4. [pipe[i] EXCEPT !.open = left].open = left
      BY <3>1, Zenon DEF RingType
    <3> QED
      BY <2>1, <3>3, <3>4, NoRingType, Zenon
  <2> QED
    BY <1>4, <1>5, <2>1, <2>2, Zenon
<1>9. TypeInv'
  <2>1. page' \subseteq Pipe /\ quiet' \subseteq Pipe
    BY <1>4, <1>5, Zenon
  <2> QED
    BY <1>1, <1>6, <1>7, <1>8, <2>1 DEF TypeInv
<1>10. RefInv' /\ KindInv'
  BY <1>1, Zenon DEF RefInv, KindInv
<1>11. PlaceInv'
  <2>1. ASSUME NEW q \in Proc \ {p} PROVE Place(q)'
    <3>1. Place(q)
      BY <1>1, Zenon DEF PlaceInv
    <3> QED
      BY <1>1, <1>6, <3>1, PlaceFrame, ZenonT(60) DEF Kept
  <2>2. Place(p)'
    <3>1. /\ local[p][1] = NoFile
          /\ p \in live \/ \A k \in 1 .. 2 : local[p][k] = NoFile
      BY <1>1, ZenonT(60) DEF Place
    <3>2. CASE local[p][2] # NoFile
      <4>1. pc'[p] = "fileclose" /\ p \in live
        BY <1>6, <3>1, <3>2 DEF AfterClose
      <4>2. live' = live /\ op'[p].pipe = NoPipe /\ local'[p][2] # NoFile
        BY <1>1, <1>6, <3>2, Zenon
      <4>3. 2 \in 1 .. 2
        OBVIOUS
      <4> QED
        BY <4>1, <4>2, <4>3, PlaceFileclose, Zenon
    <3>3. CASE local[p][2] = NoFile
      <4>1. \A k \in 1 .. 2 : local[p][k] = NoFile
        BY <3>1, <3>3, SMTT(60)
      <4>2. pc'[p] = IF p \in live THEN "user" ELSE "exit"
        BY <1>6, <3>3, SMTT(60) DEF AfterClose
      <4> QED
        BY <1>1, <1>6, <4>1, <4>2, ZenonT(60) DEF Place, Io, Fresh
    <3> QED
      BY <3>2, <3>3, Zenon
  <2> QED
    BY <2>1, <2>2, Others, Zenon
<1>12. EndInv'
  <2>1. \A g \in File, j \in Pipe, end \in End : Has(g, j, end)' <=> Has(g, j, end)
    BY <1>1, Zenon DEF Has
  <2>2. ASSUME NEW q \in Proc, NEW j \in Pipe, NEW end \in End
        PROVE  Closes(q, j, end)' <=> Closes(q, j, end) /\ q # p
    <3>1. CASE q = p
      BY <1>6, <3>1, Zenon DEF Closes, AfterClose
    <3>2. CASE q # p
      BY <1>6, <3>2, Zenon DEF Closes
    <3> QED
      BY <3>1, <3>2, Zenon
  <2>3. \A j \in Pipe, end \in End : Closes(p, j, end) <=> j = i /\ end = e
    BY <1>1, <1>2, Zenon DEF Closes
  <2>4. \A j \in Pipe : j \in page' <=> pipe'[j].open # {}
    BY <1>1, <1>3, <1>4, <1>8, SMTT(60) DEF EndInv
  <2>5. ASSUME NEW j \in Pipe, NEW end \in End
        PROVE  end \in pipe'[j].open <=> end \in pipe[j].open /\ ~ (j = i /\ end = e)
    BY <1>3, <1>8, Zenon
  <2>6. ASSUME NEW j \in Pipe, NEW end \in End
        PROVE  /\ end \in pipe'[j].open <=> \/ \E f \in File : Has(f, j, end)'
                                            \/ \E q \in Proc : Closes(q, j, end)'
               /\ \A f, g \in File : Has(f, j, end)' /\ Has(g, j, end)' => f = g
               /\ \A q, r \in Proc : Closes(q, j, end)' /\ Closes(r, j, end)' => q = r
               /\ \A f \in File, q \in Proc : ~ (Has(f, j, end)' /\ Closes(q, j, end)')
    <3>1. /\ end \in pipe[j].open <=> \/ \E f \in File : Has(f, j, end)
                                      \/ \E q \in Proc : Closes(q, j, end)
          /\ \A f, g \in File : Has(f, j, end) /\ Has(g, j, end) => f = g
          /\ \A q, r \in Proc : Closes(q, j, end) /\ Closes(r, j, end) => q = r
          /\ \A f \in File, q \in Proc : ~ (Has(f, j, end) /\ Closes(q, j, end))
      BY <1>1, Zenon DEF EndInv
    <3>2. \A f \in File : Has(f, j, end)' <=> Has(f, j, end)
      BY <2>1, Zenon
    <3>3. \A q \in Proc : Closes(q, j, end)' <=> Closes(q, j, end) /\ q # p
      BY <2>2, Zenon
    <3>4. CASE j = i /\ end = e
      <4>1. Closes(p, j, end)
        BY <2>3, <3>4, Zenon
      <4>2. end \notin pipe'[j].open
        BY <2>5, <3>4, Zenon
      <4> QED
        BY <3>1, <3>2, <3>3, <4>1, <4>2, Zenon
    <3>5. CASE ~ (j = i /\ end = e)
      <4>1. ~ Closes(p, j, end)
        BY <2>3, <3>5, Zenon
      <4>2. end \in pipe'[j].open <=> end \in pipe[j].open
        BY <2>5, <3>5, Zenon
      <4> QED
        BY <3>1, <3>2, <3>3, <4>1, <4>2, Zenon
    <3> QED
      BY <3>4, <3>5, Zenon
  <2> QED
    BY <2>4, <2>6, Zenon DEF EndInv
<1> QED
  BY <1>9, <1>10, <1>11, <1>12, Zenon DEF FInv


(* filealloc(): a file without references gets the local as its first. *)
LEMMA FileAllocFInv ==
  ASSUME FInv, NEW p \in Proc, NEW k \in 1 .. 2, FileAlloc(p, k)
  PROVE  FInv'
<1>1. /\ TypeInv /\ RefInv /\ KindInv /\ PlaceInv /\ EndInv /\ Place(p)
      /\ UNCHANGED <<live, killed, ofile, page, pipe, quiet, op>>
      /\ IF k = 1 THEN InUser(p) ELSE pc[p] = "pipealloc"
  BY Zenon DEF FInv, FileAlloc, PlaceInv
<1>2. /\ pc[p] = (IF k = 1 THEN "user" ELSE "pipealloc")
      /\ p \in live /\ local[p][k] = NoFile /\ op[p].pipe = NoPipe
  <2>1. CASE k = 1
    BY <1>1, <2>1, Zenon DEF InUser, Place, Io, Fresh
  <2>2. CASE k = 2
    BY <1>1, <2>2 DEF Place, Io, Fresh
  <2> QED
    BY <2>1, <2>2, SMTT(60)
<1>3. /\ pc \in [Proc -> Label] /\ file \in [File -> FileType]
      /\ local \in [Proc -> [1 .. 2 -> File \cup {NoFile}]]
  BY <1>1, Zenon DEF TypeInv
<1>4. ASSUME NEW f \in FreeFile,
             file' = [file EXCEPT ![f] = [Freed EXCEPT !.ref = 1]],
             local' = [local EXCEPT ![p][k] = f],
             Goto(p, IF k = 1 THEN "pipealloc" ELSE "kalloc")
      PROVE  FInv'
  <2>1. f \in File /\ f # NoFile /\ file[f].ref = 0
    BY FinitePlaces, Zenon DEF FreeFile
  <2>2. PICK x : x = [Freed EXCEPT !.ref = 1]
    BY Zenon
  <2>3. x \in FileType /\ x.ref = 1 /\ x.type = "none" /\ x.pipe = NoPipe
    BY <2>2, Zenon DEF Freed, FileType
  <2>4. /\ file' \in [File -> FileType] /\ file'[f] = x
        /\ \A g \in File : g # f => file'[g] = file[g]
    BY <1>3, <1>4, <2>1, <2>2, <2>3
  <2>5. /\ pc'[p] = (IF k = 1 THEN "pipealloc" ELSE "kalloc")
        /\ \A q \in Proc \ {p} : pc'[q] = pc[q]
        /\ pc' \in [Proc -> Label]
    BY <1>3, <1>4, Zenon DEF Goto, Label, Fresh
  <2>6. local' \in [Proc -> [1 .. 2 -> File \cup {NoFile}]]
    BY <1>3, <1>4, <2>1, SMTT(60)
  <2>7. TypeInv'
    BY <1>1, <2>4, <2>5, <2>6, Zenon DEF TypeInv
  <2>8. RefInv'
    <3>1. ASSUME NEW g \in File PROVE file'[g].ref = Total(ofile', local', g)
      <4>1. InLocal(ofile, local, local', p, k, f, g)
        BY <1>1, <1>4, Tables, LocalStep, ZenonT(60)
      <4>2. file[g].ref = Total(ofile, local, g) /\ One(local[p][k] = g) = 0
        BY <1>1, <1>2, FinitePlaces, ZenonT(60) DEF RefInv, One
      <4>3. Total(ofile, local, g) \in Nat /\ Total(ofile, local', g) \in Nat
        BY TotalNat
      <4>4. ofile' = ofile
        BY <1>1, Zenon
      <4>5. file'[g].ref = file[g].ref + One(f = g)
        <5>1. CASE g = f
          BY <2>1, <2>3, <2>4, <5>1 DEF One
        <5>2. CASE g # f
          BY <2>1, <2>4, <4>2, <4>3, <5>2 DEF One
        <5> QED
          BY <5>1, <5>2, Zenon
      <4> QED
        BY <4>1, <4>2, <4>3, <4>4, <4>5 DEF InLocal, One
    <3> QED
      BY <3>1, SMTT(60) DEF RefInv
  <2>9. KindInv'
    BY <1>1, <2>3, <2>4, Zenon DEF KindInv
  <2>10. PlaceInv'
    <3>1. ASSUME NEW q \in Proc \ {p} PROVE Place(q)'
      <4>1. Place(q) /\ local'[q] = local[q]
        BY <1>1, <1>3, <1>4, SMTT(60) DEF PlaceInv
      <4>2. \A j \in 1 .. 2 : local[q][j] # NoFile => file'[local[q][j]] = file[local[q][j]]
        <5> SUFFICES ASSUME NEW j \in 1 .. 2, local[q][j] # NoFile
                     PROVE  file'[local[q][j]] = file[local[q][j]]
          BY Zenon
        <5>1. local[q][j] \in File /\ file[local[q][j]].ref >= 1
          BY <1>1, RefFacts, Zenon
        <5>2. local[q][j] # f
          BY <2>1, <5>1
        <5> QED
          BY <2>4, <5>1, <5>2, Zenon
      <4>3. \A d \in Fd : ofile[q][d] # NoFile => Kept(ofile[q][d])
        <5> SUFFICES ASSUME NEW d \in Fd, ofile[q][d] # NoFile
                     PROVE  Kept(ofile[q][d])
          BY Zenon
        <5>1. ofile[q][d] \in File /\ file[ofile[q][d]].ref >= 1
          BY <1>1, RefFacts, Zenon
        <5>2. ofile[q][d] # f
          BY <2>1, <5>1
        <5> QED
          BY <2>4, <5>1, <5>2, Zenon DEF Kept
      <4> QED
        BY <1>1, <2>5, <4>1, <4>2, <4>3, PlaceFrame, Zenon
    <3>2. Place(p)'
      <4>1. local'[p][k] = f /\ \A j \in 1 .. 2 : j # k => local'[p][j] = local[p][j]
        BY <1>3, <1>4, Zenon
      <4>2. CASE k = 1
        <5>1. pc'[p] = "pipealloc" /\ local'[p][1] = f /\ local'[p][2] = NoFile
          <6>1. pc'[p] = "pipealloc" /\ local'[p][1] = f /\ pc[p] = "user"
            BY <1>2, <2>5, <4>1, <4>2, Zenon
          <6>2. \A j \in 1 .. 2 : local[p][j] = NoFile
            BY <1>1, <6>1, Zenon DEF Place
          <6>3. local'[p][2] = local[p][2] /\ local[p][2] = NoFile
            BY <4>1, <4>2, <6>2
          <6> QED
            BY <6>1, <6>3, Zenon
        <5>2. \A j \in 1 .. 2 : local'[p][j] # NoFile =>
                file'[local'[p][j]].ref = 1 /\ file'[local'[p][j]].type = "none"
          BY <2>3, <2>4, <5>1, SMTT(60)
        <5> QED
          BY <1>1, <1>2, <2>1, <5>1, <5>2, ZenonT(60) DEF Place, Io, Fresh
      <4>3. CASE k = 2
        <5>1. /\ pc'[p] = "kalloc" /\ local'[p][2] = f /\ local'[p][1] = local[p][1]
              /\ local[p][1] # NoFile
              /\ file[local[p][1]].ref = 1 /\ file[local[p][1]].type = "none"
          <6>1. pc[p] = "pipealloc" /\ pc[p] \in Fresh /\ pc'[p] = "kalloc"
            BY <1>2, <2>5, <4>3 DEF Fresh
          <6>2. local[p][1] # NoFile /\ \A j \in 1 .. 2 : local[p][j] # NoFile =>
                  file[local[p][j]].ref = 1 /\ file[local[p][j]].type = "none"
            BY <1>1, <6>1, FreshFacts, Zenon
          <6>3. local'[p][2] = f /\ local'[p][1] = local[p][1]
            BY <4>1, <4>3
          <6> QED
            BY <6>1, <6>2, <6>3
        <5>2. local[p][1] \in File /\ local[p][1] # f
          <6>1. 1 \in 1 .. 2
            OBVIOUS
          <6>2. local[p][1] \in File
            BY <1>1, <5>1, <6>1, RefFacts, Zenon
          <6> QED
            BY <2>1, <5>1, <6>2
        <5>3. \A j \in 1 .. 2 : file'[local'[p][j]].ref = 1 /\ file'[local'[p][j]].type = "none"
          BY <2>3, <2>4, <5>1, <5>2, SMTT(60)
        <5> QED
          BY <1>1, <1>2, <2>1, <5>1, <5>2, <5>3, ZenonT(60) DEF Place, Io, Fresh
      <4> QED
        BY <4>2, <4>3
    <3> QED
      BY <3>1, <3>2, Others, SMTT(60)
  <2>11. EndInv'
    <3>1. file[f].type # "pipe"
      <4>1. file[f].type = "pipe" => file[f].ref > 0
        BY <1>1, <2>1, Zenon DEF KindInv
      <4> QED
        BY <2>1, <4>1
    <3>2. \A g \in File, i \in Pipe, end \in End : Has(g, i, end)' <=> Has(g, i, end)
      BY <2>3, <2>4, <3>1, SMTT(60) DEF Has
    <3>3. ASSUME NEW r \in Proc, NEW i \in Pipe, NEW end \in End
          PROVE  Closes(r, i, end)' <=> Closes(r, i, end)
      BY <1>1, <1>2, <2>5, Zenon DEF Closes
    <3> QED
      BY <1>1, <3>2, <3>3, EndFrame, Zenon
  <2> QED
    BY <2>7, <2>8, <2>9, <2>10, <2>11, Zenon DEF FInv
<1>5. ASSUME Goto(p, IF k = 1 THEN "user" ELSE "fileclose"), UNCHANGED <<file, local>>
      PROVE  FInv'
  <2>1. /\ pc'[p] = (IF k = 1 THEN "user" ELSE "fileclose")
        /\ \A q \in Proc \ {p} : pc'[q] = pc[q]
        /\ pc' \in [Proc -> Label]
    BY <1>3, <1>5, Zenon DEF Goto, Label
  <2>2. TypeInv'
    BY <1>1, <1>5, <2>1 DEF TypeInv
  <2>3. Place(p)'
    <3>1. CASE k = 1
      BY <1>1, <1>2, <1>5, <2>1, <3>1, ZenonT(60) DEF Place, Io, Fresh
    <3>2. CASE k = 2
      <4>1. pc[p] = "pipealloc" /\ pc[p] \in Fresh /\ pc'[p] = "fileclose"
        BY <1>2, <2>1, <3>2 DEF Fresh
      <4>2. local'[p][1] # NoFile
        BY <1>1, <1>5, <4>1, FreshFacts, Zenon
      <4>3. 1 \in 1 .. 2
        OBVIOUS
      <4> QED
        BY <1>1, <1>2, <4>1, <4>2, <4>3, PlaceFileclose, Zenon
    <3> QED
      BY <3>1, <3>2, SMTT(60)
  <2> QED
    BY <1>1, <1>2, <1>5, <2>1, <2>2, <2>3, MoveFInv, Zenon
<1> QED
  BY <1>4, <1>5, Zenon DEF FileAlloc


(* Two files move from locals to descriptors: nothing is counted twice. *)
HandedOver(t, l, u, m, f) == Total(u, m, f) = Total(t, l, f)

(* A pipe() that succeeds moves both references to descriptors. *)
LEMMA Handover ==
  ASSUME NEW t \in Table(Fd), NEW l \in Table(1 .. 2), NEW p \in Proc,
         NEW a \in Fd, NEW b \in Fd, a # b, t[p][a] = NoFile, t[p][b] = NoFile,
         NEW u, u = [t EXCEPT ![p] = [@ EXCEPT ![a] = l[p][1], ![b] = l[p][2]]],
         NEW m, m = [l EXCEPT ![p] = [k \in 1 .. 2 |-> NoFile]],
         NEW f \in File
  PROVE  HandedOver(t, l, u, m, f)
<1>1. PICK t1 : t1 = [t EXCEPT ![p][a] = l[p][1]]
  BY Zenon
<1>2. PICK l1 : l1 = [l EXCEPT ![p][1] = NoFile]
  BY Zenon
<1>3. t1 \in Table(Fd) /\ t1[p][b] = NoFile
  BY <1>1 DEF Table
<1>4. l1 \in Table(1 .. 2) /\ l1[p][2] = l[p][2]
  BY <1>2 DEF Table
<1>5. u = [t1 EXCEPT ![p][b] = l[p][2]]
  BY <1>1, ZenonT(60) DEF Table
<1>6. m = [l1 EXCEPT ![p][2] = NoFile]
  <2>1. l[p] \in [1 .. 2 -> File \cup {NoFile}] /\ l1[p] = [l[p] EXCEPT ![1] = NoFile]
    BY <1>2, Zenon DEF Table
  <2>2. [k \in 1 .. 2 |-> NoFile] = [l1[p] EXCEPT ![2] = NoFile]
    BY <2>1
  <2>3. m = [l1 EXCEPT ![p] = [k \in 1 .. 2 |-> NoFile]]
    BY <1>2, ZenonT(60) DEF Table
  <2> QED
    BY <2>2, <2>3, ZenonT(60)
<1>7. 1 \in 1 .. 2 /\ 2 \in 1 .. 2
  OBVIOUS
<1>8. InOfile(t, t1, l, p, a, l[p][1], f)
  BY <1>1, OfileStep, ZenonT(60)
<1>9. InOfile(t1, u, l, p, b, l[p][2], f)
  BY <1>3, <1>5, OfileStep, ZenonT(60)
<1>10. InLocal(u, l, l1, p, 1, NoFile, f)
  BY <1>2, <1>7, LocalStep, ZenonT(60)
<1>11. InLocal(u, l1, m, p, 2, NoFile, f)
  BY <1>4, <1>6, <1>7, LocalStep, ZenonT(60)
<1>12. /\ Total(t, l, f) \in Nat /\ Total(t1, l, f) \in Nat /\ Total(u, l, f) \in Nat
       /\ Total(u, l1, f) \in Nat /\ Total(u, m, f) \in Nat
  BY TotalNat, Zenon
<1>13. One(NoFile = f) = 0 /\ One(t[p][a] = f) = 0 /\ One(t1[p][b] = f) = 0
  BY <1>3, FinitePlaces, Zenon DEF One
<1>14. Total(t1, l, f) = Total(t, l, f) + One(l[p][1] = f)
  BY <1>8, <1>12, <1>13, SMTT(60) DEF InOfile, One
<1>15. Total(u, l, f) = Total(t1, l, f) + One(l[p][2] = f)
  BY <1>9, <1>12, <1>13, SMTT(60) DEF InOfile, One
<1>16. Total(u, l1, f) + One(l[p][1] = f) = Total(u, l, f)
  BY <1>10, <1>12, <1>13, SMTT(60) DEF InLocal, One
<1>17. Total(u, m, f) + One(l[p][2] = f) = Total(u, l1, f)
  BY <1>4, <1>11, <1>12, <1>13 DEF InLocal, One
<1> QED
  BY <1>12, <1>14, <1>15, <1>16, <1>17 DEF One, HandedOver

(* pipealloc(): a page that nobody has becomes a pipe with both ends. *)
LEMMA PipeAllocFInv ==
  ASSUME FInv, NEW p \in Proc, PipeAlloc(p)
  PROVE  FInv'
<1>1. /\ TypeInv /\ RefInv /\ KindInv /\ PlaceInv /\ EndInv /\ Place(p)
      /\ UNCHANGED <<live, killed, quiet, op>> /\ pc[p] = "kalloc"
  BY Zenon DEF FInv, PipeAlloc, PlaceInv
<1>2. /\ pc \in [Proc -> Label] /\ file \in [File -> FileType] /\ pipe \in [Pipe -> RingType]
      /\ local \in [Proc -> [1 .. 2 -> File \cup {NoFile}]]
      /\ ofile \in [Proc -> [Fd -> File \cup {NoFile}]] /\ page \subseteq Pipe
  BY <1>1, Zenon DEF TypeInv
<1>f. /\ p \in live /\ local[p][1] # NoFile /\ local[p][2] # NoFile /\ op[p].pipe = NoPipe
      /\ local[p][1] # local[p][2]
      /\ \A k \in 1 .. 2 : local[p][k] # NoFile =>
           file[local[p][k]].ref = 1 /\ file[local[p][k]].type = "none"
  <2>1. pc[p] \in Fresh
    BY <1>1, Zenon DEF Fresh
  <2> QED
    BY <1>1, <2>1, FreshFacts, Zenon
<1>k. 1 \in 1 .. 2 /\ 2 \in 1 .. 2
  OBVIOUS
<1>3. PICK rf \in File, wf \in File : rf = local[p][1] /\ wf = local[p][2]
  BY <1>1, <1>f, <1>k, RefFacts, Zenon
<1>4. /\ rf # wf /\ p \in live /\ op[p].pipe = NoPipe /\ rf # NoFile /\ wf # NoFile
      /\ file[rf].ref = 1 /\ file[rf].type = "none" /\ file[wf].ref = 1 /\ file[wf].type = "none"
  BY <1>3, <1>f, <1>k, Zenon
<1>5. /\ \A q \in Proc, d \in Fd : ofile[q][d] # rf /\ ofile[q][d] # wf
      /\ \A q \in Proc \ {p}, k \in 1 .. 2 : local[q][k] # rf /\ local[q][k] # wf
  <2>0. TypeInv /\ RefInv
    BY <1>1, Zenon
  <2>1. /\ \A q \in Proc, d \in Fd : ofile[q][d] # rf
        /\ \A q \in Proc, k \in 1 .. 2 : q # p \/ k # 1 => local[q][k] # rf
    <3>1. rf = local[p][1] /\ rf # NoFile /\ file[rf].ref = 1
      BY <1>3, <1>4, Zenon
    <3> QED
      BY <1>k, <2>0, <3>1, SoleLocal, ZenonT(60)
  <2>2. /\ \A q \in Proc, d \in Fd : ofile[q][d] # wf
        /\ \A q \in Proc, k \in 1 .. 2 : q # p \/ k # 2 => local[q][k] # wf
    <3>1. wf = local[p][2] /\ wf # NoFile /\ file[wf].ref = 1
      BY <1>3, <1>4, Zenon
    <3> QED
      BY <1>k, <2>0, <3>1, SoleLocal, ZenonT(60)
  <2> QED
    BY <2>1, <2>2, Zenon
<1>6. ASSUME Goto(p, "fileclose"), UNCHANGED <<ofile, file, page, pipe, local>>
      PROVE  FInv'
  <2>1. /\ pc'[p] = "fileclose" /\ \A q \in Proc \ {p} : pc'[q] = pc[q]
        /\ pc' \in [Proc -> Label]
    BY <1>2, <1>6, SMTT(60) DEF Goto, Label
  <2>2. TypeInv'
    BY <1>1, <1>6, <2>1, Zenon DEF TypeInv
  <2>3. Place(p)'
    BY <1>1, <1>6, <1>f, <1>k, <2>1, PlaceFileclose, Zenon
  <2> QED
    BY <1>1, <1>6, <2>1, <2>2, <2>3, MoveFInv, ZenonT(60)
<1>7. ASSUME NEW i \in Pipe, i \notin page, page' = page \cup {i},
             pipe' = [pipe EXCEPT ![i] = [NoRing EXCEPT !.open = End]],
             file' = [file EXCEPT
               ![rf] = [ref |-> 1, type |-> "pipe", end |-> "read", pipe |-> i],
               ![wf] = [ref |-> 1, type |-> "pipe", end |-> "write", pipe |-> i]],
             \/ \E a, b \in Fd :
                  /\ a # b /\ ofile[p][a] = NoFile /\ ofile[p][b] = NoFile
                  /\ ofile' = [ofile EXCEPT ![p] = [@ EXCEPT ![a] = rf, ![b] = wf]]
                  /\ local' = [local EXCEPT ![p] = [k \in 1 .. 2 |-> NoFile]]
                  /\ Goto(p, "user")
             \/ Goto(p, "fileclose") /\ UNCHANGED <<ofile, local>>
      PROVE  FInv'
  <2>1. PICK x : x = [ref |-> 1, type |-> "pipe", end |-> "read", pipe |-> i]
    BY Zenon
  <2>2. PICK y : y = [ref |-> 1, type |-> "pipe", end |-> "write", pipe |-> i]
    BY Zenon
  <2>3. /\ x \in FileType /\ x.ref = 1 /\ x.type = "pipe" /\ x.end = "read" /\ x.pipe = i
        /\ y \in FileType /\ y.ref = 1 /\ y.type = "pipe" /\ y.end = "write" /\ y.pipe = i
    BY <2>1, <2>2, Zenon DEF FileType, End
  <2>4. /\ file' \in [File -> FileType] /\ file'[rf] = x /\ file'[wf] = y
        /\ \A g \in File : g # rf /\ g # wf => file'[g] = file[g]
    <3>1. file' = [file EXCEPT ![rf] = x, ![wf] = y]
      BY <1>7, <2>1, <2>2, Zenon
    <3> QED
      BY <1>2, <1>4, <2>3, <3>1
  <2>5. /\ pc'[p] \in {"user", "fileclose"} /\ \A q \in Proc \ {p} : pc'[q] = pc[q]
        /\ pc' \in [Proc -> Label]
        /\ \A q \in Proc \ {p} : ofile'[q] = ofile[q] /\ local'[q] = local[q]
        /\ ofile' \in [Proc -> [Fd -> File \cup {NoFile}]]
        /\ local' \in [Proc -> [1 .. 2 -> File \cup {NoFile}]]
    <3>1. ASSUME NEW a \in Fd, NEW b \in Fd,
                 ofile' = [ofile EXCEPT ![p] = [@ EXCEPT ![a] = rf, ![b] = wf]],
                 local' = [local EXCEPT ![p] = [k \in 1 .. 2 |-> NoFile]]
          PROVE  /\ \A q \in Proc \ {p} : ofile'[q] = ofile[q] /\ local'[q] = local[q]
                 /\ ofile' \in [Proc -> [Fd -> File \cup {NoFile}]]
                 /\ local' \in [Proc -> [1 .. 2 -> File \cup {NoFile}]]
      <4>1. [ofile[p] EXCEPT ![a] = rf, ![b] = wf] \in [Fd -> File \cup {NoFile}]
        BY <1>2, Zenon
      <4>2. [k \in 1 .. 2 |-> NoFile] \in [1 .. 2 -> File \cup {NoFile}]
        BY Zenon
      <4> QED
        BY <1>2, <3>1, <4>1, <4>2, Zenon
    <3>2. /\ pc' = [pc EXCEPT ![p] = "user"] \/ pc' = [pc EXCEPT ![p] = "fileclose"]
          /\ \/ ofile' = ofile /\ local' = local
             \/ \E a, b \in Fd :
                  /\ ofile' = [ofile EXCEPT ![p] = [@ EXCEPT ![a] = rf, ![b] = wf]]
                  /\ local' = [local EXCEPT ![p] = [k \in 1 .. 2 |-> NoFile]]
      BY <1>7, Zenon DEF Goto
    <3>3. /\ pc'[p] \in {"user", "fileclose"} /\ \A q \in Proc \ {p} : pc'[q] = pc[q]
          /\ pc' \in [Proc -> Label]
      BY <1>2, <3>2, Zenon DEF Label
    <3>4. /\ \A q \in Proc \ {p} : ofile'[q] = ofile[q] /\ local'[q] = local[q]
          /\ ofile' \in [Proc -> [Fd -> File \cup {NoFile}]]
          /\ local' \in [Proc -> [1 .. 2 -> File \cup {NoFile}]]
      <4>1. CASE ofile' = ofile /\ local' = local
        BY <1>2, <4>1, Zenon
      <4> QED
        BY <3>1, <3>2, <4>1, SMTT(60)
    <3> QED
      BY <3>3, <3>4, ZenonT(60)
  <2>6. /\ pipe' \in [Pipe -> RingType] /\ pipe'[i].open = End
        /\ \A j \in Pipe : j # i => pipe'[j] = pipe[j]
    <3>1. PICK r : r = [NoRing EXCEPT !.open = End]
      BY Zenon
    <3>2. r \in RingType /\ r.open = End
      BY <3>1, NoRingType, SMTT(60) DEF RingType
    <3> QED
      BY <1>2, <1>7, <3>1, <3>2
  <2>7. TypeInv'
    <3>1. page' \subseteq Pipe
      BY <1>2, <1>7, SMTT(60)
    <3> QED
      BY <1>1, <2>4, <2>5, <2>6, <3>1 DEF TypeInv
  <2>8. RefInv'
    <3>1. ASSUME NEW g \in File PROVE Total(ofile', local', g) = Total(ofile, local, g)
      <4>1. ASSUME NEW a \in Fd, NEW b \in Fd, a # b, ofile[p][a] = NoFile, ofile[p][b] = NoFile,
                   ofile' = [ofile EXCEPT ![p] = [@ EXCEPT ![a] = rf, ![b] = wf]],
                   local' = [local EXCEPT ![p] = [k \in 1 .. 2 |-> NoFile]]
            PROVE  HandedOver(ofile, local, ofile', local', g)
        <5>1. ofile' = [ofile EXCEPT ![p] = [@ EXCEPT ![a] = local[p][1], ![b] = local[p][2]]]
          BY <1>3, <4>1, Zenon
        <5> QED
          BY <1>1, <4>1, <5>1, Tables, Handover, ZenonT(60)
      <4>2. CASE ofile' = ofile /\ local' = local
        BY <4>2, Zenon
      <4> QED
        BY <1>7, <4>1, <4>2, SMTT(60) DEF HandedOver
    <3>2. \A g \in File : file'[g].ref = file[g].ref
      BY <1>4, <2>3, <2>4
    <3> QED
      BY <1>1, <3>1, <3>2, ZenonT(60) DEF RefInv
  <2>9. KindInv'
    BY <1>1, <1>7, <2>3, <2>4, SMTT(60) DEF KindInv, End
  <2>10. PlaceInv'
    <3>1. ASSUME NEW q \in Proc \ {p} PROVE Place(q)'
      <4>1. Place(q)
        BY <1>1, SMTT(60) DEF PlaceInv
      <4>2. \A j \in 1 .. 2 : local[q][j] # NoFile => file'[local[q][j]] = file[local[q][j]]
        BY <1>1, <1>5, <2>4, RefFacts, ZenonT(60)
      <4>3. \A d \in Fd : ofile[q][d] # NoFile => Kept(ofile[q][d])
        BY <1>1, <1>5, <2>4, RefFacts, ZenonT(60) DEF Kept
      <4> QED
        BY <1>1, <2>5, <4>1, <4>2, <4>3, PlaceFrame, ZenonT(60)
    <3>2. Place(p)'
      <4>1. CASE pc'[p] = "user"
        <5>1. \A k \in 1 .. 2 : local'[p][k] = NoFile
          BY <1>2, <1>7, <4>1, SMTT(60) DEF Goto
        <5> QED
          BY <1>1, <1>4, <4>1, <5>1, ZenonT(60) DEF Place, Io, Fresh
      <4>2. CASE pc'[p] = "fileclose"
        <5>1. local' = local
          BY <1>2, <1>7, <4>2, Zenon DEF Goto
        <5> QED
          BY <1>1, <1>f, <1>k, <4>2, <5>1, PlaceFileclose, Zenon
      <4> QED
        BY <2>5, <4>1, <4>2, ZenonT(60)
    <3> QED
      BY <3>1, <3>2, Others, Zenon
  <2>11. EndInv'
    <3>1. \A g \in File, end \in End : ~ Has(g, i, end)
      BY <1>1, <1>7, Zenon DEF EndInv
    <3>2. \A q \in Proc, end \in End : ~ Closes(q, i, end)
      BY <1>1, <1>7, SMTT(60) DEF EndInv
    <3>3. \A q \in Proc, j \in Pipe, end \in End : Closes(q, j, end)' <=> Closes(q, j, end)
      BY <1>1, <2>5, Zenon DEF Closes
    <3>4. \A g \in File, j \in Pipe, end \in End : j # i => (Has(g, j, end)' <=> Has(g, j, end))
      BY <1>4, <2>3, <2>4, SMTT(60) DEF Has
    <3>5. \A g \in File, end \in End :
            Has(g, i, end)' <=> g = IF end = "read" THEN rf ELSE wf
      <4>1. \A g \in File, end \in End : g # rf /\ g # wf => ~ Has(g, i, end)'
        BY <2>4, <3>1, SMTT(60) DEF Has
      <4>2. \A end \in End : Has(rf, i, end)' <=> end = "read"
        BY <2>3, <2>4, Zenon DEF Has
      <4>3. \A end \in End : Has(wf, i, end)' <=> end = "write"
        BY <2>3, <2>4, SMTT(60) DEF Has
      <4> QED
        BY <1>4, <4>1, <4>2, <4>3, Zenon DEF End
    <3>6. ASSUME NEW j \in Pipe
          PROVE  /\ j \in page' <=> pipe'[j].open # {}
                 /\ \A end \in End :
                      /\ end \in pipe'[j].open <=> \/ \E f \in File : Has(f, j, end)'
                                                   \/ \E q \in Proc : Closes(q, j, end)'
                      /\ \A f, g \in File : Has(f, j, end)' /\ Has(g, j, end)' => f = g
                      /\ \A q, r \in Proc : Closes(q, j, end)' /\ Closes(r, j, end)' => q = r
                      /\ \A f \in File, q \in Proc : ~ (Has(f, j, end)' /\ Closes(q, j, end)')
      <4>1. CASE j = i
        <5>1. j \in page' /\ pipe'[j].open = End /\ End # {}
          BY <1>7, <2>6, <4>1, Zenon DEF End
        <5>2. \A end \in End : \E f \in File : Has(f, j, end)'
          BY <3>5, <4>1, Zenon
        <5> QED
          BY <3>2, <3>3, <3>5, <4>1, <5>1, <5>2, ZenonT(60)
      <4>2. CASE j # i
        <5>1. (j \in page' <=> j \in page) /\ pipe'[j] = pipe[j]
          BY <1>7, <2>6, <4>2, Zenon
        <5> QED
          BY <1>1, <3>3, <3>4, <4>2, <5>1, ZenonT(60) DEF EndInv
      <4> QED
        BY <4>1, <4>2, ZenonT(60)
    <3> QED
      BY <3>6, ZenonT(60) DEF EndInv
  <2> QED
    BY <2>7, <2>8, <2>9, <2>10, <2>11 DEF FInv
<1>8. CASE \E i \in Pipe : i \notin page /\ page' = page \cup {i}
  <2>1. PICK i \in Pipe :
          /\ i \notin page /\ page' = page \cup {i}
          /\ pipe' = [pipe EXCEPT ![i] = [NoRing EXCEPT !.open = End]]
          /\ file' = [file EXCEPT
               ![rf] = [ref |-> 1, type |-> "pipe", end |-> "read", pipe |-> i],
               ![wf] = [ref |-> 1, type |-> "pipe", end |-> "write", pipe |-> i]]
          /\ \/ \E a \in Fd, b \in Fd :
                  /\ /\ a \in {fd \in Fd : ofile[p][fd] = NoFile}
                     /\ b \in {fd \in Fd : ofile[p][fd] = NoFile} /\ a < b
                  /\ ofile' = [ofile EXCEPT ![p] = [@ EXCEPT ![a] = rf, ![b] = wf]]
                  /\ local' = [local EXCEPT ![p] = [k \in 1 .. 2 |-> NoFile]]
                  /\ Goto(p, "user")
             \/ Goto(p, "fileclose") /\ UNCHANGED <<ofile, local>>
    BY <1>3, <1>8, ZenonT(60) DEF PipeAlloc
  <2>2. \A a, b \in Fd : a < b => a # b
    BY DEF Fd
  <2> QED
    BY <1>7, <2>1, <2>2, ZenonT(60)
<1>9. CASE ~ \E i \in Pipe : i \notin page /\ page' = page \cup {i}
  BY <1>6, <1>9, ZenonT(60) DEF PipeAlloc
<1> QED
  BY <1>8, <1>9, Zenon
================================================================================
