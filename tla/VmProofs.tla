-------------------------------- MODULE VmProofs --------------------------------
(***************************************************************************)
(* Proofs about Vm: no page is lost or freed twice, the pages of a process *)
(* are those of its size, and exec() gives back what it takes, for any     *)
(* number of processes and any sizes of pages, tables and memory.          *)
(***************************************************************************)
EXTENDS Vm, Integers, TLAPS

(* What PGROUNDUP() counts: the pages that x units take. *)
Up(x) == (x + PGSIZE - 1) \div PGSIZE

--------------------------------------------------------------------------------
(* Arithmetic of pages and tables. *)

(* The constants, one by one. *)
LEMMA Constants ==
  /\ PGSIZE \in Nat /\ NPTENTRIES \in Nat /\ KERNBASE \in Nat /\ UINT \in Nat
  /\ End \in Nat /\ Mid \in Nat /\ PHYSTOP \in Nat
  /\ 0 < PGSIZE /\ 0 < NPTENTRIES /\ 0 < End /\ 0 < Mid
  /\ 0 < KERNBASE /\ 2 * KERNBASE <= UINT
  BY VmAssumption

(* What a quotient is. *)
LEMMA Quotient ==
  ASSUME NEW d \in Nat, 0 < d, NEW x \in Nat
  PROVE  /\ x \div d \in Nat
         /\ d * (x \div d) <= x /\ x < d * (x \div d) + d
<1>1. x \div d \in Nat
  OBVIOUS
<1>2. x = d * (x \div d) + (x % d)
  OBVIOUS
<1>3. x % d \in Nat /\ x % d < d
  OBVIOUS
<1>4. PICK y \in Nat : y = d * (x \div d)
  BY <1>1
<1> QED
  BY <1>1, <1>2, <1>3, <1>4

(* A quotient is the number of times the divisor fits. *)
LEMMA QuotientIs ==
  ASSUME NEW d \in Nat, 0 < d, NEW q \in Nat, NEW r \in Nat, r < d
  PROVE  (d * q + r) \div d = q
  OBVIOUS

(* Products are monotone. *)
LEMMA Monotone ==
  ASSUME NEW d \in Nat, 0 < d, NEW v \in Nat, NEW w \in Nat
  PROVE  /\ v < w <=> v * d < w * d
         /\ v < w => v * d + d <= w * d
<1>1. v < w => v * d + d <= w * d
  <2> SUFFICES ASSUME v < w PROVE v * d + d <= w * d
    BY Zenon
  <2>1. PICK k \in Nat : w = v + 1 + k
    <3>1. w - v - 1 \in Nat /\ w = v + 1 + (w - v - 1)
      OBVIOUS
    <3> QED
      BY <3>1, Zenon
  <2>2. w * d = v * d + d + k * d
    BY <2>1
  <2>3. k * d \in Nat /\ v * d \in Nat
    OBVIOUS
  <2> QED
    BY <2>2, <2>3
<1>2. w <= v => w * d <= v * d
  <2> SUFFICES ASSUME w <= v PROVE w * d <= v * d
    BY Zenon
  <2>1. PICK k \in Nat : v = w + k
    <3>1. v - w \in Nat /\ v = w + (v - w)
      OBVIOUS
    <3> QED
      BY <3>1, Zenon
  <2>2. v * d = w * d + k * d
    BY <2>1
  <2>3. k * d \in Nat /\ w * d \in Nat
    OBVIOUS
  <2> QED
    BY <2>2, <2>3
<1>3. v * d \in Nat /\ w * d \in Nat
  OBVIOUS
<1> QED
  BY <1>1, <1>2, <1>3

(* The page v has a unit below x if and only if it is one of x's pages. *)
LEMMA UpIs ==
  ASSUME NEW x \in Nat, NEW v \in Nat
  PROVE  Up(x) \in Nat /\ (v * PGSIZE < x <=> v < Up(x))
<1>1. PICK d \in Nat : d = PGSIZE /\ 0 < d
  BY Constants, Zenon
<1>2. PICK y \in Nat : y = x + d - 1
  BY <1>1
<1>3. PICK u \in Nat : u = y \div d /\ d * u <= y /\ y < d * u + d
  BY <1>1, Quotient, Zenon
<1>4. Up(x) = u
  BY <1>1, <1>2, <1>3, Zenon DEF Up
<1>5. PICK a \in Nat : a = u * d /\ a = d * u
  BY <1>1
<1>6. PICK b \in Nat : b = v * d
  BY <1>1
<1>7. (v < u => b + d <= a) /\ (u < v => a + d <= b) /\ (u = v => a = b)
  BY <1>1, <1>5, <1>6, Monotone, Zenon
<1> QED
  BY <1>1, <1>2, <1>3, <1>4, <1>5, <1>6, <1>7

(* Up is monotone. *)
LEMMA UpMonotone ==
  ASSUME NEW x \in Nat, NEW y \in Nat, x <= y
  PROVE  Up(x) <= Up(y)
<1>1. Up(x) \in Nat /\ Up(y) \in Nat /\ PGSIZE \in Nat
  BY UpIs, Constants, Zenon
<1>2. PICK b \in Nat : b = Up(y) * PGSIZE
  BY <1>1
<1>3. ~ (b < y)
  BY <1>1, <1>2, UpIs
<1>4. ~ (b < x)
  BY <1>2, <1>3
<1> QED
  BY <1>1, <1>2, <1>4, UpIs

(* Whole pages. *)
LEMMA UpWhole ==
  ASSUME NEW n \in Nat
  PROVE  /\ n * PGSIZE \in Nat /\ Up(n * PGSIZE) = n
         /\ (n * PGSIZE) \div PGSIZE = n
         /\ (n + 1) * PGSIZE = n * PGSIZE + PGSIZE
<1>1. PICK d \in Nat : d = PGSIZE /\ 0 < d
  BY Constants, Zenon
<1>2. PICK b \in Nat : b = n * d /\ b = d * n
  BY <1>1
<1>3. (b + 0) \div d = n /\ (b + (d - 1)) \div d = n
  BY <1>1, <1>2, QuotientIs
<1>4. b + (d - 1) = b + d - 1 /\ b + 0 = b
  BY <1>1
<1>5. (n + 1) * d = n * d + d
  BY <1>1
<1> QED
  BY <1>1, <1>2, <1>3, <1>4, <1>5, Zenon DEF Up

(* PGROUNDUP() gives whole pages. *)
LEMMA RoundUp ==
  ASSUME NEW x \in Nat
  PROVE  PGROUNDUP(x) = Up(x) * PGSIZE /\ PGROUNDUP(x) \in Nat /\ Up(PGROUNDUP(x)) = Up(x)
<1>1. PGROUNDUP(x) = Up(x) * PGSIZE /\ Up(x) \in Nat
  BY UpIs, Zenon DEF PGROUNDUP, Up
<1> QED
  BY <1>1, UpWhole, Zenon

(* User pages: KERNBASE is a whole number of tables. *)
LEMMA UserPages ==
  /\ Up(KERNBASE) \in Nat /\ 0 < Up(KERNBASE) /\ KERNBASE = Up(KERNBASE) * PGSIZE
  /\ VPage = 0 .. Up(KERNBASE) - 1
  /\ KernelTable \in Nat /\ 0 < KernelTable
  /\ \A n \in VPage : (n * PGSIZE) \div (PGSIZE * NPTENTRIES) \in Pdx
<1>1. PICK p \in Nat : p = PGSIZE /\ 0 < p
  BY Constants, Zenon
<1>2. PICK n \in Nat : n = NPTENTRIES /\ 0 < n
  BY Constants, Zenon
<1>3. PICK d \in Nat : d = p * n /\ 0 < d
  BY <1>1, <1>2
<1>4. PICK k \in Nat : k = KERNBASE /\ 0 < k /\ k % d = 0
  BY <1>1, <1>2, <1>3, Constants, VmAssumption, Zenon
<1>5. PICK t \in Nat : t = k \div d
  BY <1>3, <1>4, Quotient, Zenon
<1>6. k = d * t
  <2>1. k = d * (k \div d) + (k % d)
    BY <1>3, <1>4
  <2> QED
    BY <1>3, <1>4, <1>5, <2>1
<1>7. 0 < t
  <2>1. t = 0 => d * t = 0
    OBVIOUS
  <2> QED
    BY <1>4, <1>6, <2>1
<1>8. KernelTable = t
  BY <1>1, <1>2, <1>3, <1>4, <1>5, Zenon DEF KernelTable
<1>9. PICK m \in Nat : m = n * t /\ 0 < m
  BY <1>2, <1>7
<1>10. k = m * p
  BY <1>3, <1>6, <1>9
<1>11. Up(KERNBASE) = m /\ KERNBASE \div PGSIZE = m
  BY <1>1, <1>4, <1>9, <1>10, UpWhole
<1>12. ASSUME NEW v \in VPage
       PROVE  (v * PGSIZE) \div (PGSIZE * NPTENTRIES) \in Pdx
  <2>1. v \in Nat /\ v < m
    BY <1>9, <1>11 DEF VPage
  <2>2. PICK y \in Nat : y = v * p
    BY <1>1, <2>1
  <2>3. y < k
    BY <1>1, <1>9, <1>10, <2>1, <2>2, Monotone, Zenon
  <2>4. PICK q \in Nat : q = y \div d /\ d * q <= y
    BY <1>3, Quotient, Zenon
  <2>5. q < t
    <3>1. ~ (q < t) => t * d <= q * d
      BY <1>3, Monotone
    <3>2. t * d = d * t /\ q * d = d * q
      OBVIOUS
    <3>3. t * d \in Nat /\ q * d \in Nat
      OBVIOUS
    <3> QED
      BY <1>6, <2>2, <2>3, <2>4, <3>1, <3>2, <3>3
  <2> QED
    BY <1>1, <1>2, <1>3, <1>8, <2>2, <2>4, <2>5 DEF Pdx
<1> QED
  BY <1>1, <1>4, <1>7, <1>8, <1>9, <1>10, <1>11, <1>12, Zenon DEF VPage

(* Memory is a set of page numbers, of which 0 is none. *)
LEMMA MemoryPages ==
  Memory \subseteq Nat /\ None \notin Memory
<1>1. ASSUME NEW s \in Nat, 0 < s, NEW e \in Nat
      PROVE  FreeRange(s, e) \subseteq Nat /\ 0 \notin FreeRange(s, e)
  <2>1. PGROUNDUP(s) \in Nat /\ 0 < PGROUNDUP(s)
    <3>1. PICK y \in Nat : y = Up(s)
      BY UpIs, Zenon
    <3>2. 0 < y
      <4>1. 0 * PGSIZE < s
        BY <1>1, Constants
      <4> QED
        BY <3>1, <4>1, UpIs, Zenon
    <3>3. 0 < y * PGSIZE
      BY <3>2, Constants
    <3> QED
      BY <3>1, <3>3, RoundUp, Zenon
  <2>2. 0 * PGSIZE = 0
    BY Constants
  <2> QED
    BY <2>1, <2>2 DEF FreeRange
<1> QED
  BY <1>1, Constants, Zenon DEF Memory, None

--------------------------------------------------------------------------------
(* Slots of an address space. *)

(* The slots are different from each other. *)
LEMMA SlotsDiffer ==
  /\ Dir \in Slot
  /\ \A i \in Pdx : Tab(i) \in Slot /\ Tab(i) # Dir
  /\ \A v \in VPage : Map(v) \in Slot /\ Map(v) # Dir /\ \A i \in Pdx : Map(v) # Tab(i)
  /\ \A i, k \in Pdx : Tab(i) = Tab(k) => i = k
  /\ \A v, w \in VPage : Map(v) = Map(w) => v = w
  /\ KernelTable \in Pdx /\ 0 \in Pdx /\ 0 \in VPage
<1>1. KernelTable \in Pdx /\ 0 \in Pdx /\ 0 \in VPage
  BY UserPages DEF Pdx
<1> QED
  BY <1>1, Zenon DEF Slot, Dir, Tab, Map

(* deallocuvm() clears the slots of the pages that only the old size has. *)
LEMMA DeallocIs ==
  ASSUME NEW o \in Nat, NEW n \in Nat
  PROVE  /\ Dealloc(o, n) \subseteq Slot
         /\ \A v \in VPage : Map(v) \in Dealloc(o, n) <=> Up(n) <= v /\ v < Up(o)
<1>1. \A v \in VPage : v \in Nat
  BY UserPages
<1>2. Dealloc(o, n) \subseteq Slot
  BY SlotsDiffer, Zenon DEF Dealloc
<1>3. ASSUME NEW v \in VPage
      PROVE  Map(v) \in Dealloc(o, n) <=> PGROUNDUP(n) <= v * PGSIZE /\ v * PGSIZE < o
  BY SlotsDiffer, Zenon DEF Dealloc
<1>4. ASSUME NEW v \in VPage
      PROVE  PGROUNDUP(n) <= v * PGSIZE <=> Up(n) <= v
  <2>1. PICK u \in Nat : u = Up(n)
    BY UpIs, Zenon
  <2>2. PICK d \in Nat : d = PGSIZE /\ 0 < d
    BY Constants, Zenon
  <2>3. v < u <=> v * d < u * d
    BY <1>1, <2>2, Monotone, Zenon
  <2>4. v * d \in Nat /\ u * d \in Nat
    BY <1>1
  <2> QED
    BY <1>1, <2>1, <2>2, <2>3, <2>4, RoundUp
<1> QED
  BY <1>1, <1>2, <1>3, <1>4, UpIs, Zenon

(* freevm() frees the pages of every slot. *)
LEMMA FreevmAll ==
  ASSUME NEW h \in Space
  PROVE  Freevm(h) = Frames(h, Slot)
<1>1. KERNBASE \in Nat /\ 0 \in Nat
  BY Constants, Zenon
<1>2. Up(0) = 0
  <2>1. Up(0) \in Nat /\ ~ (0 < Up(0))
    BY Constants, UpIs
  <2> QED
    BY <2>1
<1>3. \A v \in VPage : Map(v) \in Dealloc(KERNBASE, 0)
  BY <1>1, <1>2, DeallocIs, UserPages
<1>4. Dealloc(KERNBASE, 0) \subseteq Slot
  BY <1>1, DeallocIs, Zenon
<1>5. Dealloc(KERNBASE, 0) \cup {Tab(i) : i \in Pdx} \cup {Dir} = Slot
  BY <1>3, <1>4, Zenon DEF Slot
<1> QED
  BY <1>5, Zenon DEF Freevm

--------------------------------------------------------------------------------
(* Who owns a page: the free list f, the kernel stacks k, the address spaces a. *)

Typed(f, k, a) ==
  /\ f \subseteq Memory
  /\ k \in [Proc -> Memory \cup {None}]
  /\ a \in [Space -> [Slot -> Memory \cup {None}]]

Owned(f, k, a) ==
  /\ \A m \in Memory : \/ m \in f
                       \/ \E p \in Proc : k[p] = m
                       \/ \E h \in Space, x \in Slot : a[h][x] = m
  /\ \A p \in Proc : k[p] # None =>
       k[p] \notin f /\ \A q \in Proc : k[q] = k[p] => q = p
  /\ \A h \in Space, x \in Slot : a[h][x] # None =>
       /\ a[h][x] \notin f
       /\ \A q \in Proc : k[q] # a[h][x]
       /\ \A g \in Space, y \in Slot : a[g][y] = a[h][x] => g = h /\ y = x

Put(a, h, x, m) == [a EXCEPT ![h] = [a[h] EXCEPT ![x] = m]]
Clear(a, h, xs) == [a EXCEPT ![h] = [x \in Slot |-> IF x \in xs THEN None ELSE a[h][x]]]
Move(a, g, h) == [a EXCEPT ![g] = a[h], ![h] = NoSpace]
In(a, h, xs) == {a[h][x] : x \in xs} \ {None}

PutKeeps(f, k, a, h, x, m) ==
  /\ Typed(f \ {m}, k, Put(a, h, x, m)) /\ Owned(f \ {m}, k, Put(a, h, x, m))
  /\ \A g \in Space : g # h => Put(a, h, x, m)[g] = a[g]
  /\ \A y \in Slot : y # x => Put(a, h, x, m)[h][y] = a[h][y]
  /\ Put(a, h, x, m)[h][x] = m

ClearKeeps(f, k, a, h, xs) ==
  /\ Typed(f \cup In(a, h, xs), k, Clear(a, h, xs))
  /\ Owned(f \cup In(a, h, xs), k, Clear(a, h, xs))
  /\ \A g \in Space : g # h => Clear(a, h, xs)[g] = a[g]
  /\ \A y \in Slot : Clear(a, h, xs)[h][y] = IF y \in xs THEN None ELSE a[h][y]

MoveKeeps(f, k, a, g, h) ==
  /\ Typed(f, k, Move(a, g, h)) /\ Owned(f, k, Move(a, g, h))
  /\ Move(a, g, h)[g] = a[h] /\ Move(a, g, h)[h] = NoSpace
  /\ \A i \in Space : i # g /\ i # h => Move(a, g, h)[i] = a[i]

(* A free page goes into an empty slot. *)
LEMMA PutOwned ==
  ASSUME NEW f, NEW k, NEW a, Typed(f, k, a), Owned(f, k, a),
         NEW m \in f, NEW h \in Space, NEW x \in Slot, a[h][x] = None
  PROVE  PutKeeps(f, k, a, h, x, m)
<1>1. PICK b : b = Put(a, h, x, m)
  BY Zenon
<1>2. m \in Memory /\ m # None
  BY MemoryPages, Zenon DEF Typed
<1>3. b \in [Space -> [Slot -> Memory \cup {None}]]
  BY <1>1, <1>2, Zenon DEF Typed, Put
<1>4. \A g \in Space, y \in Slot : b[g][y] = IF g = h /\ y = x THEN m ELSE a[g][y]
  BY <1>1, Zenon DEF Typed, Put
<1>5. Typed(f \ {m}, k, b)
  BY <1>3, Zenon DEF Typed
<1>6. \A n \in Memory : \/ n \in f \ {m}
                        \/ \E p \in Proc : k[p] = n
                        \/ \E g \in Space, y \in Slot : b[g][y] = n
  <2> SUFFICES ASSUME NEW n \in Memory
               PROVE  \/ n \in f \ {m}
                      \/ \E p \in Proc : k[p] = n
                      \/ \E g \in Space, y \in Slot : b[g][y] = n
    BY Zenon
  <2>1. CASE n = m
    <3>1. b[h][x] = n
      BY <1>4, <2>1, Zenon
    <3> QED
      BY <3>1, Zenon
  <2>2. CASE n # m /\ \E g \in Space, y \in Slot : a[g][y] = n
    <3>1. PICK g \in Space, y \in Slot : a[g][y] = n
      BY <2>2, Zenon
    <3>2. n # None
      BY MemoryPages, Zenon
    <3>3. b[g][y] = n
      BY <1>4, <3>1, <3>2, Zenon
    <3> QED
      BY <3>3, Zenon
  <2> QED
    BY <2>1, <2>2, Zenon DEF Owned
<1>7. \A p \in Proc : k[p] # None =>
        k[p] \notin f \ {m} /\ \A q \in Proc : k[q] = k[p] => q = p
  BY Zenon DEF Owned
<1>8. \A g \in Space, y \in Slot : b[g][y] # None =>
        /\ b[g][y] \notin f \ {m}
        /\ \A q \in Proc : k[q] # b[g][y]
        /\ \A i \in Space, z \in Slot : b[i][z] = b[g][y] => i = g /\ z = y
  <2> SUFFICES ASSUME NEW g \in Space, NEW y \in Slot, b[g][y] # None
               PROVE  /\ b[g][y] \notin f \ {m}
                      /\ \A q \in Proc : k[q] # b[g][y]
                      /\ \A i \in Space, z \in Slot : b[i][z] = b[g][y] => i = g /\ z = y
    BY Zenon
  <2>1. CASE g = h /\ y = x
    BY <1>2, <1>4, <2>1 DEF Owned
  <2>2. CASE ~ (g = h /\ y = x)
    BY <1>2, <1>4, <2>2 DEF Owned
  <2> QED
    BY <2>1, <2>2, Zenon
<1>9. Owned(f \ {m}, k, b)
  BY <1>6, <1>7, <1>8, Zenon DEF Owned
<1>10. \A g \in Space : g # h => b[g] = a[g]
  BY <1>1, Zenon DEF Typed, Put
<1> QED
  BY <1>1, <1>4, <1>5, <1>9, <1>10, Zenon DEF PutKeeps

(* The pages of some slots are freed. *)
LEMMA ClearOwned ==
  ASSUME NEW f, NEW k, NEW a, Typed(f, k, a), Owned(f, k, a),
         NEW h \in Space, NEW xs \in SUBSET Slot
  PROVE  ClearKeeps(f, k, a, h, xs)
<1>1. PICK b : b = Clear(a, h, xs)
  BY Zenon
<1>2. PICK F : F = f \cup In(a, h, xs)
  BY Zenon
<1>3. b \in [Space -> [Slot -> Memory \cup {None}]]
  BY <1>1, Zenon DEF Typed, Clear
<1>4. \A g \in Space, y \in Slot : b[g][y] = IF g = h /\ y \in xs THEN None ELSE a[g][y]
  BY <1>1, Zenon DEF Typed, Clear
<1>5. \A n : n \in F <=> n \in f \/ (n # None /\ \E x \in xs : a[h][x] = n)
  BY <1>2, Zenon DEF In
<1>6. Typed(F, k, b)
  BY <1>3, <1>5 DEF Typed
<1>7. \A n \in Memory : \/ n \in F
                        \/ \E p \in Proc : k[p] = n
                        \/ \E g \in Space, y \in Slot : b[g][y] = n
  <2> SUFFICES ASSUME NEW n \in Memory, n \notin F
               PROVE  \/ \E p \in Proc : k[p] = n
                      \/ \E g \in Space, y \in Slot : b[g][y] = n
    BY Zenon
  <2>1. n # None
    BY MemoryPages, Zenon
  <2>2. CASE \E g \in Space, y \in Slot : a[g][y] = n
    <3>1. PICK g \in Space, y \in Slot : a[g][y] = n
      BY <2>2, Zenon
    <3>2. ~ (g = h /\ y \in xs)
      BY <1>5, <2>1, <3>1, Zenon
    <3> QED
      BY <1>4, <3>1, <3>2, Zenon
  <2> QED
    BY <1>5, <2>2, Zenon DEF Owned
<1>8. \A p \in Proc : k[p] # None =>
        k[p] \notin F /\ \A q \in Proc : k[q] = k[p] => q = p
  <2> SUFFICES ASSUME NEW p \in Proc, k[p] # None
               PROVE  k[p] \notin F /\ \A q \in Proc : k[q] = k[p] => q = p
    BY Zenon
  <2>1. \A x \in xs : a[h][x] # k[p]
    BY DEF Owned
  <2> QED
    BY <1>5, <2>1, Zenon DEF Owned
<1>9. \A g \in Space, y \in Slot : b[g][y] # None =>
        /\ b[g][y] \notin F
        /\ \A q \in Proc : k[q] # b[g][y]
        /\ \A i \in Space, z \in Slot : b[i][z] = b[g][y] => i = g /\ z = y
  <2> SUFFICES ASSUME NEW g \in Space, NEW y \in Slot, b[g][y] # None
               PROVE  /\ b[g][y] \notin F
                      /\ \A q \in Proc : k[q] # b[g][y]
                      /\ \A i \in Space, z \in Slot : b[i][z] = b[g][y] => i = g /\ z = y
    BY Zenon
  <2>1. ~ (g = h /\ y \in xs) /\ b[g][y] = a[g][y]
    BY <1>4, Zenon
  <2>2. /\ a[g][y] # None /\ a[g][y] \notin f
        /\ \A q \in Proc : k[q] # a[g][y]
        /\ \A i \in Space, z \in Slot : a[i][z] = a[g][y] => i = g /\ z = y
    BY <2>1, Zenon DEF Owned
  <2>3. \A x \in xs : a[h][x] # a[g][y]
    BY <2>1, <2>2, Zenon
  <2>4. \A i \in Space, z \in Slot : b[i][z] = None \/ b[i][z] = a[i][z]
    BY <1>4, Zenon
  <2> QED
    BY <1>5, <2>1, <2>2, <2>3, <2>4
<1>10. Owned(F, k, b)
  BY <1>7, <1>8, <1>9, Zenon DEF Owned
<1>11. \A g \in Space : g # h => b[g] = a[g]
  BY <1>1, Zenon DEF Typed, Clear
<1> QED
  BY <1>1, <1>2, <1>4, <1>6, <1>10, <1>11, Zenon DEF ClearKeeps

(* A free page becomes a kernel stack. *)
LEMMA StackOwned ==
  ASSUME NEW f, NEW k, NEW a, Typed(f, k, a), Owned(f, k, a),
         NEW m \in f, NEW q \in Proc, k[q] = None
  PROVE  /\ Typed(f \ {m}, [k EXCEPT ![q] = m], a)
         /\ Owned(f \ {m}, [k EXCEPT ![q] = m], a)
<1>1. PICK l : l = [k EXCEPT ![q] = m]
  BY Zenon
<1>2. m \in Memory /\ m # None
  BY MemoryPages, Zenon DEF Typed
<1>3. l \in [Proc -> Memory \cup {None}]
  BY <1>1, <1>2, Zenon DEF Typed
<1>4. l[q] = m /\ \A p \in Proc : p # q => l[p] = k[p]
  BY <1>1, Zenon DEF Typed
<1>5. Typed(f \ {m}, l, a)
  BY <1>3, Zenon DEF Typed
<1>6. \A n \in Memory : \/ n \in f \ {m}
                        \/ \E p \in Proc : l[p] = n
                        \/ \E h \in Space, x \in Slot : a[h][x] = n
  <2> SUFFICES ASSUME NEW n \in Memory
               PROVE  \/ n \in f \ {m}
                      \/ \E p \in Proc : l[p] = n
                      \/ \E h \in Space, x \in Slot : a[h][x] = n
    BY Zenon
  <2>1. CASE n = m
    BY <1>4, <2>1, Zenon
  <2>2. CASE \E p \in Proc : k[p] = n
    <3>1. PICK p \in Proc : k[p] = n
      BY <2>2, Zenon
    <3>2. l[p] = n
      BY <1>4, <3>1, MemoryPages, Zenon
    <3> QED
      BY <3>2, Zenon
  <2> QED
    BY <2>1, <2>2, Zenon DEF Owned
<1>7. \A p \in Proc : l[p] # None =>
        l[p] \notin f \ {m} /\ \A r \in Proc : l[r] = l[p] => r = p
  BY <1>2, <1>4 DEF Owned
<1>8. \A h \in Space, x \in Slot : a[h][x] # None =>
        /\ a[h][x] \notin f \ {m}
        /\ \A p \in Proc : l[p] # a[h][x]
        /\ \A g \in Space, y \in Slot : a[g][y] = a[h][x] => g = h /\ y = x
  BY <1>4 DEF Owned
<1>9. Owned(f \ {m}, l, a)
  BY <1>6, <1>7, <1>8, Zenon DEF Owned
<1> QED
  BY <1>1, <1>5, <1>9, Zenon

(* A kernel stack is freed. *)
LEMMA UnstackOwned ==
  ASSUME NEW f, NEW k, NEW a, Typed(f, k, a), Owned(f, k, a), NEW q \in Proc, k[q] # None
  PROVE  /\ Typed(f \cup {k[q]}, [k EXCEPT ![q] = None], a)
         /\ Owned(f \cup {k[q]}, [k EXCEPT ![q] = None], a)
<1>1. PICK l : l = [k EXCEPT ![q] = None]
  BY Zenon
<1>2. l \in [Proc -> Memory \cup {None}] /\ k[q] \in Memory
  BY <1>1, Zenon DEF Typed
<1>3. l[q] = None /\ \A p \in Proc : p # q => l[p] = k[p]
  BY <1>1, Zenon DEF Typed
<1>4. Typed(f \cup {k[q]}, l, a)
  BY <1>2, Zenon DEF Typed
<1>5. \A n \in Memory : \/ n \in f \cup {k[q]}
                        \/ \E p \in Proc : l[p] = n
                        \/ \E h \in Space, x \in Slot : a[h][x] = n
  <2> SUFFICES ASSUME NEW n \in Memory, n # k[q]
               PROVE \/ n \in f
                     \/ \E p \in Proc : l[p] = n
                     \/ \E h \in Space, x \in Slot : a[h][x] = n
    BY Zenon
  <2>1. CASE \E p \in Proc : k[p] = n
    <3>1. PICK p \in Proc : k[p] = n
      BY <2>1, Zenon
    <3>2. l[p] = n
      BY <1>3, <3>1, Zenon
    <3> QED
      BY <3>2, Zenon
  <2> QED
    BY <2>1, Zenon DEF Owned
<1>6. \A p \in Proc : l[p] # None =>
        l[p] \notin f \cup {k[q]} /\ \A r \in Proc : l[r] = l[p] => r = p
  BY <1>3 DEF Owned
<1>7. \A h \in Space, x \in Slot : a[h][x] # None =>
        /\ a[h][x] \notin f \cup {k[q]}
        /\ \A p \in Proc : l[p] # a[h][x]
        /\ \A g \in Space, y \in Slot : a[g][y] = a[h][x] => g = h /\ y = x
  BY <1>3 DEF Owned
<1>8. Owned(f \cup {k[q]}, l, a)
  BY <1>5, <1>6, <1>7, Zenon DEF Owned
<1> QED
  BY <1>1, <1>4, <1>8, Zenon

(* An address space moves to where there is none. *)
LEMMA MoveOwned ==
  ASSUME NEW f, NEW k, NEW a, Typed(f, k, a), Owned(f, k, a),
         NEW g \in Space, NEW h \in Space, g # h, a[g] = NoSpace
  PROVE  MoveKeeps(f, k, a, g, h)
<1>0. PICK b : b = Move(a, g, h)
  BY Zenon
<1>1. NoSpace \in [Slot -> Memory \cup {None}] /\ \A x \in Slot : NoSpace[x] = None
  BY Zenon DEF NoSpace
<1>2. b \in [Space -> [Slot -> Memory \cup {None}]]
  BY <1>0, <1>1, Zenon DEF Typed, Move
<1>3. b[g] = a[h] /\ b[h] = NoSpace /\ \A i \in Space : i # g /\ i # h => b[i] = a[i]
  BY <1>0, Zenon DEF Typed, Move
<1>4. Typed(f, k, b)
  BY <1>2, Zenon DEF Typed
<1>5. \A n \in Memory : \/ n \in f
                        \/ \E p \in Proc : k[p] = n
                        \/ \E i \in Space, x \in Slot : b[i][x] = n
  <2> SUFFICES ASSUME NEW n \in Memory
               PROVE \/ n \in f
                     \/ \E p \in Proc : k[p] = n
                     \/ \E i \in Space, x \in Slot : b[i][x] = n
    BY Zenon
  <2>1. CASE \E i \in Space, x \in Slot : a[i][x] = n
    <3>1. PICK i \in Space, x \in Slot : a[i][x] = n
      BY <2>1, Zenon
    <3>2. i # g
      BY <1>1, <3>1, MemoryPages, Zenon
    <3>3. b[i][x] = n \/ b[g][x] = n
      BY <1>3, <3>1, <3>2, Zenon
    <3> QED
      BY <3>3, Zenon
  <2> QED
    BY <2>1, Zenon DEF Owned
<1>6. \A p \in Proc : k[p] # None =>
        k[p] \notin f /\ \A q \in Proc : k[q] = k[p] => q = p
  BY Zenon DEF Owned
<1>7. ASSUME NEW i \in Space, NEW x \in Slot, b[i][x] # None
      PROVE  \E j \in Space : /\ b[i][x] = a[j][x] /\ j # g
                              /\ (j = h <=> i = g) /\ (j # h => i = j) /\ i # h
  <2>1. i # h
    BY <1>1, <1>3, <1>7, Zenon
  <2>2. CASE i = g
    <3>1. b[i][x] = a[h][x] /\ h # g
      BY <1>3, <2>2, Zenon
    <3> QED
      BY <2>1, <2>2, <3>1, Zenon
  <2>3. CASE i # g
    <3>1. b[i][x] = a[i][x]
      BY <1>3, <2>1, <2>3, Zenon
    <3> QED
      BY <2>1, <2>3, <3>1, Zenon
  <2> QED
    BY <2>2, <2>3, Zenon
<1>8. ASSUME NEW i \in Space, NEW x \in Slot, b[i][x] # None
      PROVE  /\ b[i][x] \notin f
             /\ \A q \in Proc : k[q] # b[i][x]
             /\ \A j \in Space, y \in Slot : b[j][y] = b[i][x] => j = i /\ y = x
  <2>1. PICK i1 \in Space : /\ b[i][x] = a[i1][x] /\ i1 # g
                            /\ (i1 = h <=> i = g) /\ (i1 # h => i = i1) /\ i # h
    BY <1>7, <1>8, Zenon
  <2>2. b[i][x] \notin f /\ \A q \in Proc : k[q] # b[i][x]
    BY <1>8, <2>1 DEF Owned
  <2>3. ASSUME NEW j \in Space, NEW y \in Slot, b[j][y] = b[i][x]
        PROVE  j = i /\ y = x
    <3>1. PICK j1 \in Space : /\ b[j][y] = a[j1][y] /\ j1 # g
                              /\ (j1 = h <=> j = g) /\ (j1 # h => j = j1) /\ j # h
      BY <1>7, <1>8, <2>3, Zenon
    <3>2. a[i1][x] # None /\ a[j1][y] = a[i1][x]
      BY <1>8, <2>1, <2>3, <3>1, Zenon
    <3>3. \A i2 \in Space, x2 \in Slot : a[i2][x2] # None =>
            \A j2 \in Space, y2 \in Slot : a[j2][y2] = a[i2][x2] => j2 = i2 /\ y2 = x2
      BY Zenon DEF Owned
    <3>4. j1 = i1 /\ y = x
      BY <3>2, <3>3, Zenon
    <3> QED
      BY <2>1, <3>1, <3>4, Zenon
  <2> QED
    BY <2>2, <2>3, Zenon
<1>9. Owned(f, k, b)
  BY <1>5, <1>6, <1>8, Zenon DEF Owned
<1>10. /\ Typed(f, k, b) /\ Owned(f, k, b) /\ b[g] = a[h] /\ b[h] = NoSpace
       /\ \A i \in Space : i # g /\ i # h => b[i] = a[i]
  BY <1>3, <1>4, <1>9, Zenon
<1> QED
  BY <1>0, <1>10, Zenon DEF MoveKeeps

--------------------------------------------------------------------------------
(* The inductive invariant. *)

Job == [a : Nat, oldsz : Nat, newsz : Nat, for : {"none", "sbrk", "seg", "stack"},
        segs : Seq(Proghdr), child : Proc \cup {NoProc}]

TypeInv ==
  /\ Typed(free, kstack, as)
  /\ state \in [Proc -> {"UNUSED", "EMBRYO", "LIVE", "ZOMBIE"}]
  /\ sz \in [Proc -> 0 .. KERNBASE - 1]
  /\ pc \in [Proc -> {"user", "allocuvm", "segments", "loaduvm", "args", "bad", "copyuvm"}]
  /\ job \in [Proc -> Job]
  /\ txn \in [Proc -> {0, 1}]

(* The user pages of the address space A are its first n. *)
Has(A, n) == \A v \in VPage : A[Map(v)] # None <=> v < n

(* The segment that is being loaded ends below the new size. *)
Loading(j) ==
  j.segs # <<>> /\ Head(j.segs).vaddr + Head(j.segs).filesz <= j.newsz

(* In allocuvm(): the pages up to a are there, those of the old size among them. *)
Alloc(cur, new, s, j, t) ==
  /\ j.for \in {"sbrk", "seg", "stack"}
  /\ \E n \in Nat : /\ j.a = n * PGSIZE
                    /\ Has(IF j.for = "sbrk" THEN cur ELSE new, n)
                    /\ Up(j.oldsz) <= n
                    /\ n = Up(j.oldsz) \/ (j.newsz < KERNBASE /\ n <= Up(j.newsz))
  /\ j.for = "sbrk" => new = NoSpace /\ j.oldsz = s /\ s < j.newsz /\ t = 0
  /\ j.for # "sbrk" => Has(cur, Up(s))
  /\ j.for = "seg" => t = 1 /\ j.oldsz < KERNBASE /\ Loading(j)
  /\ j.for = "stack" => t = 0 /\ j.oldsz <= j.newsz

(* In exec(), outside of allocuvm(). *)
Building(cur, new, s, c, j, t) ==
  /\ Has(cur, Up(s)) /\ Has(new, Up(j.newsz)) /\ j.newsz < KERNBASE
  /\ c = "segments" => j.for \in {"none", "seg"} /\ t = 1
  /\ c = "loaduvm" => j.for = "seg" /\ t = 1 /\ Loading(j)
  /\ c = "args" => j.for = "stack" /\ t = 0

Copying(cur, new, s, j, t) ==
  /\ Has(cur, Up(s)) /\ t = 0
  /\ \E n \in Nat : j.a = n * PGSIZE /\ Has(new, n) /\ n <= Up(s)

Resting(cur, new, s, j, t) ==
  new = NoSpace /\ j = NoJob /\ t = 0 /\ (Has(cur, 0) \/ Has(cur, Up(s)))

Failing(cur, s, j, t) == Has(cur, Up(s)) /\ j.for # "sbrk" /\ (t = 0 <=> j.for = "stack")

(* What holds of a process, from its state, kernel stack, spaces, size, ... *)
Local(st, ks, cur, new, s, c, j, t) ==
  /\ ks = None <=> st = "UNUSED"
  /\ st # "LIVE" => c = "user"
  /\ st \in {"UNUSED", "EMBRYO"} => cur = NoSpace
  /\ c = "user" => Resting(cur, new, s, j, t)
  /\ c = "allocuvm" => Alloc(cur, new, s, j, t)
  /\ c \in {"segments", "loaduvm", "args"} => Building(cur, new, s, c, j, t)
  /\ c = "bad" => Failing(cur, s, j, t)
  /\ c = "copyuvm" => Copying(cur, new, s, j, t)

LocalInv(p) ==
  Local(state[p], kstack[p], as[Cur(p)], as[New(p)], sz[p], pc[p], job[p], txn[p])

(* The processes in fork() have children of their own, not yet running. *)
ChildInv ==
  \A p \in Proc : pc[p] = "copyuvm" =>
    /\ job[p].child \in Proc /\ state[job[p].child] = "EMBRYO"
    /\ \A q \in Proc : pc[q] = "copyuvm" /\ job[q].child = job[p].child => q = p

IInv ==
  /\ TypeInv
  /\ Owned(free, kstack, as)
  /\ \A p \in Proc : LocalInv(p)
  /\ ChildInv

--------------------------------------------------------------------------------
(* What the operations on memory do to it. *)

(* The address spaces of the processes. *)
LEMMA Spaces ==
  /\ \A p \in Proc : Cur(p) \in Space /\ New(p) \in Space
  /\ \A p, q \in Proc : Cur(p) # New(q) /\ (Cur(p) = Cur(q) => p = q) /\ (New(p) = New(q) => p = q)
  BY Zenon DEF Space, Cur, New

(* An empty address space has no user pages. *)
LEMMA NoSpaceHas ==
  /\ NoSpace \in [Slot -> Memory \cup {None}]
  /\ \A x \in Slot : NoSpace[x] = None
  /\ Has(NoSpace, 0)
  /\ \A n \in Nat : Has(NoSpace, n) => n = 0
<1>1. NoSpace \in [Slot -> Memory \cup {None}] /\ \A x \in Slot : NoSpace[x] = None
  BY Zenon DEF NoSpace
<1>2. \A v \in VPage : Map(v) \in Slot /\ v \in Nat
  BY SlotsDiffer, UserPages
<1>3. Has(NoSpace, 0)
  BY <1>1, <1>2 DEF Has
<1>4. \A n \in Nat : Has(NoSpace, n) => n = 0
  BY <1>1, <1>2, SlotsDiffer DEF Has
<1> QED
  BY <1>1, <1>3, <1>4, Zenon

(* Mappages() adds the page. *)
LEMMA MappagesAdds ==
  ASSUME Typed(free, kstack, as), Owned(free, kstack, as),
         NEW h \in Space, NEW n \in VPage, as[h][Map(n)] = None,
         Mappages(h, n * PGSIZE)
  PROVE  /\ Typed(free', kstack, as') /\ Owned(free', kstack, as')
         /\ \A g \in Space : g # h => as'[g] = as[g]
         /\ \A v \in VPage : as'[h][Map(v)] # None <=> as[h][Map(v)] # None \/ v = n
<1>1. PICK x \in Slot : x = Pte(n * PGSIZE) /\ x = Map(n)
  BY UserPages, UpWhole, SlotsDiffer DEF Pte
<1>2. PICK y \in Slot : y = Pgtab(n * PGSIZE) /\ \A v \in VPage : Map(v) # y
  <2>1. PICK i \in Pdx : Pgtab(n * PGSIZE) = Tab(i)
    BY UserPages, Zenon DEF Pgtab
  <2> QED
    BY <2>1, SlotsDiffer, Zenon
<1>3. PICK mem \in free :
        IF as[h][y] # None
        THEN /\ free' = free \ {mem}
             /\ as' = [as EXCEPT ![h] = [as[h] EXCEPT ![x] = mem]]
        ELSE \E pgtab \in free \ {mem} :
               /\ free' = free \ {mem, pgtab}
               /\ as' = [as EXCEPT ![h] = [as[h] EXCEPT ![x] = mem, ![y] = pgtab]]
  BY <1>1, <1>2, Zenon DEF Mappages, Kalloc
<1>4. mem # None
  BY MemoryPages, Zenon DEF Typed
<1>5. PICK f, b : f = free \ {mem} /\ b = Put(as, h, x, mem)
  BY Zenon
<1>6. /\ Typed(f, kstack, b) /\ Owned(f, kstack, b)
      /\ \A g \in Space : g # h => b[g] = as[g]
      /\ \A z \in Slot : z # x => b[h][z] = as[h][z]
      /\ b[h][x] = mem
  <2>1. as[h][x] = None
    BY <1>1, Zenon
  <2>2. PutKeeps(free, kstack, as, h, x, mem)
    BY <2>1, PutOwned, Zenon
  <2> QED
    BY <1>5, <2>2, Zenon DEF PutKeeps
<1>7. \A v \in VPage : b[h][Map(v)] # None <=> as[h][Map(v)] # None \/ v = n
  BY <1>1, <1>4, <1>6, SlotsDiffer, Zenon
<1>8. CASE as[h][y] # None
  <2>1. free' = f /\ as' = b
    BY <1>3, <1>5, <1>8, Zenon DEF Put
  <2> QED
    BY <1>6, <1>7, <2>1, Zenon
<1>9. CASE as[h][y] = None
  <2>1. PICK pgtab \in free \ {mem} :
               /\ free' = free \ {mem, pgtab}
               /\ as' = [as EXCEPT ![h] = [as[h] EXCEPT ![x] = mem, ![y] = pgtab]]
    BY <1>3, <1>9, Zenon
  <2>2. pgtab \in f /\ free' = f \ {pgtab}
    BY <1>5, <2>1, Zenon
  <2>3. x # y
    BY <1>1, <1>2, Zenon
  <2>4. as' = Put(b, h, y, pgtab)
    BY <1>5, <2>1, <2>3, Zenon DEF Put, Typed
  <2>5. b[h][y] = None
    BY <1>6, <1>9, <2>3, Zenon
  <2>6. /\ Typed(free', kstack, as') /\ Owned(free', kstack, as')
        /\ \A g \in Space : g # h => as'[g] = b[g]
        /\ \A z \in Slot : z # y => as'[h][z] = b[h][z]
    <3>1. PutKeeps(f, kstack, b, h, y, pgtab)
      BY <1>6, <2>2, <2>5, PutOwned, Zenon
    <3> QED
      BY <2>2, <2>4, <3>1, Zenon DEF PutKeeps
  <2>7. \A v \in VPage : as'[h][Map(v)] = b[h][Map(v)]
    BY <1>2, <2>6, SlotsDiffer, Zenon
  <2> QED
    BY <1>6, <1>7, <2>6, <2>7, Zenon
<1> QED
  BY <1>8, <1>9, Zenon

(* Setupkvm() builds an address space without user pages. *)
LEMMA SetupkvmBuilds ==
  ASSUME Typed(free, kstack, as), Owned(free, kstack, as),
         NEW h \in Space, as[h] = NoSpace, Setupkvm(h)
  PROVE  /\ Typed(free', kstack, as') /\ Owned(free', kstack, as')
         /\ \A g \in Space : g # h => as'[g] = as[g]
         /\ Has(as'[h], 0)
<1>1. PICK x \in Slot : x = Dir
  BY SlotsDiffer, Zenon
<1>2. PICK y \in Slot : y = Tab(KernelTable) /\ x # y
  BY <1>1, SlotsDiffer, Zenon
<1>3. PICK d \in free : \E t \in free \ {d} :
        /\ free' = free \ {d, t}
        /\ as' = [as EXCEPT ![h] = [NoSpace EXCEPT ![x] = d, ![y] = t]]
  BY <1>1, <1>2, Zenon DEF Setupkvm, Kalloc
<1>4. PICK t \in free \ {d} :
        /\ free' = free \ {d, t}
        /\ as' = [as EXCEPT ![h] = [NoSpace EXCEPT ![x] = d, ![y] = t]]
  BY <1>3, Zenon
<1>5. PICK f, b : f = free \ {d} /\ b = Put(as, h, x, d)
  BY Zenon
<1>6. /\ Typed(f, kstack, b) /\ Owned(f, kstack, b)
      /\ \A g \in Space : g # h => b[g] = as[g]
      /\ \A z \in Slot : z # x => b[h][z] = as[h][z]
  <2>1. as[h][x] = None
    BY NoSpaceHas, Zenon
  <2>2. PutKeeps(free, kstack, as, h, x, d)
    BY <2>1, PutOwned, Zenon
  <2> QED
    BY <1>5, <2>2, Zenon DEF PutKeeps
<1>7. t \in f /\ free' = f \ {t}
  BY <1>4, <1>5, Zenon
<1>8. as' = Put(b, h, y, t)
  BY <1>2, <1>4, <1>5, Zenon DEF Put, Typed
<1>9. b[h][y] = None
  BY <1>2, <1>6, NoSpaceHas, Zenon
<1>10. /\ Typed(free', kstack, as') /\ Owned(free', kstack, as')
       /\ \A g \in Space : g # h => as'[g] = b[g]
       /\ \A z \in Slot : z # y => as'[h][z] = b[h][z]
  <2>1. PutKeeps(f, kstack, b, h, y, t)
    BY <1>6, <1>7, <1>9, PutOwned, Zenon
  <2> QED
    BY <1>7, <1>8, <2>1, Zenon DEF PutKeeps
<1>11. \A v \in VPage : Map(v) \in Slot /\ Map(v) # x /\ Map(v) # y /\ v \in Nat
  BY <1>1, <1>2, SlotsDiffer, UserPages
<1>12. \A v \in VPage : as'[h][Map(v)] = None
  BY <1>6, <1>10, <1>11, NoSpaceHas, Zenon
<1>13. Has(as'[h], 0)
  <2>1. \A v \in VPage : ~ (v < 0)
    BY <1>11
  <2> QED
    BY <1>12, <2>1, Zenon DEF Has
<1> QED
  BY <1>6, <1>10, <1>13, Zenon

(* Freevm() leaves nothing behind. *)
LEMMA FreevmClears ==
  ASSUME Typed(free, kstack, as), Owned(free, kstack, as), NEW h \in Space
  PROVE  /\ Typed(free \cup Freevm(h), kstack, [as EXCEPT ![h] = NoSpace])
         /\ Owned(free \cup Freevm(h), kstack, [as EXCEPT ![h] = NoSpace])
         /\ [as EXCEPT ![h] = NoSpace][h] = NoSpace
         /\ \A g \in Space : g # h => [as EXCEPT ![h] = NoSpace][g] = as[g]
<1>1. Freevm(h) = In(as, h, Slot)
  BY FreevmAll, Zenon DEF Frames, In
<1>2. [x \in Slot |-> IF x \in Slot THEN None ELSE as[h][x]] = NoSpace
  BY Zenon DEF NoSpace
<1>3. Clear(as, h, Slot) = [as EXCEPT ![h] = NoSpace]
  BY <1>2, Zenon DEF Clear
<1>4. [as EXCEPT ![h] = NoSpace][h] = NoSpace
  BY Zenon DEF Typed
<1>5. ClearKeeps(free, kstack, as, h, Slot)
  <2>1. Slot \in SUBSET Slot
    BY Zenon
  <2> QED
    BY <2>1, ClearOwned, Zenon
<1> QED
  BY <1>1, <1>3, <1>4, <1>5, Zenon DEF ClearKeeps

(* Deallocuvm() from o to n leaves the pages of n. *)
LEMMA DeallocLeaves ==
  ASSUME Typed(free, kstack, as), Owned(free, kstack, as), NEW h \in Space,
         NEW o \in Nat, NEW n \in Nat, NEW m \in Nat, Has(as[h], m),
         Up(n) <= m, m <= Up(o),
         free' = free \cup Frames(h, Dealloc(o, n)), as' = Cleared(h, Dealloc(o, n))
  PROVE  /\ Typed(free', kstack, as') /\ Owned(free', kstack, as')
         /\ Has(as'[h], Up(n))
         /\ \A g \in Space : g # h => as'[g] = as[g]
<1>1. PICK xs \in SUBSET Slot : xs = Dealloc(o, n)
  BY DeallocIs, Zenon
<1>2. free' = free \cup In(as, h, xs) /\ as' = Clear(as, h, xs)
  BY <1>1, Zenon DEF Frames, In, Cleared, Clear
<1>3. /\ Typed(free', kstack, as') /\ Owned(free', kstack, as')
      /\ \A g \in Space : g # h => as'[g] = as[g]
      /\ \A y \in Slot : as'[h][y] = IF y \in xs THEN None ELSE as[h][y]
  <2>1. ClearKeeps(free, kstack, as, h, xs)
    BY ClearOwned, Zenon
  <2> QED
    BY <1>2, <2>1, Zenon DEF ClearKeeps
<1>4. \A v \in VPage : v \in Nat /\ Map(v) \in Slot
  BY UserPages, SlotsDiffer
<1>5. Up(n) \in Nat /\ Up(o) \in Nat
  BY UpIs, 0 \in Nat, Zenon
<1>6. \A v \in VPage : Map(v) \in xs <=> Up(n) <= v /\ v < Up(o)
  BY <1>1, DeallocIs, Zenon
<1>7. Has(as'[h], Up(n))
  <2> SUFFICES ASSUME NEW v \in VPage
               PROVE  as'[h][Map(v)] # None <=> v < Up(n)
    BY Zenon DEF Has
  <2>1. as[h][Map(v)] # None <=> v < m
    BY Zenon DEF Has
  <2>2. as'[h][Map(v)] = IF Map(v) \in xs THEN None ELSE as[h][Map(v)]
    BY <1>3, <1>4, Zenon
  <2>3. Map(v) \in xs <=> Up(n) <= v /\ v < Up(o)
    BY <1>6, Zenon
  <2>4. PICK u \in Nat, w \in Nat, l \in Nat : u = Up(n) /\ w = Up(o) /\ l = v
    BY <1>4, <1>5, Zenon
  <2>5. v < Up(n) => v < m
    BY <2>4
  <2>6. CASE Map(v) \in xs
    BY <2>2, <2>3, <2>4, <2>6
  <2>7. CASE Map(v) \notin xs
    <3>1. ~ (Up(n) <= v /\ v < Up(o))
      BY <2>3, <2>7, Zenon
    <3>2. v < m => v < Up(n)
      BY <2>4, <3>1
    <3> QED
      BY <2>1, <2>2, <2>5, <2>7, <3>2, Zenon
  <2> QED
    BY <2>6, <2>7, Zenon
<1> QED
  BY <1>3, <1>7, Zenon

--------------------------------------------------------------------------------
(* Steps of a process that leave the others alone. *)

Same(q) ==
  /\ state'[q] = state[q] /\ kstack'[q] = kstack[q]
  /\ as'[Cur(q)] = as[Cur(q)] /\ as'[New(q)] = as[New(q)]
  /\ sz'[q] = sz[q] /\ pc'[q] = pc[q] /\ job'[q] = job[q] /\ txn'[q] = txn[q]

(* What the invariant says of one process. *)
LEMMA Facts ==
  ASSUME IInv, NEW p \in Proc
  PROVE  /\ Typed(free, kstack, as) /\ Owned(free, kstack, as) /\ ChildInv
         /\ state[p] \in {"UNUSED", "EMBRYO", "LIVE", "ZOMBIE"}
         /\ sz[p] \in Nat /\ sz[p] < KERNBASE
         /\ job[p] \in Job
         /\ job[p].a \in Nat /\ job[p].oldsz \in Nat /\ job[p].newsz \in Nat
         /\ job[p].segs \in Seq(Proghdr)
         /\ txn[p] \in {0, 1}
         /\ LocalInv(p)
         /\ pc[p] # "user" => state[p] = "LIVE"
<1>1. sz[p] \in Nat /\ sz[p] < KERNBASE
  BY Constants DEF IInv, TypeInv
<1>2. job[p] \in Job /\ txn[p] \in {0, 1} /\ state[p] \in {"UNUSED", "EMBRYO", "LIVE", "ZOMBIE"}
  BY Zenon DEF IInv, TypeInv
<1>3. /\ job[p].a \in Nat /\ job[p].oldsz \in Nat /\ job[p].newsz \in Nat
      /\ job[p].segs \in Seq(Proghdr)
  BY <1>2, Zenon DEF Job
<1>4. Typed(free, kstack, as) /\ Owned(free, kstack, as) /\ LocalInv(p) /\ ChildInv
  BY Zenon DEF IInv, TypeInv
<1>5. pc[p] # "user" => state[p] = "LIVE"
  BY <1>4, Zenon DEF LocalInv, Local
<1> QED
  BY <1>1, <1>2, <1>3, <1>4, <1>5, Zenon

(* A process none of whose state changes. *)
LEMMA SameLocal ==
  ASSUME NEW q \in Proc, LocalInv(q), Same(q)
  PROVE  LocalInv(q)'
  BY Zenon DEF LocalInv, Same

(* No process enters fork(), and those whose memory is copied stay as they are. *)
LEMMA ChildKept ==
  ASSUME ChildInv,
         \A q \in Proc : pc'[q] = "copyuvm" => pc[q] = "copyuvm" /\ job'[q].child = job[q].child,
         \A q \in Proc : state[q] = "EMBRYO" => state'[q] = "EMBRYO"
  PROVE  ChildInv'
  BY DEF ChildInv

(* Nothing changes. *)
LEMMA Unmoved ==
  ASSUME IInv, NEW p \in Proc
  PROVE  /\ sz = [sz EXCEPT ![p] = sz[p]] /\ pc = [pc EXCEPT ![p] = pc[p]]
         /\ job = [job EXCEPT ![p] = job[p]] /\ txn = [txn EXCEPT ![p] = txn[p]]
  BY Zenon DEF IInv, TypeInv

(* p sets these variables, and memory changes in p's address spaces only. *)
Moves(p, s, c, j, t) ==
  /\ sz' = [sz EXCEPT ![p] = s] /\ pc' = [pc EXCEPT ![p] = c]
  /\ job' = [job EXCEPT ![p] = j] /\ txn' = [txn EXCEPT ![p] = t]
  /\ state' = state /\ kstack' = kstack
  /\ Typed(free', kstack', as') /\ Owned(free', kstack', as')
  /\ \A g \in Space : g # Cur(p) /\ g # New(p) => as'[g] = as[g]

(* The step of one process. *)
LEMMA ProcStep ==
  ASSUME IInv, NEW p \in Proc, NEW s \in 0 .. KERNBASE - 1,
         NEW c \in {"user", "allocuvm", "segments", "loaduvm", "args", "bad", "copyuvm"},
         NEW j \in Job, NEW t \in {0, 1}, Moves(p, s, c, j, t),
         c = "copyuvm" => pc[p] = "copyuvm" /\ j.child = job[p].child,
         Local(state[p], kstack[p], as'[Cur(p)], as'[New(p)], s, c, j, t)
  PROVE  IInv'
<1>1. TypeInv'
  BY Zenon DEF Moves, IInv, TypeInv
<1>2. sz'[p] = s /\ pc'[p] = c /\ job'[p] = j /\ txn'[p] = t
  BY Zenon DEF Moves, IInv, TypeInv
<1>3. LocalInv(p)'
  BY <1>2, Zenon DEF LocalInv, Moves
<1>4. ASSUME NEW q \in Proc, q # p PROVE Same(q)
  <2>1. sz'[q] = sz[q] /\ pc'[q] = pc[q] /\ job'[q] = job[q] /\ txn'[q] = txn[q]
    BY <1>4, Zenon DEF Moves, IInv, TypeInv
  <2>2. as'[Cur(q)] = as[Cur(q)] /\ as'[New(q)] = as[New(q)]
    BY <1>4, Spaces, Zenon DEF Moves
  <2> QED
    BY <2>1, <2>2, Zenon DEF Same, Moves
<1>5. \A q \in Proc : LocalInv(q)'
  <2> SUFFICES ASSUME NEW q \in Proc PROVE LocalInv(q)'
    BY Zenon
  <2>1. CASE q = p
    BY <1>3, <2>1, Zenon
  <2>2. CASE q # p
    <3>1. LocalInv(q)
      BY Zenon DEF IInv
    <3> QED
      BY <1>4, <2>2, <3>1, SameLocal, Zenon
  <2> QED
    BY <2>1, <2>2, Zenon
<1>6. ChildInv'
  <2>1. \A q \in Proc : pc'[q] = "copyuvm" => pc[q] = "copyuvm" /\ job'[q].child = job[q].child
    BY <1>2, <1>4, Zenon DEF Same
  <2>2. ChildInv
    BY Zenon DEF IInv
  <2>3. state' = state
    BY Zenon DEF Moves
  <2> QED
    BY <2>1, <2>2, <2>3, ChildKept, Zenon
<1> QED
  BY <1>1, <1>5, <1>6, Zenon DEF IInv, Moves

(* The records that the code puts into job. *)
LEMMA Jobs ==
  /\ NoJob \in Job
  /\ \A j \in Job : /\ [NoJob EXCEPT !.for = j.for] \in Job
                    /\ [NoJob EXCEPT !.for = j.for].for = j.for
<1>1. <<>> \in Seq(Proghdr)
  OBVIOUS
<1>2. NoJob \in Job
  BY <1>1, Zenon DEF NoJob, Job
<1>3. ASSUME NEW j \in Job
      PROVE  /\ [NoJob EXCEPT !.for = j.for] \in Job
             /\ [NoJob EXCEPT !.for = j.for].for = j.for
  BY <1>1, Zenon DEF NoJob, Job
<1> QED
  BY <1>2, <1>3, Zenon

(* A process returns to user mode. *)
LEMMA UserStep ==
  ASSUME IInv, NEW p \in Proc, state[p] = "LIVE",
         Typed(free', kstack', as'), Owned(free', kstack', as'),
         state' = state, kstack' = kstack,
         \A g \in Space : g # Cur(p) /\ g # New(p) => as'[g] = as[g],
         NEW s \in 0 .. KERNBASE - 1, sz' = [sz EXCEPT ![p] = s],
         Goto(p, "user"), job' = [job EXCEPT ![p] = NoJob], txn' = [txn EXCEPT ![p] = 0],
         as'[New(p)] = NoSpace, Has(as'[Cur(p)], 0) \/ Has(as'[Cur(p)], Up(s))
  PROVE  IInv'
<1>1. NoJob \in Job
  BY Jobs, Zenon
<1>2. pc' = [pc EXCEPT ![p] = "user"]
  BY Zenon DEF Goto
<1>3. PICK c \in {"user", "allocuvm", "segments", "loaduvm", "args", "bad", "copyuvm"} : c = "user"
  BY Zenon
<1>4. PICK j \in Job, t \in {0, 1} : j = NoJob /\ t = 0
  BY <1>1, Zenon
<1>5. kstack[p] # None
  BY Facts, Zenon DEF LocalInv, Local
<1>6. Local(state[p], kstack[p], as'[Cur(p)], as'[New(p)], s, c, j, t)
  BY <1>3, <1>4, <1>5, Zenon DEF Local, Resting
<1>7. Moves(p, s, c, j, t) /\ c # "copyuvm"
  BY <1>2, <1>3, <1>4, Zenon DEF Moves
<1> QED
  BY <1>6, <1>7, ProcStep, Zenon

(* exec() fails. *)
LEMMA BadStep ==
  ASSUME IInv, NEW p \in Proc, state[p] = "LIVE", Bad(p),
         Typed(free', kstack', as'), Owned(free', kstack', as'),
         state' = state, kstack' = kstack,
         \A g \in Space : g # Cur(p) /\ g # New(p) => as'[g] = as[g],
         NEW s \in 0 .. KERNBASE - 1, sz' = [sz EXCEPT ![p] = s],
         NEW t \in {0, 1}, txn' = [txn EXCEPT ![p] = t],
         Failing(as'[Cur(p)], s, job[p], t)
  PROVE  IInv'
<1>1. PICK j : j = [NoJob EXCEPT !.for = job[p].for]
  BY Zenon
<1>2. j \in Job /\ j.for = job[p].for
  BY <1>1, Facts, Jobs, Zenon
<1>3. job' = [job EXCEPT ![p] = j]
  BY <1>1, Zenon DEF Bad
<1>4. PICK c \in {"user", "allocuvm", "segments", "loaduvm", "args", "bad", "copyuvm"} : c = "bad"
  BY Zenon
<1>6. kstack[p] # None
  BY Facts, Zenon DEF LocalInv, Local
<1>7. Local(state[p], kstack[p], as'[Cur(p)], as'[New(p)], s, c, j, t)
  BY <1>2, <1>4, <1>6, Zenon DEF Local, Failing
<1>8. pc' = [pc EXCEPT ![p] = c] /\ c # "copyuvm"
  BY <1>4, Zenon DEF Bad, Goto
<1>9. Moves(p, s, c, j, t)
  BY <1>3, <1>8, Zenon DEF Moves
<1> QED
  BY <1>2, <1>7, <1>8, <1>9, ProcStep, Zenon

(* When memory is as it was. *)
LEMMA MemorySame ==
  ASSUME IInv, free' = free, kstack' = kstack, as' = as
  PROVE  /\ Typed(free', kstack', as') /\ Owned(free', kstack', as')
         /\ \A g \in Space : as'[g] = as[g]
  BY Zenon DEF IInv, TypeInv

(* What allocuvm() needs of its caller. *)
Callable(cur, new, s, for, oldsz, newsz, segs, t) ==
  /\ for \in {"sbrk", "seg", "stack"} /\ oldsz \in Nat /\ newsz \in Nat
  /\ segs \in Seq(Proghdr) /\ t \in {0, 1}
  /\ Has(IF for = "sbrk" THEN cur ELSE new, Up(oldsz))
  /\ for = "sbrk" => new = NoSpace /\ oldsz = s /\ s < newsz /\ t = 0
  /\ for # "sbrk" => Has(cur, Up(s))
  /\ for = "seg" => /\ t = 1 /\ oldsz < KERNBASE /\ segs # <<>>
                    /\ Head(segs).vaddr + Head(segs).filesz <= newsz
  /\ for = "stack" => t = 0 /\ oldsz <= newsz

(* A process calls allocuvm(). *)
LEMMA CallStep ==
  ASSUME IInv, NEW p \in Proc, state[p] = "LIVE",
         free' = free, state' = state, kstack' = kstack, as' = as, sz' = sz,
         NEW for, NEW oldsz, NEW newsz, NEW segs, NEW t,
         Call(p, for, oldsz, newsz, segs), txn' = [txn EXCEPT ![p] = t],
         Callable(as[Cur(p)], as[New(p)], sz[p], for, oldsz, newsz, segs, t)
  PROVE  IInv'
<1>1. /\ for \in {"sbrk", "seg", "stack"} /\ oldsz \in Nat /\ newsz \in Nat
      /\ segs \in Seq(Proghdr) /\ t \in {0, 1}
  BY Zenon DEF Callable
<1>2. PICK j : j = [a |-> PGROUNDUP(oldsz), oldsz |-> oldsz, newsz |-> newsz,
                    for |-> for, segs |-> segs, child |-> NoProc]
  BY Zenon
<1>3. PGROUNDUP(oldsz) \in Nat /\ PGROUNDUP(oldsz) = Up(oldsz) * PGSIZE /\ Up(oldsz) \in Nat
  BY <1>1, RoundUp, UpIs, Zenon
<1>4. /\ j.a = PGROUNDUP(oldsz) /\ j.oldsz = oldsz /\ j.newsz = newsz
      /\ j.for = for /\ j.segs = segs
  BY <1>2, Zenon
<1>5. j \in Job
  BY <1>1, <1>2, <1>3, Zenon DEF Job
<1>6. PICK c \in {"user", "allocuvm", "segments", "loaduvm", "args", "bad", "copyuvm"} : c = "allocuvm"
  BY Zenon
<1>7. job' = [job EXCEPT ![p] = j] /\ pc' = [pc EXCEPT ![p] = c]
  BY <1>2, <1>6, Zenon DEF Call, Goto
<1>8. kstack[p] # None
  BY Facts, Zenon DEF LocalInv, Local
<1>9. Alloc(as[Cur(p)], as[New(p)], sz[p], j, t)
  <2>1. /\ j.for \in {"sbrk", "seg", "stack"}
        /\ j.for = "sbrk" => as[New(p)] = NoSpace /\ j.oldsz = sz[p] /\ sz[p] < j.newsz /\ t = 0
        /\ j.for # "sbrk" => Has(as[Cur(p)], Up(sz[p]))
        /\ j.for = "stack" => t = 0 /\ j.oldsz <= j.newsz
    BY <1>4, Zenon DEF Callable
  <2>2. j.for = "seg" => t = 1 /\ j.oldsz < KERNBASE /\ Loading(j)
    BY <1>4, Zenon DEF Callable, Loading
  <2>3. \E n \in Nat : /\ j.a = n * PGSIZE
                       /\ Has(IF j.for = "sbrk" THEN as[Cur(p)] ELSE as[New(p)], n)
                       /\ Up(j.oldsz) <= n
                       /\ n = Up(j.oldsz) \/ (j.newsz < KERNBASE /\ n <= Up(j.newsz))
    <3>1. /\ j.a = Up(oldsz) * PGSIZE /\ Up(j.oldsz) <= Up(oldsz) /\ Up(oldsz) = Up(j.oldsz)
      BY <1>3, <1>4
    <3>2. Has(IF j.for = "sbrk" THEN as[Cur(p)] ELSE as[New(p)], Up(oldsz))
      BY <1>4, Zenon DEF Callable
    <3> QED
      BY <1>3, <3>1, <3>2, Zenon
  <2> QED
    BY <2>1, <2>2, <2>3, Zenon DEF Alloc
<1>10. PICK s \in 0 .. KERNBASE - 1 : s = sz[p]
  BY Zenon DEF IInv, TypeInv
<1>11. Local(state[p], kstack[p], as'[Cur(p)], as'[New(p)], s, c, j, t)
  BY <1>6, <1>8, <1>9, <1>10, Zenon DEF Local
<1>12. sz' = [sz EXCEPT ![p] = s]
  BY <1>10, Unmoved, Zenon
<1>13. /\ Typed(free', kstack', as') /\ Owned(free', kstack', as')
       /\ \A g \in Space : as'[g] = as[g]
  BY MemorySame, Zenon
<1>14. Moves(p, s, c, j, t) /\ c # "copyuvm"
  BY <1>6, <1>7, <1>12, <1>13, Zenon DEF Moves
<1> QED
  BY <1>1, <1>5, <1>11, <1>14, ProcStep, Zenon

(* Assignments to the fields of job. *)
LEMMA JobFields ==
  ASSUME NEW j \in Job
  PROVE  /\ \A x \in Nat : LET k == [j EXCEPT !.a = x] IN
              k \in Job /\ k.a = x /\ k.oldsz = j.oldsz /\ k.newsz = j.newsz
              /\ k.for = j.for /\ k.segs = j.segs /\ k.child = j.child
         /\ \A x \in Nat : LET k == [j EXCEPT !.newsz = x] IN
              k \in Job /\ k.newsz = x /\ k.for = j.for /\ k.segs = j.segs
         /\ \A x \in Seq(Proghdr) : LET k == [j EXCEPT !.segs = x] IN
              k \in Job /\ k.newsz = j.newsz /\ k.for = j.for /\ k.segs = x
         /\ \A x \in Proc : LET k == [j EXCEPT !.child = x] IN
              k \in Job /\ k.a = j.a /\ k.child = x
  BY Zenon DEF Job

(* A step that changes nothing. *)
LEMMA Stutter ==
  ASSUME IInv, UNCHANGED vars
  PROVE  IInv'
<1>1. /\ free' = free /\ state' = state /\ kstack' = kstack /\ as' = as /\ sz' = sz
      /\ pc' = pc /\ job' = job /\ txn' = txn
  BY Zenon DEF vars
<1>2. TypeInv' /\ Owned(free', kstack', as')
  BY <1>1, Zenon DEF IInv, TypeInv
<1>3. ChildInv'
  BY <1>1, Zenon DEF IInv, ChildInv
<1>4. ASSUME NEW p \in Proc PROVE LocalInv(p)'
  BY <1>1, Zenon DEF IInv, LocalInv
<1> QED
  BY <1>2, <1>3, <1>4, Zenon DEF IInv

(* A process in user mode that can make a system call. *)
LEMMA UserFacts ==
  ASSUME IInv, NEW p \in Proc, InUser(p)
  PROVE  /\ state[p] = "LIVE" /\ pc[p] = "user" /\ as[New(p)] = NoSpace
         /\ job[p] = NoJob /\ txn[p] = 0 /\ Has(as[Cur(p)], Up(sz[p]))
<1>1. state[p] = "LIVE" /\ pc[p] = "user" /\ Present(Cur(p)) # {}
  BY Zenon DEF InUser
<1>2. Resting(as[Cur(p)], as[New(p)], sz[p], job[p], txn[p])
  BY <1>1, Facts, Zenon DEF LocalInv, Local
<1>3. ~ Has(as[Cur(p)], 0)
  <2>1. PICK v \in VPage : as[Cur(p)][Map(v)] # None
    BY <1>1, Zenon DEF Present
  <2>2. v \in Nat
    BY UserPages
  <2>3. ~ (v < 0)
    BY <2>2
  <2> QED
    BY <2>1, <2>3, Zenon DEF Has
<1> QED
  BY <1>1, <1>2, <1>3, Zenon DEF Resting

--------------------------------------------------------------------------------
(* The actions. *)

(* The arguments of sbrk() are numbers. *)
LEMMA SbrkNat ==
  ASSUME NEW n \in Sbrk
  PROVE  n \in Nat
  BY VmAssumption

(* sbrk() of more memory calls allocuvm(). *)
LEMMA SbrkMoreKeeps ==
  ASSUME IInv, NEW p \in Proc, NEW n \in Sbrk, SbrkMore(p, n)
  PROVE  IInv'
<1>1. InUser(p) /\ 0 < n /\ Call(p, "sbrk", sz[p], sz[p] + n, <<>>)
  BY Zenon DEF SbrkMore
<1>2. free' = free /\ state' = state /\ kstack' = kstack /\ as' = as /\ sz' = sz /\ txn' = txn
  BY Zenon DEF SbrkMore
<1>3. /\ state[p] = "LIVE" /\ as[New(p)] = NoSpace
      /\ txn[p] = 0 /\ Has(as[Cur(p)], Up(sz[p]))
  BY <1>1, UserFacts, Zenon
<1>4. n \in Nat /\ sz[p] \in Nat
  BY Facts, SbrkNat, Zenon
<1>5. sz[p] + n \in Nat /\ sz[p] < sz[p] + n /\ <<>> \in Seq(Proghdr)
  BY <1>1, <1>4
<1>6. Callable(as[Cur(p)], as[New(p)], sz[p], "sbrk", sz[p], sz[p] + n, <<>>, 0)
  BY <1>3, <1>4, <1>5, Zenon DEF Callable
<1>7. txn' = [txn EXCEPT ![p] = 0]
  BY <1>2, <1>3, Unmoved, Zenon
<1> QED
  BY <1>1, <1>2, <1>3, <1>6, <1>7, CallStep, Zenon

(* sbrk() of less memory. *)
LEMMA SbrkLessKeeps ==
  ASSUME IInv, NEW p \in Proc, NEW n \in Sbrk, SbrkLess(p, n)
  PROVE  IInv'
<1>1. PICK newsz : newsz = (sz[p] + n) % UINT
  BY Zenon
<1>2. newsz \in Nat /\ sz[p] \in Nat /\ sz[p] < KERNBASE
  <2>1. sz[p] \in Nat /\ sz[p] < KERNBASE /\ n \in Nat /\ UINT \in Nat /\ 0 < UINT
    <3>1. UINT \in Nat /\ 0 < UINT
      BY Constants
    <3> QED
      BY <3>1, Facts, SbrkNat, Zenon
  <2>2. PICK y \in Nat : y = sz[p] + n
    BY <2>1
  <2> QED
    BY <1>1, <2>1, <2>2
<1>3. PICK xs : xs = IF newsz >= sz[p] THEN {} ELSE Dealloc(sz[p], newsz)
  BY Zenon
<1>4. /\ InUser(p)
      /\ free' = free \cup Frames(Cur(p), xs) /\ as' = Cleared(Cur(p), xs)
      /\ sz' = IF newsz = 0 \/ newsz >= sz[p] THEN sz ELSE [sz EXCEPT ![p] = newsz]
      /\ state' = state /\ kstack' = kstack /\ pc' = pc /\ job' = job /\ txn' = txn
  BY <1>1, <1>3, Zenon DEF SbrkLess
<1>5. /\ state[p] = "LIVE" /\ pc[p] = "user" /\ as[New(p)] = NoSpace
      /\ job[p] = NoJob /\ txn[p] = 0 /\ Has(as[Cur(p)], Up(sz[p]))
  BY <1>4, UserFacts, Zenon
<1>6. Cur(p) \in Space /\ New(p) \in Space /\ Cur(p) # New(p)
  BY Spaces, Zenon
<1>7. CASE newsz >= sz[p]
  <2>1. Frames(Cur(p), xs) = {}
    BY <1>3, <1>7, Zenon DEF Frames
  <2>2. Cleared(Cur(p), xs) = as
    <3>1. xs = {} /\ as \in [Space -> [Slot -> Memory \cup {None}]]
      BY <1>3, <1>7, Facts, Zenon DEF Typed
    <3>2. [x \in Slot |-> IF x \in xs THEN None ELSE as[Cur(p)][x]] = as[Cur(p)]
      BY <1>6, <3>1, Zenon
    <3> QED
      BY <1>6, <3>1, <3>2, Zenon DEF Cleared
  <2> QED
    BY <1>4, <1>7, <2>1, <2>2, Stutter, Zenon DEF vars
<1>8. CASE newsz < sz[p]
  <2>1. xs = Dealloc(sz[p], newsz)
    BY <1>2, <1>3, <1>8
  <2>2. Up(newsz) <= Up(sz[p]) /\ Up(sz[p]) \in Nat /\ Up(sz[p]) <= Up(sz[p])
    BY <1>2, <1>8, UpMonotone, UpIs
  <2>3. free' = free \cup Frames(Cur(p), Dealloc(sz[p], newsz)) /\ as' = Cleared(Cur(p), Dealloc(sz[p], newsz))
    BY <1>4, <2>1, Zenon
  <2>4. Typed(free, kstack, as) /\ Owned(free, kstack, as)
    BY Facts, Zenon
  <2>5. /\ Typed(free', kstack, as') /\ Owned(free', kstack, as')
        /\ Has(as'[Cur(p)], Up(newsz))
        /\ \A g \in Space : g # Cur(p) => as'[g] = as[g]
    BY <1>2, <1>5, <1>6, <2>2, <2>3, <2>4, DeallocLeaves, Zenon
  <2>6. PICK s \in 0 .. KERNBASE - 1 : /\ sz' = [sz EXCEPT ![p] = s]
                                       /\ s = newsz \/ newsz = 0
    <3>1. CASE newsz = 0
      <4>1. sz' = [sz EXCEPT ![p] = sz[p]] /\ sz[p] \in 0 .. KERNBASE - 1
        BY <1>2, <1>4, <3>1, Unmoved, Constants
      <4> QED
        BY <3>1, <4>1, Zenon
    <3>2. CASE newsz # 0
      <4>1. sz' = [sz EXCEPT ![p] = newsz] /\ newsz \in 0 .. KERNBASE - 1
        BY <1>2, <1>4, <1>8, <3>2, Constants
      <4> QED
        BY <4>1, Zenon
    <3> QED
      BY <3>1, <3>2, Zenon
  <2>7. Has(as'[Cur(p)], 0) \/ Has(as'[Cur(p)], Up(s))
    <3>1. Up(0) = 0
      BY Constants, UpIs
    <3> QED
      BY <2>5, <2>6, <3>1, Zenon
  <2>8. /\ pc' = [pc EXCEPT ![p] = "user"] /\ job' = [job EXCEPT ![p] = NoJob]
        /\ txn' = [txn EXCEPT ![p] = 0]
    BY <1>4, <1>5, Unmoved, Zenon
  <2>9. Goto(p, "user")
    BY <2>8, Zenon DEF Goto
  <2>10. as'[New(p)] = NoSpace /\ \A g \in Space : g # Cur(p) /\ g # New(p) => as'[g] = as[g]
    BY <1>5, <1>6, <2>5, Zenon
  <2>11. Typed(free', kstack', as') /\ Owned(free', kstack', as') /\ state' = state /\ kstack' = kstack
    BY <1>4, <2>5, Zenon
  <2> QED
    BY <1>5, <2>6, <2>7, <2>8, <2>9, <2>10, <2>11, UserStep, Zenon
<1> QED
  BY <1>2, <1>7, <1>8

(* In allocuvm(): what Alloc says, with n the pages that are there. *)
LEMMA AllocFacts ==
  ASSUME IInv, NEW p \in Proc, pc[p] = "allocuvm"
  PROVE  /\ state[p] = "LIVE" /\ Target(p) \in Space /\ Target(p) \in {Cur(p), New(p)}
         /\ Alloc(as[Cur(p)], as[New(p)], sz[p], job[p], txn[p])
         /\ \E n \in Nat : /\ job[p].a = n * PGSIZE /\ Has(as[Target(p)], n)
                           /\ Up(job[p].oldsz) <= n
                           /\ \/ n = Up(job[p].oldsz)
                              \/ job[p].newsz < KERNBASE /\ n <= Up(job[p].newsz)
<1>1. state[p] = "LIVE" /\ Alloc(as[Cur(p)], as[New(p)], sz[p], job[p], txn[p])
  BY Facts, Zenon DEF LocalInv, Local
<1>2. Target(p) \in Space /\ Target(p) \in {Cur(p), New(p)}
  BY Spaces, Zenon DEF Target
<1>3. as[Target(p)] = IF job[p].for = "sbrk" THEN as[Cur(p)] ELSE as[New(p)]
  BY Zenon DEF Target
<1>4. \E n \in Nat : /\ job[p].a = n * PGSIZE /\ Has(as[Target(p)], n)
                     /\ Up(job[p].oldsz) <= n
                     /\ \/ n = Up(job[p].oldsz)
                        \/ job[p].newsz < KERNBASE /\ n <= Up(job[p].newsz)
  BY <1>1, <1>3, Zenon DEF Alloc
<1> QED
  BY <1>1, <1>2, <1>4, Zenon

(* allocuvm() fails, with the pages of the old size as they were. *)
LEMMA AllocFailsKeeps ==
  ASSUME IInv, NEW p \in Proc, pc[p] = "allocuvm", AllocFails(p),
         Typed(free', kstack', as'), Owned(free', kstack', as'),
         state' = state, kstack' = kstack, txn' = txn,
         NEW s \in 0 .. KERNBASE - 1, s = sz[p], sz' = [sz EXCEPT ![p] = s],
         \A g \in Space : g # Target(p) => as'[g] = as[g],
         Has(as'[Target(p)], Up(job[p].oldsz))
  PROVE  IInv'
<1>1. /\ state[p] = "LIVE" /\ Target(p) \in Space /\ Target(p) \in {Cur(p), New(p)}
      /\ Alloc(as[Cur(p)], as[New(p)], sz[p], job[p], txn[p])
  BY AllocFacts, Zenon
<1>2. Cur(p) \in Space /\ New(p) \in Space /\ Cur(p) # New(p)
  BY Spaces, Zenon
<1>3. \A g \in Space : g # Cur(p) /\ g # New(p) => as'[g] = as[g]
  BY <1>1, Zenon
<1>4. CASE job[p].for = "sbrk"
  <2>1. Goto(p, "user") /\ job' = [job EXCEPT ![p] = NoJob]
    BY <1>4, Zenon DEF AllocFails
  <2>2. as[New(p)] = NoSpace /\ job[p].oldsz = sz[p] /\ txn[p] = 0
    BY <1>1, <1>4, Zenon DEF Alloc
  <2>3. as'[New(p)] = NoSpace /\ Has(as'[Cur(p)], Up(s))
    BY <1>2, <1>4, <2>2, Zenon DEF Target
  <2>4. txn' = [txn EXCEPT ![p] = 0]
    BY <2>2, Unmoved, Zenon
  <2> QED
    BY <1>1, <1>3, <2>1, <2>3, <2>4, UserStep, Zenon
<1>5. CASE job[p].for # "sbrk"
  <2>1. Bad(p)
    BY <1>5, Zenon DEF AllocFails
  <2>2. Target(p) = New(p)
    BY <1>5, Zenon DEF Target
  <2>3. as'[Cur(p)] = as[Cur(p)]
    BY <1>2, <2>2, Zenon
  <2>4. Failing(as'[Cur(p)], s, job[p], txn[p])
    <3>1. Has(as[Cur(p)], Up(s))
      BY <1>1, <1>5, Zenon DEF Alloc
    <3>2. /\ job[p].for = "seg" \/ job[p].for = "stack"
          /\ job[p].for = "seg" => txn[p] = 1
          /\ job[p].for = "stack" => txn[p] = 0
      BY <1>1, <1>5, Zenon DEF Alloc
    <3>3. txn[p] = 0 <=> job[p].for = "stack"
      BY <3>2
    <3> QED
      BY <1>5, <2>3, <3>1, <3>3, Zenon DEF Failing
  <2>5. txn[p] \in {0, 1} /\ txn' = [txn EXCEPT ![p] = txn[p]]
    BY Facts, Unmoved, Zenon
  <2> QED
    BY <1>1, <1>3, <2>1, <2>4, <2>5, BadStep, Zenon
<1> QED
  BY <1>4, <1>5, Zenon

(* One turn of allocuvm(). *)
LEMMA AllocPageKeeps ==
  ASSUME IInv, NEW p \in Proc, AllocPage(p)
  PROVE  IInv'
<1>1. PICK h : h = Target(p)
  BY Zenon
<1>2. PICK j \in Job : j = job[p]
  BY Facts, Zenon
<1>3. /\ pc[p] = "allocuvm" /\ j.newsz < KERNBASE /\ j.a < j.newsz
      /\ state' = state /\ kstack' = kstack /\ sz' = sz /\ txn' = txn
  BY <1>2, Zenon DEF AllocPage
<1>4. IF ~ Room(h, j.a)
      THEN /\ free' = free \cup Frames(h, Dealloc(j.newsz, j.oldsz))
           /\ as' = Cleared(h, Dealloc(j.newsz, j.oldsz))
           /\ AllocFails(p)
      ELSE IF as[h][Pte(j.a)] # None THEN Goto(p, "panic") /\ UNCHANGED <<free, as, job>>
      ELSE /\ Mappages(h, j.a)
           /\ job' = [job EXCEPT ![p].a = @ + PGSIZE]
           /\ UNCHANGED pc
  BY <1>1, <1>2, Zenon DEF AllocPage
<1>5. /\ state[p] = "LIVE" /\ h \in Space /\ h \in {Cur(p), New(p)}
      /\ Alloc(as[Cur(p)], as[New(p)], sz[p], j, txn[p])
  BY <1>1, <1>2, <1>3, AllocFacts, Zenon
<1>6. PICK n \in Nat : /\ j.a = n * PGSIZE /\ Has(as[h], n)
                       /\ Up(j.oldsz) <= n
                       /\ n = Up(j.oldsz) \/ (j.newsz < KERNBASE /\ n <= Up(j.newsz))
  BY <1>1, <1>2, <1>3, AllocFacts, Zenon
<1>7. j.a \in Nat /\ j.oldsz \in Nat /\ j.newsz \in Nat
  BY <1>2, Facts, Zenon
<1>8. n < Up(j.newsz) /\ Up(j.newsz) \in Nat /\ Up(j.oldsz) \in Nat
  <2>1. n * PGSIZE < j.newsz
    BY <1>3, <1>6, Zenon
  <2> QED
    BY <1>7, <2>1, UpIs, Zenon
<1>9. n \in VPage
  <2>1. Up(j.newsz) <= Up(KERNBASE) /\ Up(KERNBASE) \in Nat
    BY <1>3, <1>7, Constants, UpMonotone, UpIs
  <2> QED
    BY <1>8, <2>1, UserPages
<1>10. PICK s \in 0 .. KERNBASE - 1 : s = sz[p] /\ sz' = [sz EXCEPT ![p] = s]
  BY <1>3, Unmoved, Zenon DEF IInv, TypeInv
<1>11. Typed(free, kstack, as) /\ Owned(free, kstack, as)
  BY Facts, Zenon
<1>12. CASE ~ Room(h, j.a)
  <2>1. /\ free' = free \cup Frames(h, Dealloc(j.newsz, j.oldsz))
        /\ as' = Cleared(h, Dealloc(j.newsz, j.oldsz))
        /\ AllocFails(p)
    BY <1>4, <1>12, Zenon
  <2>2. n <= Up(j.newsz)
    BY <1>8
  <2>3. /\ Typed(free', kstack, as') /\ Owned(free', kstack, as')
        /\ Has(as'[h], Up(j.oldsz))
        /\ \A g \in Space : g # h => as'[g] = as[g]
    BY <1>5, <1>6, <1>7, <1>11, <2>1, <2>2, DeallocLeaves, Zenon
  <2>4. Typed(free', kstack', as') /\ Owned(free', kstack', as')
    BY <1>3, <2>3, Zenon
  <2>5. /\ Has(as'[Target(p)], Up(job[p].oldsz))
        /\ \A g \in Space : g # Target(p) => as'[g] = as[g]
    BY <1>1, <1>2, <2>3, Zenon
  <2> QED
    BY <1>3, <1>10, <2>1, <2>4, <2>5, AllocFailsKeeps, Zenon
<1>13. CASE Room(h, j.a)
  <2>1. Pte(j.a) = Map(n)
    BY <1>6, UpWhole, Zenon DEF Pte
  <2>2. as[h][Map(n)] = None
    <3>1. ~ (n < n)
      OBVIOUS
    <3> QED
      BY <1>6, <1>9, <3>1, Zenon DEF Has
  <2>3. /\ Mappages(h, n * PGSIZE) /\ pc' = pc
        /\ job' = [job EXCEPT ![p].a = @ + PGSIZE]
    BY <1>4, <1>6, <1>13, <2>1, <2>2, Zenon
  <2>4. /\ Typed(free', kstack, as') /\ Owned(free', kstack, as')
        /\ \A g \in Space : g # h => as'[g] = as[g]
        /\ \A v \in VPage : as'[h][Map(v)] # None <=> as[h][Map(v)] # None \/ v = n
    BY <1>5, <1>9, <1>11, <2>2, <2>3, MappagesAdds, Zenon
  <2>5. Has(as'[h], n + 1)
    <3> SUFFICES ASSUME NEW v \in VPage PROVE as'[h][Map(v)] # None <=> v < n + 1
      BY Zenon DEF Has
    <3>1. v \in Nat
      BY UserPages
    <3>2. v < n + 1 <=> v < n \/ v = n
      BY <3>1
    <3>3. as[h][Map(v)] # None <=> v < n
      BY <1>6, Zenon DEF Has
    <3> QED
      BY <2>4, <3>2, <3>3, Zenon
  <2>6. n + 1 \in Nat /\ (n + 1) * PGSIZE = j.a + PGSIZE /\ j.a + PGSIZE \in Nat
    BY <1>6, <1>7, UpWhole, Constants
  <2>7. PICK k : k = [j EXCEPT !.a = j.a + PGSIZE]
    BY Zenon
  <2>8. /\ k \in Job /\ k.a = (n + 1) * PGSIZE /\ k.oldsz = j.oldsz /\ k.newsz = j.newsz
        /\ k.for = j.for /\ k.segs = j.segs
    BY <2>6, <2>7, JobFields
  <2>9. job' = [job EXCEPT ![p] = k]
    BY <1>2, <2>3, <2>7, Zenon DEF IInv, TypeInv
  <2>10. Alloc(as'[Cur(p)], as'[New(p)], s, k, txn[p])
    <3>1. Cur(p) \in Space /\ New(p) \in Space /\ Cur(p) # New(p)
      BY Spaces, Zenon
    <3>2. Has(IF k.for = "sbrk" THEN as'[Cur(p)] ELSE as'[New(p)], n + 1)
      BY <1>1, <1>2, <2>5, <2>8, Zenon DEF Target
    <3>3. Up(k.oldsz) <= n + 1 /\ k.newsz < KERNBASE /\ n + 1 <= Up(k.newsz)
      BY <1>3, <1>6, <1>8, <2>8
    <3>4. \E l \in Nat : /\ k.a = l * PGSIZE
                         /\ Has(IF k.for = "sbrk" THEN as'[Cur(p)] ELSE as'[New(p)], l)
                         /\ Up(k.oldsz) <= l
                         /\ l = Up(k.oldsz) \/ (k.newsz < KERNBASE /\ l <= Up(k.newsz))
      BY <2>6, <2>8, <3>2, <3>3, Zenon
    <3>5. k.for = "sbrk" => as'[New(p)] = as[New(p)]
      BY <1>1, <1>2, <2>4, <2>8, <3>1, Zenon DEF Target
    <3>6. k.for # "sbrk" => as'[Cur(p)] = as[Cur(p)]
      BY <1>1, <1>2, <2>4, <2>8, <3>1, Zenon DEF Target
    <3>7. Loading(j) => Loading(k)
      BY <2>8, Zenon DEF Loading
    <3> QED
      BY <1>5, <1>10, <2>8, <3>4, <3>5, <3>6, <3>7, Zenon DEF Alloc
  <2>11. PICK c \in {"user", "allocuvm", "segments", "loaduvm", "args", "bad", "copyuvm"} : c = "allocuvm"
    BY Zenon
  <2>12. kstack[p] # None
    BY <1>5, Facts, Zenon DEF LocalInv, Local
  <2>13. Local(state[p], kstack[p], as'[Cur(p)], as'[New(p)], s, c, k, txn[p])
    BY <1>5, <2>10, <2>11, <2>12, Zenon DEF Local
  <2>14. pc' = [pc EXCEPT ![p] = c]
    BY <1>3, <2>3, <2>11, Unmoved, Zenon
  <2>15. txn[p] \in {0, 1} /\ txn' = [txn EXCEPT ![p] = txn[p]]
    BY <1>3, Facts, Unmoved, Zenon
  <2>16. Typed(free', kstack', as') /\ Owned(free', kstack', as')
    BY <1>3, <2>4, Zenon
  <2>17. \A g \in Space : g # Cur(p) /\ g # New(p) => as'[g] = as[g]
    BY <1>5, <2>4, Zenon
  <2>18. Moves(p, s, c, k, txn[p])
    BY <1>3, <1>10, <2>9, <2>14, <2>15, <2>16, <2>17, Zenon DEF Moves
  <2>19. c # "copyuvm" /\ k \in Job /\ txn[p] \in {0, 1}
    BY <2>8, <2>11, <2>15, Zenon
  <2> QED
    BY <2>13, <2>18, <2>19, ProcStep, Zenon
<1> QED
  BY <1>12, <1>13, Zenon

(* allocuvm() returns. *)
LEMMA AllocDoneKeeps ==
  ASSUME IInv, NEW p \in Proc, AllocDone(p)
  PROVE  IInv'
<1>1. PICK j \in Job : j = job[p]
  BY Facts, Zenon
<1>2. PICK ret : ret = AllocRet(j)
  BY Zenon
<1>3. /\ pc[p] = "allocuvm" /\ (j.newsz >= KERNBASE \/ j.a >= j.newsz)
      /\ free' = free /\ state' = state /\ kstack' = kstack /\ as' = as /\ txn' = txn
      /\ sz' = IF ret # 0 /\ j.for = "sbrk" THEN [sz EXCEPT ![p] = ret] ELSE sz
  BY <1>1, <1>2, Zenon DEF AllocDone
<1>4. IF ret = 0 THEN AllocFails(p)
      ELSE IF j.for = "sbrk" THEN Goto(p, "user") /\ job' = [job EXCEPT ![p] = NoJob]
      ELSE /\ Goto(p, IF j.for = "seg" THEN "loaduvm" ELSE "args")
           /\ job' = [job EXCEPT ![p].newsz = ret]
  BY <1>1, <1>2, Zenon DEF AllocDone
<1>5. /\ state[p] = "LIVE"
      /\ Alloc(as[Cur(p)], as[New(p)], sz[p], j, txn[p])
  BY <1>1, <1>3, AllocFacts, Zenon
<1>6. PICK n \in Nat : /\ j.a = n * PGSIZE /\ Has(as[Target(p)], n)
                       /\ Up(j.oldsz) <= n
                       /\ n = Up(j.oldsz) \/ (j.newsz < KERNBASE /\ n <= Up(j.newsz))
  BY <1>1, <1>3, AllocFacts, Zenon
<1>7. /\ j.a \in Nat /\ j.oldsz \in Nat /\ j.newsz \in Nat
      /\ KERNBASE \in Nat /\ Up(j.newsz) \in Nat /\ Up(j.oldsz) \in Nat
  BY <1>1, Facts, Constants, UpIs, Zenon
<1>8. /\ Typed(free', kstack', as') /\ Owned(free', kstack', as')
      /\ \A g \in Space : as'[g] = as[g]
  BY <1>3, MemorySame, Zenon
<1>9. CASE ret = 0
  <2>1. n = Up(j.oldsz)
    <3>1. CASE j.newsz >= KERNBASE
      BY <1>6, <1>7, <3>1
    <3>2. CASE j.newsz < KERNBASE
      <4>1. j.newsz <= 0 /\ j.oldsz <= j.newsz
        BY <1>2, <1>7, <1>9, <3>2 DEF AllocRet
      <4>2. Up(j.newsz) <= Up(j.oldsz)
        BY <1>7, <4>1, UpMonotone
      <4> QED
        BY <1>6, <1>7, <4>2
    <3> QED
      BY <1>7, <3>1, <3>2
  <2>2. PICK s \in 0 .. KERNBASE - 1 : s = sz[p] /\ sz' = [sz EXCEPT ![p] = s]
    BY <1>3, <1>9, Unmoved, Zenon DEF IInv, TypeInv
  <2>3. AllocFails(p)
    BY <1>4, <1>9, Zenon
  <2>4. Target(p) \in Space
    BY <1>3, AllocFacts, Zenon
  <2>5. Has(as'[Target(p)], Up(job[p].oldsz)) /\ \A g \in Space : g # Target(p) => as'[g] = as[g]
    BY <1>1, <1>6, <1>8, <2>1, <2>4, Zenon
  <2> QED
    BY <1>3, <1>8, <2>2, <2>3, <2>5, AllocFailsKeeps, Zenon
<1>10. CASE ret # 0
  <2>1. /\ j.newsz < KERNBASE /\ ret \in Nat /\ n = Up(ret)
        /\ j.newsz <= ret /\ (ret = j.newsz \/ ret = j.oldsz)
    <3>1. j.newsz < KERNBASE
      BY <1>2, <1>7, <1>10 DEF AllocRet
    <3>2. Up(j.newsz) <= n
      <4>1. ~ (n * PGSIZE < j.newsz)
        BY <1>3, <1>6, <1>7, <3>1
      <4> QED
        BY <1>7, <4>1, UpIs
    <3>3. CASE j.newsz < j.oldsz
      <4>1. ret = j.oldsz
        BY <1>2, <1>7, <3>1, <3>3 DEF AllocRet
      <4>2. Up(j.newsz) <= Up(j.oldsz)
        BY <1>7, <3>3, UpMonotone
      <4> QED
        BY <1>6, <1>7, <3>1, <3>3, <4>1, <4>2
    <3>4. CASE j.oldsz <= j.newsz
      <4>1. ret = j.newsz
        BY <1>2, <1>7, <3>1, <3>4 DEF AllocRet
      <4>2. Up(j.oldsz) <= Up(j.newsz)
        BY <1>7, <3>4, UpMonotone
      <4> QED
        BY <1>6, <1>7, <3>1, <3>2, <4>1, <4>2
    <3> QED
      BY <1>7, <3>3, <3>4
  <2>2. CASE j.for = "sbrk"
    <3>1. /\ as[New(p)] = NoSpace /\ j.oldsz = sz[p] /\ sz[p] < j.newsz /\ txn[p] = 0
      BY <1>5, <2>2, Zenon DEF Alloc
    <3>2. PICK s \in 0 .. KERNBASE - 1 : s = ret /\ sz' = [sz EXCEPT ![p] = s]
      <4>1. ret \in 0 .. KERNBASE - 1
        BY <1>7, <2>1, <3>1
      <4> QED
        BY <1>3, <1>10, <2>2, <4>1, Zenon
    <3>3. Goto(p, "user") /\ job' = [job EXCEPT ![p] = NoJob]
      BY <1>4, <1>10, <2>2, Zenon
    <3>4. txn' = [txn EXCEPT ![p] = 0]
      BY <1>3, <3>1, Unmoved, Zenon
    <3>5. as'[New(p)] = NoSpace /\ Has(as'[Cur(p)], Up(s))
      BY <1>1, <1>3, <1>6, <2>1, <2>2, <3>1, <3>2, Zenon DEF Target
    <3> QED
      BY <1>3, <1>5, <1>8, <3>2, <3>3, <3>4, <3>5, UserStep, Zenon
  <2>3. CASE j.for # "sbrk"
    <3>1. /\ Has(as[Cur(p)], Up(sz[p])) /\ (j.for = "seg" \/ j.for = "stack")
          /\ j.for = "seg" => txn[p] = 1 /\ j.oldsz < KERNBASE /\ Loading(j)
          /\ j.for = "stack" => txn[p] = 0 /\ j.oldsz <= j.newsz
      BY <1>5, <2>3, Zenon DEF Alloc
    <3>2. ret < KERNBASE
      BY <1>7, <2>1, <3>1
    <3>3. PICK k : k = [j EXCEPT !.newsz = ret]
      BY Zenon
    <3>4. k \in Job /\ k.newsz = ret /\ k.for = j.for /\ k.segs = j.segs
      BY <2>1, <3>3, JobFields
    <3>5. job' = [job EXCEPT ![p] = k]
      BY <1>1, <1>4, <1>10, <2>3, <3>3, Zenon DEF IInv, TypeInv
    <3>6. PICK c \in {"user", "allocuvm", "segments", "loaduvm", "args", "bad", "copyuvm"} :
            c = IF j.for = "seg" THEN "loaduvm" ELSE "args"
      BY Zenon
    <3>7. pc' = [pc EXCEPT ![p] = c]
      BY <1>4, <1>10, <2>3, <3>6, Zenon DEF Goto
    <3>8. j.for = "seg" => Loading(k)
      <4> SUFFICES ASSUME j.for = "seg" PROVE Loading(k)
        BY Zenon
      <4>1. j.segs # <<>> /\ Head(j.segs).vaddr + Head(j.segs).filesz <= j.newsz
        BY <3>1, Zenon DEF Loading
      <4>2. j.segs \in Seq(Proghdr)
        BY Zenon DEF Job
      <4>3. Head(j.segs) \in Proghdr
        BY <4>1, <4>2
      <4>4. Head(j.segs).vaddr + Head(j.segs).filesz \in Int
        BY <4>3, Constants DEF Proghdr
      <4>5. Head(j.segs).vaddr + Head(j.segs).filesz <= ret
        BY <1>7, <2>1, <4>1, <4>4
      <4> QED
        BY <3>4, <4>1, <4>5, Zenon DEF Loading
    <3>9. Has(as[New(p)], Up(k.newsz))
      BY <1>1, <1>6, <2>1, <2>3, <3>4, Zenon DEF Target
    <3>10. Building(as[Cur(p)], as[New(p)], sz[p], c, k, txn[p])
      BY <3>1, <3>2, <3>4, <3>6, <3>8, <3>9, Zenon DEF Building
    <3>11. kstack[p] # None
      BY <1>5, Facts, Zenon DEF LocalInv, Local
    <3>12. PICK s \in 0 .. KERNBASE - 1 : s = sz[p] /\ sz' = [sz EXCEPT ![p] = s]
      BY <1>3, <2>3, Unmoved, Zenon DEF IInv, TypeInv
    <3>13. Local(state[p], kstack[p], as'[Cur(p)], as'[New(p)], s, c, k, txn[p])
      BY <1>3, <1>5, <3>6, <3>10, <3>11, <3>12, Zenon DEF Local
    <3>14. txn[p] \in {0, 1} /\ txn' = [txn EXCEPT ![p] = txn[p]]
      BY <1>3, Facts, Unmoved, Zenon
    <3>15. c # "copyuvm" /\ k \in Job /\ txn[p] \in {0, 1}
      BY <3>4, <3>6, <3>14, Zenon
    <3>16. Moves(p, s, c, k, txn[p])
      BY <1>3, <1>8, <3>5, <3>7, <3>12, <3>14, Zenon DEF Moves
    <3> QED
      BY <3>13, <3>15, <3>16, ProcStep, Zenon
  <2> QED
    BY <2>2, <2>3, Zenon
<1> QED
  BY <1>9, <1>10, Zenon

(* exec() starts. *)
LEMMA ExecKeeps ==
  ASSUME IInv, NEW p \in Proc, NEW segs \in Program, Exec(p, segs)
  PROVE  IInv'
<1>1. InUser(p) /\ txn' = [txn EXCEPT ![p] = 1] /\ state' = state /\ kstack' = kstack /\ sz' = sz
  BY Zenon DEF Exec
<1>2. /\ state[p] = "LIVE" /\ pc[p] = "user" /\ as[New(p)] = NoSpace
      /\ job[p] = NoJob /\ txn[p] = 0 /\ Has(as[Cur(p)], Up(sz[p]))
  BY <1>1, UserFacts, Zenon
<1>3. Cur(p) \in Space /\ New(p) \in Space /\ Cur(p) # New(p)
  BY Spaces, Zenon
<1>4. PICK s \in 0 .. KERNBASE - 1 : s = sz[p] /\ sz' = [sz EXCEPT ![p] = s]
  BY <1>1, Unmoved, Zenon DEF IInv, TypeInv
<1>5. PICK t \in {0, 1} : t = 1 /\ txn' = [txn EXCEPT ![p] = t]
  BY <1>1, Zenon
<1>6. /\ job[p] \in Job /\ job[p].for = "none" /\ job[p].newsz = 0
  BY <1>2, Jobs DEF NoJob
<1>7. CASE Bad(p) /\ UNCHANGED <<free, as>>
  <2>1. /\ Typed(free', kstack', as') /\ Owned(free', kstack', as')
        /\ \A g \in Space : as'[g] = as[g]
    BY <1>1, <1>7, MemorySame, Zenon
  <2>2. as'[Cur(p)] = as[Cur(p)]
    BY <1>3, <2>1, Zenon
  <2>3. Failing(as'[Cur(p)], s, job[p], t)
    <3>1. t # 0
      BY <1>5
    <3> QED
      BY <1>2, <1>4, <1>6, <2>2, <3>1, Zenon DEF Failing
  <2> QED
    BY <1>1, <1>2, <1>4, <1>5, <1>7, <2>1, <2>3, BadStep, Zenon
<1>8. CASE Setupkvm(New(p)) /\ job' = [job EXCEPT ![p].segs = segs] /\ Goto(p, "segments")
  <2>1. Typed(free, kstack, as) /\ Owned(free, kstack, as)
    BY Facts, Zenon
  <2>2. /\ Typed(free', kstack, as') /\ Owned(free', kstack, as')
        /\ \A g \in Space : g # New(p) => as'[g] = as[g]
        /\ Has(as'[New(p)], 0)
    BY <1>2, <1>3, <1>8, <2>1, SetupkvmBuilds, Zenon
  <2>3. PICK k : k = [job[p] EXCEPT !.segs = segs]
    BY Zenon
  <2>4. k \in Job /\ k.newsz = 0 /\ k.for = "none"
    <3>1. segs \in Seq(Proghdr)
      BY VmAssumption, Zenon
    <3> QED
      BY <1>6, <2>3, <3>1, JobFields
  <2>5. job' = [job EXCEPT ![p] = k]
    BY <1>8, <2>3, Zenon DEF IInv, TypeInv
  <2>6. PICK c \in {"user", "allocuvm", "segments", "loaduvm", "args", "bad", "copyuvm"} : c = "segments"
    BY Zenon
  <2>7. pc' = [pc EXCEPT ![p] = c] /\ c # "copyuvm"
    BY <1>8, <2>6, Zenon DEF Goto
  <2>8. Up(k.newsz) = 0 /\ k.newsz < KERNBASE
    BY <2>4, Constants, UpIs
  <2>9. Building(as'[Cur(p)], as'[New(p)], s, c, k, t)
    BY <1>2, <1>3, <1>4, <1>5, <2>2, <2>4, <2>6, <2>8, Zenon DEF Building
  <2>10. kstack[p] # None
    BY <1>2, Facts, Zenon DEF LocalInv, Local
  <2>11. Local(state[p], kstack[p], as'[Cur(p)], as'[New(p)], s, c, k, t)
    BY <1>2, <2>6, <2>9, <2>10, Zenon DEF Local
  <2>12. Typed(free', kstack', as') /\ Owned(free', kstack', as')
    BY <1>1, <2>2, Zenon
  <2>13. Moves(p, s, c, k, t)
    BY <1>1, <1>4, <1>5, <2>2, <2>5, <2>7, <2>12, Zenon DEF Moves
  <2> QED
    BY <2>4, <2>7, <2>11, <2>13, ProcStep, Zenon
<1> QED
  BY <1>7, <1>8, Zenon DEF Exec

(* In exec(), outside of allocuvm(). *)
LEMMA BuildFacts ==
  ASSUME IInv, NEW p \in Proc, pc[p] \in {"segments", "loaduvm", "args"}
  PROVE  /\ state[p] = "LIVE"
         /\ Building(as[Cur(p)], as[New(p)], sz[p], pc[p], job[p], txn[p])
<1>1. pc[p] # "user"
  BY Zenon
<1> QED
  BY <1>1, Facts, Zenon DEF LocalInv, Local

Untouched == free' = free /\ state' = state /\ kstack' = kstack /\ as' = as /\ sz' = sz /\ txn' = txn

(* exec() fails where memory is as it was. *)
LEMMA BadKeeps ==
  ASSUME IInv, NEW p \in Proc, pc[p] \in {"segments", "loaduvm", "args"}, Bad(p), Untouched
  PROVE  IInv'
<1>1. /\ state[p] = "LIVE"
      /\ Building(as[Cur(p)], as[New(p)], sz[p], pc[p], job[p], txn[p])
  BY BuildFacts, Zenon
<1>2. /\ Typed(free', kstack', as') /\ Owned(free', kstack', as')
      /\ \A g \in Space : as'[g] = as[g]
  BY MemorySame, Zenon DEF Untouched
<1>3. PICK s \in 0 .. KERNBASE - 1 : s = sz[p] /\ sz' = [sz EXCEPT ![p] = s]
  BY Unmoved, Zenon DEF IInv, TypeInv, Untouched
<1>4. PICK t \in {0, 1} : t = txn[p] /\ txn' = [txn EXCEPT ![p] = t]
  BY Facts, Unmoved, Zenon DEF Untouched
<1>5. job[p].for # "sbrk" /\ (t = 0 <=> job[p].for = "stack")
  BY <1>1, <1>4 DEF Building
<1>6. Failing(as'[Cur(p)], s, job[p], t)
  BY <1>1, <1>3, <1>5, Zenon DEF Failing, Building, Untouched
<1>7. state' = state /\ kstack' = kstack
  BY Zenon DEF Untouched
<1> QED
  BY <1>1, <1>2, <1>3, <1>4, <1>6, <1>7, BadStep, Zenon

(* exec() starts to load a segment. *)
LEMMA ExecSegmentKeeps ==
  ASSUME IInv, NEW p \in Proc, ExecSegment(p)
  PROVE  IInv'
<1>1. /\ pc[p] = "segments" /\ job[p].segs # <<>>
      /\ free' = free /\ state' = state /\ kstack' = kstack /\ as' = as /\ sz' = sz /\ txn' = txn
  BY Zenon DEF ExecSegment
<1>2. pc[p] \in {"segments", "loaduvm", "args"}
  BY <1>1, Zenon
<1>3. CASE Bad(p)
  BY <1>1, <1>2, <1>3, BadKeeps, Zenon DEF Untouched
<1>4. CASE ~ Bad(p)
  <2>1. PICK ph : ph = Head(job[p].segs)
    BY Zenon
  <2>2. /\ ph.memsz >= ph.filesz
        /\ Call(p, "seg", job[p].newsz, ph.vaddr + ph.memsz, job[p].segs)
    BY <1>4, <2>1, Zenon DEF ExecSegment
  <2>3. job[p].segs \in Seq(Proghdr) /\ job[p].newsz \in Nat
    BY Facts, Zenon
  <2>4. ph \in Proghdr
    BY <1>1, <2>1, <2>3
  <2>5. ph.vaddr \in Nat /\ ph.filesz \in Nat /\ ph.memsz \in Nat
    BY <2>4, Constants DEF Proghdr
  <2>6. ph.vaddr + ph.memsz \in Nat /\ ph.vaddr + ph.filesz <= ph.vaddr + ph.memsz
    BY <2>2, <2>5
  <2>7. /\ state[p] = "LIVE"
        /\ Building(as[Cur(p)], as[New(p)], sz[p], pc[p], job[p], txn[p])
    BY <1>2, BuildFacts, Zenon
  <2>8. /\ Has(as[Cur(p)], Up(sz[p])) /\ Has(as[New(p)], Up(job[p].newsz))
        /\ job[p].newsz < KERNBASE /\ txn[p] = 1
    BY <1>1, <2>7, Zenon DEF Building
  <2>9. Callable(as[Cur(p)], as[New(p)], sz[p], "seg", job[p].newsz, ph.vaddr + ph.memsz,
                 job[p].segs, 1)
    <3>1. 1 \in {0, 1}
      BY Zenon
    <3> QED
      BY <1>1, <2>1, <2>3, <2>6, <2>8, <3>1, Zenon DEF Callable
  <2>10. txn' = [txn EXCEPT ![p] = 1]
    BY <1>1, <2>8, Unmoved, Zenon
  <2> QED
    BY <1>1, <2>2, <2>7, <2>9, <2>10, CallStep, Zenon
<1> QED
  BY <1>3, <1>4, Zenon

(* exec() loads a segment: its pages are there. *)
LEMMA ExecLoadKeeps ==
  ASSUME IInv, NEW p \in Proc, ExecLoad(p)
  PROVE  IInv'
<1>1. /\ pc[p] = "loaduvm"
      /\ free' = free /\ state' = state /\ kstack' = kstack /\ as' = as /\ sz' = sz /\ txn' = txn
  BY Zenon DEF ExecLoad
<1>2. pc[p] \in {"segments", "loaduvm", "args"}
  BY <1>1, Zenon
<1>3. CASE Bad(p)
  BY <1>1, <1>2, <1>3, BadKeeps, Zenon DEF Untouched
<1>4. CASE ~ Bad(p)
  <2>1. PICK ph : ph = Head(job[p].segs)
    BY Zenon
  <2>2. PICK pages : pages = {v \in VPage : ph.vaddr <= v * PGSIZE /\ v * PGSIZE < ph.vaddr + ph.filesz}
    BY Zenon
  <2>3. /\ Goto(p, IF pages \subseteq Present(New(p)) THEN "segments" ELSE "panic")
        /\ job' = [job EXCEPT ![p].segs = Tail(@)]
    BY <1>4, <2>1, <2>2, Zenon DEF ExecLoad
  <2>4. /\ state[p] = "LIVE"
        /\ Building(as[Cur(p)], as[New(p)], sz[p], pc[p], job[p], txn[p])
    BY <1>2, BuildFacts, Zenon
  <2>5. /\ Has(as[Cur(p)], Up(sz[p])) /\ Has(as[New(p)], Up(job[p].newsz))
        /\ job[p].newsz < KERNBASE /\ job[p].for = "seg" /\ txn[p] = 1
        /\ job[p].segs # <<>> /\ ph.vaddr + ph.filesz <= job[p].newsz
    BY <1>1, <2>1, <2>4, Zenon DEF Building, Loading
  <2>6. job[p] \in Job /\ job[p].segs \in Seq(Proghdr) /\ job[p].newsz \in Nat
    BY Facts, Zenon
  <2>7. ph \in Proghdr
    BY <2>1, <2>5, <2>6
  <2>8. PICK e \in Nat : e = ph.vaddr + ph.filesz
    BY <2>7, Constants DEF Proghdr
  <2>9. pages \subseteq Present(New(p))
    <3> SUFFICES ASSUME NEW v \in VPage, v * PGSIZE < e PROVE v \in Present(New(p))
      BY <2>2, <2>8, Zenon
    <3>1. v \in Nat /\ PGSIZE \in Nat
      BY UserPages, Constants
    <3>2. v * PGSIZE < job[p].newsz
      <4>1. PICK y \in Nat : y = v * PGSIZE
        BY <3>1
      <4> QED
        BY <2>5, <2>6, <2>8, <4>1
    <3>3. v < Up(job[p].newsz)
      BY <2>6, <3>1, <3>2, UpIs, Zenon
    <3> QED
      BY <2>5, <3>3, Zenon DEF Has, Present
  <2>10. PICK k : k = [job[p] EXCEPT !.segs = Tail(job[p].segs)]
    BY Zenon
  <2>11. k \in Job /\ k.newsz = job[p].newsz /\ k.for = job[p].for
    <3>1. Tail(job[p].segs) \in Seq(Proghdr)
      BY <2>5, <2>6
    <3> QED
      BY <2>6, <2>10, <3>1, JobFields, ZenonT(60)
  <2>12. job' = [job EXCEPT ![p] = k]
    BY <2>3, <2>10, Zenon DEF IInv, TypeInv
  <2>13. PICK c \in {"user", "allocuvm", "segments", "loaduvm", "args", "bad", "copyuvm"} : c = "segments"
    BY Zenon
  <2>14. pc' = [pc EXCEPT ![p] = c] /\ c # "copyuvm"
    BY <2>3, <2>9, <2>13, Zenon DEF Goto
  <2>15. PICK s \in 0 .. KERNBASE - 1 : s = sz[p] /\ sz' = [sz EXCEPT ![p] = s]
    BY <1>1, Unmoved, Zenon DEF IInv, TypeInv
  <2>16. PICK t \in {0, 1} : t = 1 /\ txn' = [txn EXCEPT ![p] = t]
    BY <1>1, <2>5, Unmoved, Zenon
  <2>17. Building(as[Cur(p)], as[New(p)], s, c, k, t)
    BY <2>5, <2>11, <2>13, <2>15, <2>16, Zenon DEF Building
  <2>18. kstack[p] # None
    BY <2>4, Facts, Zenon DEF LocalInv, Local
  <2>19. Local(state[p], kstack[p], as'[Cur(p)], as'[New(p)], s, c, k, t)
    BY <1>1, <2>4, <2>13, <2>17, <2>18, Zenon DEF Local
  <2>20. /\ Typed(free', kstack', as') /\ Owned(free', kstack', as')
         /\ \A g \in Space : as'[g] = as[g]
    BY <1>1, MemorySame, Zenon
  <2>21. Moves(p, s, c, k, t)
    BY <1>1, <2>12, <2>14, <2>15, <2>16, <2>20, Zenon DEF Moves
  <2> QED
    BY <2>11, <2>14, <2>19, <2>21, ProcStep, Zenon
<1> QED
  BY <1>3, <1>4, Zenon

(* exec() has loaded the program. *)
LEMMA ExecStackKeeps ==
  ASSUME IInv, NEW p \in Proc, ExecStack(p)
  PROVE  IInv'
<1>1. PICK top : top = PGROUNDUP(job[p].newsz)
  BY Zenon
<1>2. /\ pc[p] = "segments" /\ txn' = [txn EXCEPT ![p] = @ - 1]
      /\ Call(p, "stack", top, top + 2 * PGSIZE, <<>>)
      /\ free' = free /\ state' = state /\ kstack' = kstack /\ as' = as /\ sz' = sz
  BY <1>1, Zenon DEF ExecStack
<1>3. pc[p] \in {"segments", "loaduvm", "args"}
  BY <1>2, Zenon
<1>4. /\ state[p] = "LIVE"
      /\ Building(as[Cur(p)], as[New(p)], sz[p], pc[p], job[p], txn[p])
  BY <1>3, BuildFacts, Zenon
<1>5. /\ Has(as[Cur(p)], Up(sz[p])) /\ Has(as[New(p)], Up(job[p].newsz)) /\ txn[p] = 1
  BY <1>2, <1>4, Zenon DEF Building
<1>6. job[p].newsz \in Nat
  BY Facts, Zenon
<1>7. top \in Nat /\ Up(top) = Up(job[p].newsz)
  BY <1>1, <1>6, RoundUp, Zenon
<1>8. top + 2 * PGSIZE \in Nat /\ top <= top + 2 * PGSIZE /\ <<>> \in Seq(Proghdr) /\ 0 \in {0, 1}
  BY <1>7, Constants
<1>9. Callable(as[Cur(p)], as[New(p)], sz[p], "stack", top, top + 2 * PGSIZE, <<>>, 0)
  BY <1>5, <1>7, <1>8, Zenon DEF Callable
<1>10. txn' = [txn EXCEPT ![p] = 0]
  <2>1. txn[p] - 1 = 0
    BY <1>5
  <2> QED
    BY <1>2, <2>1, Zenon
<1> QED
  BY <1>2, <1>4, <1>9, <1>10, CallStep, Zenon

(* exec() commits to the new image, or the arguments do not fit. *)
LEMMA ExecCommitKeeps ==
  ASSUME IInv, NEW p \in Proc, ExecCommit(p)
  PROVE  IInv'
<1>1. pc[p] = "args" /\ state' = state /\ kstack' = kstack /\ txn' = txn
  BY Zenon DEF ExecCommit
<1>2. pc[p] \in {"segments", "loaduvm", "args"}
  BY <1>1, Zenon
<1>3. CASE Bad(p) /\ UNCHANGED <<free, as, sz>>
  BY <1>1, <1>2, <1>3, BadKeeps, Zenon DEF Untouched
<1>4. CASE /\ free' = free \cup Freevm(Cur(p))
           /\ as' = [as EXCEPT ![Cur(p)] = as[New(p)], ![New(p)] = NoSpace]
           /\ sz' = [sz EXCEPT ![p] = job[p].newsz]
           /\ job' = [job EXCEPT ![p] = NoJob]
           /\ Goto(p, "user")
  <2>1. Typed(free, kstack, as) /\ Owned(free, kstack, as)
    BY Facts, Zenon
  <2>2. Cur(p) \in Space /\ New(p) \in Space /\ Cur(p) # New(p)
    BY Spaces, Zenon
  <2>3. PICK f, b : f = free \cup Freevm(Cur(p)) /\ b = [as EXCEPT ![Cur(p)] = NoSpace]
    BY Zenon
  <2>4. /\ Typed(f, kstack, b) /\ Owned(f, kstack, b) /\ b[Cur(p)] = NoSpace
        /\ \A g \in Space : g # Cur(p) => b[g] = as[g]
    BY <2>1, <2>2, <2>3, FreevmClears, Zenon
  <2>5. /\ Typed(f, kstack, Move(b, Cur(p), New(p))) /\ Owned(f, kstack, Move(b, Cur(p), New(p)))
        /\ Move(b, Cur(p), New(p))[Cur(p)] = b[New(p)] /\ Move(b, Cur(p), New(p))[New(p)] = NoSpace
        /\ \A i \in Space : i # Cur(p) /\ i # New(p) => Move(b, Cur(p), New(p))[i] = b[i]
    <3>1. MoveKeeps(f, kstack, b, Cur(p), New(p))
      BY <2>2, <2>4, MoveOwned, Zenon
    <3> QED
      BY <3>1, Zenon DEF MoveKeeps
  <2>6. as' = Move(b, Cur(p), New(p))
    BY <1>4, <2>1, <2>2, <2>3, Zenon DEF Move, Typed
  <2>7. /\ Typed(free', kstack', as') /\ Owned(free', kstack', as')
        /\ as'[Cur(p)] = as[New(p)] /\ as'[New(p)] = NoSpace
        /\ \A g \in Space : g # Cur(p) /\ g # New(p) => as'[g] = as[g]
    BY <1>1, <1>4, <2>2, <2>3, <2>4, <2>5, <2>6, Zenon
  <2>8. /\ state[p] = "LIVE"
        /\ Building(as[Cur(p)], as[New(p)], sz[p], pc[p], job[p], txn[p])
    BY <1>2, BuildFacts, Zenon
  <2>9. Has(as[New(p)], Up(job[p].newsz)) /\ job[p].newsz < KERNBASE /\ txn[p] = 0
    BY <1>1, <2>8, Zenon DEF Building
  <2>10. PICK s \in 0 .. KERNBASE - 1 : s = job[p].newsz
    <3>1. job[p].newsz \in Nat
      BY Facts, Zenon
    <3> QED
      BY <2>9, <3>1, Constants
  <2>11. txn' = [txn EXCEPT ![p] = 0] /\ sz' = [sz EXCEPT ![p] = s]
    BY <1>1, <1>4, <2>9, <2>10, Unmoved, Zenon
  <2>12. Has(as'[Cur(p)], Up(s))
    BY <2>7, <2>9, <2>10, Zenon
  <2>13. Goto(p, "user") /\ job' = [job EXCEPT ![p] = NoJob]
    BY <1>4, Zenon
  <2> QED
    BY <1>1, <2>7, <2>8, <2>11, <2>12, <2>13, UserStep, Zenon
<1> QED
  BY <1>3, <1>4, Zenon DEF ExecCommit

(* exec() gives back what it had taken. *)
LEMMA ExecBadKeeps ==
  ASSUME IInv, NEW p \in Proc, ExecBad(p)
  PROVE  IInv'
<1>1. /\ pc[p] = "bad" /\ state' = state /\ kstack' = kstack /\ sz' = sz
      /\ free' = free \cup Freevm(New(p)) /\ as' = [as EXCEPT ![New(p)] = NoSpace]
      /\ job' = [job EXCEPT ![p] = NoJob] /\ Goto(p, "user")
  BY Zenon DEF ExecBad
<1>2. txn' = [txn EXCEPT ![p] = IF job[p].for = "stack" THEN txn[p] ELSE txn[p] - 1]
  BY Zenon DEF ExecBad
<1>3. Typed(free, kstack, as) /\ Owned(free, kstack, as) /\ txn[p] \in {0, 1}
  BY Facts, Zenon
<1>4. Cur(p) \in Space /\ New(p) \in Space /\ Cur(p) # New(p)
  BY Spaces, Zenon
<1>5. /\ Typed(free', kstack', as') /\ Owned(free', kstack', as') /\ as'[New(p)] = NoSpace
      /\ \A g \in Space : g # New(p) => as'[g] = as[g]
  BY <1>1, <1>3, <1>4, FreevmClears, Zenon
<1>6. state[p] = "LIVE" /\ Failing(as[Cur(p)], sz[p], job[p], txn[p])
  <2>1. pc[p] # "user"
    BY <1>1, Zenon
  <2> QED
    BY <1>1, <2>1, Facts, Zenon DEF LocalInv, Local
<1>7. Has(as[Cur(p)], Up(sz[p])) /\ (txn[p] = 0 <=> job[p].for = "stack")
  BY <1>6, Zenon DEF Failing
<1>8. txn' = [txn EXCEPT ![p] = 0]
  <2>1. (IF job[p].for = "stack" THEN txn[p] ELSE txn[p] - 1) = 0
    BY <1>3, <1>7
  <2> QED
    BY <1>2, <2>1, Zenon
<1>9. PICK s \in 0 .. KERNBASE - 1 : s = sz[p] /\ sz' = [sz EXCEPT ![p] = s]
  BY <1>1, Unmoved, Zenon DEF IInv, TypeInv
<1>10. Has(as'[Cur(p)], Up(s))
  BY <1>4, <1>5, <1>7, <1>9, Zenon
<1>11. state' = state /\ kstack' = kstack /\ job' = [job EXCEPT ![p] = NoJob] /\ Goto(p, "user")
  BY <1>1, Zenon
<1> QED
  BY <1>5, <1>6, <1>8, <1>9, <1>10, <1>11, UserStep, Zenon

(* A step of two processes. *)
LEMMA PairStep ==
  ASSUME IInv, NEW p \in Proc, NEW q \in Proc, TypeInv', Owned(free', kstack', as'),
         LocalInv(p)', LocalInv(q)', \A r \in Proc : r # p /\ r # q => Same(r),
         ChildInv'
  PROVE  IInv'
<1>1. ASSUME NEW r \in Proc PROVE LocalInv(r)'
  <2>1. CASE r = p
    BY <2>1, Zenon
  <2>2. CASE r = q
    BY <2>2, Zenon
  <2>3. CASE r # p /\ r # q
    <3>1. LocalInv(r) /\ Same(r)
      BY <2>3, Zenon DEF IInv
    <3> QED
      BY <3>1, SameLocal, Zenon
  <2> QED
    BY <2>1, <2>2, <2>3, Zenon
<1> QED
  BY <1>1, Zenon DEF IInv

(* In fork(), the child is another process, not yet running. *)
LEMMA CopyFacts ==
  ASSUME IInv, NEW p \in Proc, pc[p] = "copyuvm"
  PROVE  /\ state[p] = "LIVE" /\ kstack[p] # None
         /\ Copying(as[Cur(p)], as[New(p)], sz[p], job[p], txn[p]) /\ txn[p] = 0
         /\ job[p].child \in Proc /\ job[p].child # p /\ state[job[p].child] = "EMBRYO"
         /\ pc[job[p].child] = "user" /\ kstack[job[p].child] # None
         /\ as[Cur(job[p].child)] = NoSpace
         /\ Resting(as[Cur(job[p].child)], as[New(job[p].child)], sz[job[p].child],
                    job[job[p].child], txn[job[p].child])
<1>1. pc[p] # "user"
  BY Zenon
<1>2. state[p] = "LIVE" /\ kstack[p] # None
  BY <1>1, Facts, Zenon DEF LocalInv, Local
<1>3. Copying(as[Cur(p)], as[New(p)], sz[p], job[p], txn[p])
  BY Facts, Zenon DEF LocalInv, Local
<1>4. PICK q \in Proc : q = job[p].child /\ state[q] = "EMBRYO"
  BY Facts, Zenon DEF ChildInv
<1>5. q # p
  BY <1>2, <1>4, Zenon
<1>6. LocalInv(q)
  BY Facts, Zenon
<1>7. pc[q] = "user" /\ kstack[q] # None /\ as[Cur(q)] = NoSpace
  BY <1>4, <1>6, Zenon DEF LocalInv, Local
<1>8. Resting(as[Cur(q)], as[New(q)], sz[q], job[q], txn[q])
  BY <1>6, <1>7, Zenon DEF LocalInv, Local
<1> QED
  BY <1>2, <1>3, <1>4, <1>5, <1>7, <1>8, Zenon DEF Copying

(* What fork() changes when it returns, with the child in state st. *)
Returns(p, q, st) ==
  /\ state' = [state EXCEPT ![q] = st] /\ job' = [job EXCEPT ![p] = NoJob]
  /\ pc' = [pc EXCEPT ![p] = "user"] /\ txn' = txn
  /\ sz' \in [Proc -> 0 .. KERNBASE - 1]
  /\ \A r \in Proc : r # q => sz'[r] = sz[r] /\ kstack'[r] = kstack[r]
  /\ Typed(free', kstack', as') /\ Owned(free', kstack', as')
  /\ as'[New(p)] = NoSpace
  /\ \A g \in Space : g # New(p) /\ g # Cur(q) => as'[g] = as[g]

(* fork() returns. *)
LEMMA ForkEnds ==
  ASSUME IInv, NEW p \in Proc, pc[p] = "copyuvm", NEW q, q = job[p].child,
         NEW st \in {"UNUSED", "LIVE"}, Returns(p, q, st),
         Local(st, kstack'[q], as'[Cur(q)], NoSpace, sz'[q], "user", NoJob, 0)
  PROVE  IInv'
<1>1. /\ state[p] = "LIVE" /\ kstack[p] # None
      /\ Copying(as[Cur(p)], as[New(p)], sz[p], job[p], txn[p]) /\ txn[p] = 0
      /\ q \in Proc /\ q # p /\ state[q] = "EMBRYO" /\ pc[q] = "user"
      /\ Resting(as[Cur(q)], as[New(q)], sz[q], job[q], txn[q])
  BY CopyFacts, Zenon
<1>2. TypeInv'
  BY <1>1, Jobs, Zenon DEF Returns, IInv, TypeInv
<1>3. /\ state'[p] = "LIVE" /\ pc'[p] = "user" /\ job'[p] = NoJob /\ txn'[p] = 0
      /\ state'[q] = st /\ pc'[q] = "user" /\ job'[q] = job[q] /\ txn'[q] = txn[q]
  BY <1>1, Jobs, Zenon DEF Returns, IInv, TypeInv
<1>4. sz'[p] = sz[p] /\ kstack'[p] = kstack[p] /\ as'[New(p)] = NoSpace
  BY <1>1, Zenon DEF Returns
<1>5. as'[Cur(p)] = as[Cur(p)] /\ as'[New(q)] = as[New(q)]
  BY <1>1, Spaces, Zenon DEF Returns
<1>6. LocalInv(p)'
  <2>1. Resting(as'[Cur(p)], as'[New(p)], sz'[p], job'[p], txn'[p])
    BY <1>1, <1>3, <1>4, <1>5, Zenon DEF Resting, Copying
  <2>2. Local(state'[p], kstack'[p], as'[Cur(p)], as'[New(p)], sz'[p], pc'[p], job'[p], txn'[p])
    BY <1>1, <1>3, <1>4, <2>1, Zenon DEF Local
  <2> QED
    BY <2>2, Zenon DEF LocalInv
<1>7. LocalInv(q)'
  <2>1. as'[New(q)] = NoSpace /\ job'[q] = NoJob /\ txn'[q] = 0
    BY <1>1, <1>3, <1>5, Zenon DEF Resting
  <2> QED
    BY <1>3, <2>1, Zenon DEF LocalInv
<1>8. ASSUME NEW r \in Proc, r # p /\ r # q PROVE Same(r)
  <2>1. /\ state'[r] = state[r] /\ pc'[r] = pc[r] /\ job'[r] = job[r] /\ txn'[r] = txn[r]
        /\ sz'[r] = sz[r] /\ kstack'[r] = kstack[r]
    BY <1>8, Zenon DEF Returns, IInv, TypeInv
  <2>2. as'[Cur(r)] = as[Cur(r)] /\ as'[New(r)] = as[New(r)]
    BY <1>1, <1>8, Spaces, Zenon DEF Returns
  <2> QED
    BY <2>1, <2>2, Zenon DEF Same
<1>9. ChildInv'
  <2> SUFFICES ASSUME NEW r \in Proc, pc'[r] = "copyuvm"
               PROVE  /\ job'[r].child \in Proc /\ state'[job'[r].child] = "EMBRYO"
                      /\ \A o \in Proc : pc'[o] = "copyuvm" /\ job'[o].child = job'[r].child => o = r
    BY Zenon DEF ChildInv
  <2>1. ASSUME NEW o \in Proc, pc'[o] = "copyuvm"
        PROVE  o # p /\ o # q /\ pc[o] = "copyuvm" /\ job'[o] = job[o]
    <3>1. o # p /\ o # q
      BY <1>3, <2>1, Zenon
    <3> QED
      BY <1>8, <2>1, <3>1, Zenon DEF Same
  <2>2. ChildInv
    BY Facts, Zenon
  <2>3. /\ job[r].child \in Proc /\ state[job[r].child] = "EMBRYO" /\ job[r].child # q
    BY <2>1, <2>2, Zenon DEF ChildInv
  <2>4. state'[job[r].child] = "EMBRYO"
    <3>1. PICK o \in Proc : o = job[r].child
      BY <2>3, Zenon
    <3>2. state'[o] = state[o]
      BY <2>3, <3>1, Zenon DEF Returns, IInv, TypeInv
    <3> QED
      BY <2>3, <3>1, <3>2, Zenon
  <2>5. job'[r] = job[r] /\ pc[r] = "copyuvm"
    BY <2>1, Zenon
  <2>6. ASSUME NEW o \in Proc, pc'[o] = "copyuvm", job'[o].child = job'[r].child PROVE o = r
    <3>1. pc[o] = "copyuvm" /\ job[o].child = job[r].child
      BY <2>1, <2>5, <2>6, Zenon
    <3> QED
      BY <2>2, <2>5, <3>1, Zenon DEF ChildInv
  <2> QED
    BY <2>3, <2>4, <2>5, <2>6, Zenon
<1>10. Owned(free', kstack', as')
  BY Zenon DEF Returns
<1> QED
  BY <1>1, <1>2, <1>6, <1>7, <1>8, <1>9, <1>10, PairStep, Zenon

(* fork() gives everything back. *)
LEMMA ForkFailsKeeps ==
  ASSUME IInv, NEW p \in Proc, pc[p] = "copyuvm", ForkFails(p, job[p].child), txn' = txn
  PROVE  IInv'
<1>1. PICK q \in Proc : q = job[p].child
  BY CopyFacts, Zenon
<1>2. /\ free' = free \cup Freevm(New(p)) \cup {kstack[q]}
      /\ as' = [as EXCEPT ![New(p)] = NoSpace]
      /\ kstack' = [kstack EXCEPT ![q] = None]
      /\ state' = [state EXCEPT ![q] = "UNUSED"]
      /\ job' = [job EXCEPT ![p] = NoJob]
      /\ pc' = [pc EXCEPT ![p] = "user"] /\ sz' = sz
  BY <1>1, Zenon DEF ForkFails, Goto
<1>3. /\ q # p /\ kstack[q] # None /\ as[Cur(q)] = NoSpace
  BY <1>1, CopyFacts, Zenon
<1>4. Typed(free, kstack, as) /\ Owned(free, kstack, as) /\ New(p) \in Space
  BY Facts, Spaces, Zenon
<1>5. PICK f, b : f = free \cup Freevm(New(p)) /\ b = [as EXCEPT ![New(p)] = NoSpace]
  BY Zenon
<1>6. /\ Typed(f, kstack, b) /\ Owned(f, kstack, b) /\ b[New(p)] = NoSpace
      /\ \A g \in Space : g # New(p) => b[g] = as[g]
  BY <1>4, <1>5, FreevmClears, Zenon
<1>7. /\ Typed(f \cup {kstack[q]}, [kstack EXCEPT ![q] = None], b)
      /\ Owned(f \cup {kstack[q]}, [kstack EXCEPT ![q] = None], b)
  BY <1>3, <1>6, UnstackOwned, Zenon
<1>8. Typed(free', kstack', as') /\ Owned(free', kstack', as')
  BY <1>2, <1>5, <1>7, Zenon
<1>9. kstack'[q] = None /\ \A r \in Proc : r # q => kstack'[r] = kstack[r]
  BY <1>2, <1>4, Zenon DEF Typed
<1>10. sz' \in [Proc -> 0 .. KERNBASE - 1] /\ \A r \in Proc : r # q => sz'[r] = sz[r]
  BY <1>2, Zenon DEF IInv, TypeInv
<1>11. as'[New(p)] = NoSpace /\ \A g \in Space : g # New(p) => as'[g] = as[g]
  BY <1>2, <1>5, <1>6, Zenon
<1>12. PICK st \in {"UNUSED", "LIVE"} : st = "UNUSED"
  BY Zenon
<1>13. Returns(p, q, st)
  BY <1>2, <1>8, <1>9, <1>10, <1>11, <1>12, Zenon DEF Returns
<1>14. as'[Cur(q)] = NoSpace
  BY <1>3, <1>11, Spaces, Zenon
<1>15. Resting(as'[Cur(q)], NoSpace, sz'[q], NoJob, 0)
  BY <1>14, NoSpaceHas, Zenon DEF Resting
<1>16. Local(st, kstack'[q], as'[Cur(q)], NoSpace, sz'[q], "user", NoJob, 0)
  BY <1>9, <1>12, <1>14, <1>15, Zenon DEF Local
<1> QED
  BY <1>1, <1>13, <1>16, ForkEnds, Zenon

(* copyuvm() sets up the new directory. *)
LEMMA CopySetupKeeps ==
  ASSUME IInv, NEW p \in Proc, CopySetup(p)
  PROVE  IInv'
<1>1. pc[p] = "copyuvm" /\ as[New(p)] = NoSpace /\ txn' = txn
  BY Zenon DEF CopySetup
<1>2. CASE ~ CanSetupkvm
  <2>1. ForkFails(p, job[p].child)
    BY <1>2, Zenon DEF CopySetup
  <2> QED
    BY <1>1, <2>1, ForkFailsKeeps, Zenon
<1>3. CASE CanSetupkvm
  <2>1. /\ Setupkvm(New(p)) /\ state' = state /\ kstack' = kstack /\ sz' = sz
        /\ pc' = pc /\ job' = job
    BY <1>3, Zenon DEF CopySetup
  <2>2. /\ Typed(free, kstack, as) /\ Owned(free, kstack, as) /\ job[p] \in Job
        /\ txn[p] \in {0, 1}
    BY Facts, Zenon
  <2>3. Cur(p) \in Space /\ New(p) \in Space /\ Cur(p) # New(p)
    BY Spaces, Zenon
  <2>4. /\ Typed(free', kstack, as') /\ Owned(free', kstack, as')
        /\ \A g \in Space : g # New(p) => as'[g] = as[g]
        /\ Has(as'[New(p)], 0)
    BY <1>1, <2>1, <2>2, <2>3, SetupkvmBuilds, Zenon
  <2>5. /\ state[p] = "LIVE" /\ kstack[p] # None /\ txn[p] = 0
        /\ Copying(as[Cur(p)], as[New(p)], sz[p], job[p], txn[p])
    BY <1>1, CopyFacts, Zenon
  <2>6. Copying(as'[Cur(p)], as'[New(p)], sz[p], job[p], txn[p])
    <3>1. PICK n \in Nat : job[p].a = n * PGSIZE /\ Has(as[New(p)], n) /\ n <= Up(sz[p])
      BY <2>5, Zenon DEF Copying
    <3>2. n = 0
      BY <1>1, <3>1, NoSpaceHas, Zenon
    <3> QED
      BY <2>3, <2>4, <2>5, <3>1, <3>2, Zenon DEF Copying
  <2>7. PICK c \in {"user", "allocuvm", "segments", "loaduvm", "args", "bad", "copyuvm"} : c = "copyuvm"
    BY Zenon
  <2>8. PICK s \in 0 .. KERNBASE - 1 : s = sz[p] /\ sz' = [sz EXCEPT ![p] = s]
    BY <2>1, Unmoved, Zenon DEF IInv, TypeInv
  <2>9. Local(state[p], kstack[p], as'[Cur(p)], as'[New(p)], s, c, job[p], txn[p])
    BY <2>5, <2>6, <2>7, <2>8, Zenon DEF Local
  <2>10. /\ pc' = [pc EXCEPT ![p] = c] /\ job' = [job EXCEPT ![p] = job[p]]
         /\ txn' = [txn EXCEPT ![p] = txn[p]]
    BY <1>1, <2>1, <2>7, Unmoved, Zenon
  <2>11. Moves(p, s, c, job[p], txn[p])
    BY <2>1, <2>4, <2>8, <2>10, Zenon DEF Moves
  <2> QED
    BY <1>1, <2>2, <2>9, <2>11, ProcStep, Zenon
<1> QED
  BY <1>2, <1>3, Zenon

(* copyuvm() copies a page, which is there. *)
LEMMA CopyPageKeeps ==
  ASSUME IInv, NEW p \in Proc, CopyPage(p)
  PROVE  IInv'
<1>1. PICK j \in Job : j = job[p]
  BY Facts, Zenon
<1>2. pc[p] = "copyuvm" /\ j.a < sz[p] /\ txn' = txn
  BY <1>1, Zenon DEF CopyPage
<1>3. IF as[Cur(p)][Pte(j.a)] = None
      THEN Goto(p, "panic") /\ UNCHANGED <<free, state, kstack, as, sz, job>>
      ELSE IF ~ Room(New(p), j.a) THEN ForkFails(p, job[p].child)
      ELSE /\ Mappages(New(p), j.a)
           /\ job' = [job EXCEPT ![p].a = @ + PGSIZE]
           /\ UNCHANGED <<state, kstack, sz, pc>>
  BY <1>1, Zenon DEF CopyPage
<1>4. /\ state[p] = "LIVE" /\ kstack[p] # None /\ txn[p] = 0
      /\ Copying(as[Cur(p)], as[New(p)], sz[p], j, txn[p])
  BY <1>1, <1>2, CopyFacts, Zenon
<1>5. PICK n \in Nat : j.a = n * PGSIZE /\ Has(as[New(p)], n) /\ n <= Up(sz[p])
  BY <1>4, Zenon DEF Copying
<1>6. sz[p] \in Nat /\ sz[p] < KERNBASE /\ j.a \in Nat /\ Typed(free, kstack, as)
      /\ Owned(free, kstack, as) /\ txn[p] \in {0, 1}
  BY <1>1, Facts, Zenon
<1>7. n < Up(sz[p]) /\ Up(sz[p]) \in Nat
  <2>1. n * PGSIZE < sz[p]
    BY <1>2, <1>5, Zenon
  <2> QED
    BY <1>6, <2>1, UpIs, Zenon
<1>8. n \in VPage
  <2>1. Up(sz[p]) <= Up(KERNBASE) /\ Up(KERNBASE) \in Nat
    BY <1>6, Constants, UpMonotone, UpIs
  <2> QED
    BY <1>7, <2>1, UserPages
<1>9. Pte(j.a) = Map(n)
  BY <1>5, UpWhole, Zenon DEF Pte
<1>10. as[Cur(p)][Pte(j.a)] # None
  BY <1>4, <1>7, <1>8, <1>9, Zenon DEF Copying, Has
<1>11. CASE ~ Room(New(p), j.a)
  <2>1. ForkFails(p, job[p].child)
    BY <1>3, <1>10, <1>11, Zenon
  <2> QED
    BY <1>2, <2>1, ForkFailsKeeps, Zenon
<1>12. CASE Room(New(p), j.a)
  <2>1. /\ Mappages(New(p), n * PGSIZE) /\ job' = [job EXCEPT ![p].a = @ + PGSIZE]
        /\ state' = state /\ kstack' = kstack /\ sz' = sz /\ pc' = pc
    BY <1>3, <1>5, <1>10, <1>12, Zenon
  <2>2. as[New(p)][Map(n)] = None
    <3>1. ~ (n < n)
      OBVIOUS
    <3> QED
      BY <1>5, <1>8, <3>1, Zenon DEF Has
  <2>3. Cur(p) \in Space /\ New(p) \in Space /\ Cur(p) # New(p)
    BY Spaces, Zenon
  <2>4. /\ Typed(free', kstack, as') /\ Owned(free', kstack, as')
        /\ \A g \in Space : g # New(p) => as'[g] = as[g]
        /\ \A v \in VPage : as'[New(p)][Map(v)] # None <=> as[New(p)][Map(v)] # None \/ v = n
    BY <1>6, <1>8, <2>1, <2>2, <2>3, MappagesAdds, Zenon
  <2>5. Has(as'[New(p)], n + 1)
    <3> SUFFICES ASSUME NEW v \in VPage PROVE as'[New(p)][Map(v)] # None <=> v < n + 1
      BY Zenon DEF Has
    <3>1. v \in Nat
      BY UserPages
    <3>2. v < n + 1 <=> v < n \/ v = n
      BY <3>1
    <3>3. as[New(p)][Map(v)] # None <=> v < n
      BY <1>5, Zenon DEF Has
    <3> QED
      BY <2>4, <3>2, <3>3, Zenon
  <2>6. /\ n + 1 \in Nat /\ (n + 1) * PGSIZE = j.a + PGSIZE /\ j.a + PGSIZE \in Nat
        /\ n + 1 <= Up(sz[p])
    <3>1. n + 1 \in Nat /\ n + 1 <= Up(sz[p])
      BY <1>7
    <3>2. (n + 1) * PGSIZE = j.a + PGSIZE
      BY <1>5, UpWhole, Zenon
    <3>3. j.a + PGSIZE \in Nat
      BY <1>6, Constants
    <3> QED
      BY <3>1, <3>2, <3>3, Zenon
  <2>7. PICK k : k = [j EXCEPT !.a = j.a + PGSIZE]
    BY Zenon
  <2>8. k \in Job /\ k.a = (n + 1) * PGSIZE /\ k.child = job[p].child
    BY <1>1, <2>6, <2>7, JobFields
  <2>9. job' = [job EXCEPT ![p] = k]
    BY <1>1, <2>1, <2>7, Zenon DEF IInv, TypeInv
  <2>10. PICK c \in {"user", "allocuvm", "segments", "loaduvm", "args", "bad", "copyuvm"} : c = "copyuvm"
    BY Zenon
  <2>11. PICK s \in 0 .. KERNBASE - 1 : s = sz[p] /\ sz' = [sz EXCEPT ![p] = s]
    BY <2>1, Unmoved, Zenon DEF IInv, TypeInv
  <2>12. Copying(as'[Cur(p)], as'[New(p)], s, k, txn[p])
    BY <1>4, <2>3, <2>4, <2>5, <2>6, <2>8, <2>11, Zenon DEF Copying
  <2>13. Local(state[p], kstack[p], as'[Cur(p)], as'[New(p)], s, c, k, txn[p])
    BY <1>4, <2>10, <2>12 DEF Local
  <2>14. /\ pc' = [pc EXCEPT ![p] = c] /\ txn' = [txn EXCEPT ![p] = txn[p]]
    BY <1>2, <2>1, <2>10, Unmoved, Zenon
  <2>15. Moves(p, s, c, k, txn[p])
    BY <2>1, <2>4, <2>9, <2>11, <2>14, Zenon DEF Moves
  <2> QED
    BY <1>2, <1>6, <2>8, <2>13, <2>15, ProcStep, Zenon
<1> QED
  BY <1>11, <1>12, Zenon

(* fork() hands the copy to the child. *)
LEMMA ForkDoneKeeps ==
  ASSUME IInv, NEW p \in Proc, ForkDone(p)
  PROVE  IInv'
<1>1. pc[p] = "copyuvm" /\ job[p].a >= sz[p]
  BY Zenon DEF ForkDone
<1>2. PICK q \in Proc : q = job[p].child
  BY <1>1, CopyFacts, Zenon
<1>3. /\ as' = [as EXCEPT ![Cur(q)] = as[New(p)], ![New(p)] = NoSpace]
      /\ sz' = [sz EXCEPT ![q] = sz[p]]
      /\ state' = [state EXCEPT ![q] = "LIVE"]
      /\ job' = [job EXCEPT ![p] = NoJob]
      /\ pc' = [pc EXCEPT ![p] = "user"]
      /\ free' = free /\ kstack' = kstack /\ txn' = txn
  BY <1>2, Zenon DEF ForkDone, Goto
<1>4. /\ q # p /\ kstack[q] # None /\ as[Cur(q)] = NoSpace
      /\ Copying(as[Cur(p)], as[New(p)], sz[p], job[p], txn[p])
  BY <1>1, <1>2, CopyFacts, Zenon
<1>5. Typed(free, kstack, as) /\ Owned(free, kstack, as) /\ sz[p] \in Nat /\ job[p].a \in Nat
  BY Facts, Zenon
<1>6. Cur(q) \in Space /\ New(p) \in Space /\ Cur(q) # New(p)
  BY Spaces, Zenon
<1>7. PICK g \in Space, h \in Space : g = Cur(q) /\ h = New(p) /\ g # h /\ as[g] = NoSpace
  BY <1>4, <1>6, Zenon
<1>8. /\ Typed(free, kstack, Move(as, g, h)) /\ Owned(free, kstack, Move(as, g, h))
      /\ Move(as, g, h)[g] = as[h] /\ Move(as, g, h)[h] = NoSpace
      /\ \A i \in Space : i # g /\ i # h => Move(as, g, h)[i] = as[i]
  <2>1. MoveKeeps(free, kstack, as, g, h)
    BY <1>5, <1>7, MoveOwned, Zenon
  <2> QED
    BY <2>1, Zenon DEF MoveKeeps
<1>17. as' = Move(as, g, h)
  BY <1>3, <1>7, Zenon DEF Move
<1>9. /\ Typed(free', kstack', as') /\ Owned(free', kstack', as')
      /\ as'[Cur(q)] = as[New(p)] /\ as'[New(p)] = NoSpace
      /\ \A i \in Space : i # New(p) /\ i # Cur(q) => as'[i] = as[i]
  BY <1>3, <1>7, <1>8, <1>17, Zenon
<1>10. /\ sz' \in [Proc -> 0 .. KERNBASE - 1] /\ sz'[q] = sz[p]
       /\ \A r \in Proc : r # q => sz'[r] = sz[r]
  BY <1>3, Zenon DEF IInv, TypeInv
<1>11. PICK st \in {"UNUSED", "LIVE"} : st = "LIVE"
  BY Zenon
<1>12. Returns(p, q, st)
  BY <1>3, <1>9, <1>10, <1>11, Zenon DEF Returns
<1>13. Has(as'[Cur(q)], Up(sz'[q]))
  <2>1. PICK n \in Nat : job[p].a = n * PGSIZE /\ Has(as[New(p)], n) /\ n <= Up(sz[p])
    BY <1>4, Zenon DEF Copying
  <2>2. ~ (n * PGSIZE < sz[p])
    BY <1>1, <1>5, <2>1
  <2>3. Up(sz[p]) \in Nat /\ ~ (n < Up(sz[p]))
    BY <1>5, <2>2, UpIs, Zenon
  <2>4. n = Up(sz[p])
    BY <2>1, <2>3
  <2> QED
    BY <1>9, <1>10, <2>1, <2>4, Zenon
<1>14. kstack'[q] # None
  BY <1>3, <1>4, Zenon
<1>15. Resting(as'[Cur(q)], NoSpace, sz'[q], NoJob, 0)
  BY <1>13, Zenon DEF Resting
<1>16. Local(st, kstack'[q], as'[Cur(q)], NoSpace, sz'[q], "user", NoJob, 0)
  BY <1>11, <1>14, <1>15, Zenon DEF Local
<1> QED
  BY <1>1, <1>2, <1>12, <1>16, ForkEnds, Zenon

(* fork() takes a slot and a kernel stack. *)
LEMMA ForkKeeps ==
  ASSUME IInv, NEW p \in Proc, NEW q \in Proc, Fork(p, q)
  PROVE  IInv'
<1>1. /\ InUser(p) /\ state[q] = "UNUSED"
      /\ state' = [state EXCEPT ![q] = "EMBRYO"]
      /\ job' = [job EXCEPT ![p].child = q] /\ pc' = [pc EXCEPT ![p] = "copyuvm"]
      /\ as' = as /\ sz' = sz /\ txn' = txn
  BY Zenon DEF Fork, Goto
<1>2. PICK mem \in free : free' = free \ {mem} /\ kstack' = [kstack EXCEPT ![q] = mem]
  BY Zenon DEF Fork, Kalloc
<1>3. /\ state[p] = "LIVE" /\ pc[p] = "user" /\ as[New(p)] = NoSpace
      /\ job[p] = NoJob /\ txn[p] = 0 /\ Has(as[Cur(p)], Up(sz[p]))
  BY <1>1, UserFacts, Zenon
<1>4. Typed(free, kstack, as) /\ Owned(free, kstack, as) /\ LocalInv(q) /\ LocalInv(p) /\ ChildInv
      /\ sz[p] \in Nat
  BY Facts, Zenon
<1>5. /\ p # q /\ kstack[q] = None /\ kstack[p] # None /\ pc[q] = "user" /\ as[Cur(q)] = NoSpace
  BY <1>1, <1>3, <1>4, Zenon DEF LocalInv, Local
<1>6. Typed(free', kstack', as') /\ Owned(free', kstack', as')
  <2>1. /\ Typed(free \ {mem}, [kstack EXCEPT ![q] = mem], as)
        /\ Owned(free \ {mem}, [kstack EXCEPT ![q] = mem], as)
    BY <1>4, <1>5, StackOwned, Zenon
  <2> QED
    BY <1>1, <1>2, <2>1, Zenon
<1>7. PICK k : k = [job[p] EXCEPT !.child = q]
  BY Zenon
<1>8. k \in Job /\ k.a = 0 /\ k.child = q
  <2>1. NoJob \in Job /\ NoJob.a = 0
    BY Jobs, Zenon DEF NoJob
  <2> QED
    BY <1>3, <1>7, <2>1, JobFields
<1>9. job' = [job EXCEPT ![p] = k]
  BY <1>1, <1>7, Zenon DEF IInv, TypeInv
<1>10. TypeInv'
  BY <1>1, <1>6, <1>8, <1>9 DEF IInv, TypeInv
<1>11. /\ state'[p] = "LIVE" /\ pc'[p] = "copyuvm" /\ job'[p] = k
       /\ state'[q] = "EMBRYO" /\ pc'[q] = "user" /\ job'[q] = job[q]
  BY <1>1, <1>3, <1>5, <1>9, Zenon DEF IInv, TypeInv
<1>12. kstack'[p] = kstack[p] /\ kstack'[q] # None
  BY <1>2, <1>4, <1>5, MemoryPages, Zenon DEF Typed
<1>13. LocalInv(p)'
  <2>1. /\ 0 \in Nat /\ k.a = 0 * PGSIZE /\ 0 <= Up(sz[p])
    BY <1>4, <1>8, UpIs, Constants
  <2>2. Copying(as[Cur(p)], as[New(p)], sz[p], k, txn[p])
    BY <1>3, <2>1, NoSpaceHas, Zenon DEF Copying
  <2>3. Local(state'[p], kstack'[p], as[Cur(p)], as[New(p)], sz[p], pc'[p], job'[p], txn[p])
    BY <1>5, <1>11, <1>12, <2>2, Zenon DEF Local
  <2> QED
    BY <1>1, <2>3, Zenon DEF LocalInv
<1>14. LocalInv(q)'
  <2>1. Resting(as[Cur(q)], as[New(q)], sz[q], job[q], txn[q])
    BY <1>4, <1>5, Zenon DEF LocalInv, Local
  <2>2. Local(state'[q], kstack'[q], as[Cur(q)], as[New(q)], sz[q], pc'[q], job'[q], txn[q])
    BY <1>5, <1>11, <1>12, <2>1, Zenon DEF Local
  <2> QED
    BY <1>1, <2>2, Zenon DEF LocalInv
<1>15. ASSUME NEW r \in Proc, r # p /\ r # q PROVE Same(r)
  <2>1. state'[r] = state[r] /\ pc'[r] = pc[r] /\ job'[r] = job[r] /\ kstack'[r] = kstack[r]
    BY <1>1, <1>2, <1>4, <1>9, <1>15 DEF IInv, TypeInv, Typed
  <2> QED
    BY <1>1, <2>1, Zenon DEF Same
<1>16. ChildInv'
  <2> SUFFICES ASSUME NEW r \in Proc, pc'[r] = "copyuvm"
               PROVE  /\ job'[r].child \in Proc /\ state'[job'[r].child] = "EMBRYO"
                      /\ \A o \in Proc : pc'[o] = "copyuvm" /\ job'[o].child = job'[r].child => o = r
    BY Zenon DEF ChildInv
  <2>1. ASSUME NEW o \in Proc, pc'[o] = "copyuvm", o # p
        PROVE  /\ pc[o] = "copyuvm" /\ job'[o] = job[o] /\ job[o].child \in Proc
               /\ state[job[o].child] = "EMBRYO" /\ job[o].child # q
               /\ state'[job[o].child] = "EMBRYO"
    <3>1. o # q
      BY <1>11, <2>1, Zenon
    <3>2. pc[o] = "copyuvm" /\ job'[o] = job[o]
      BY <1>15, <2>1, <3>1, Zenon DEF Same
    <3>3. job[o].child \in Proc /\ state[job[o].child] = "EMBRYO"
      BY <1>4, <3>2, Zenon DEF ChildInv
    <3>4. job[o].child # q
      BY <1>1, <3>3, Zenon
    <3>5. PICK m \in Proc : m = job[o].child
      BY <3>3, Zenon
    <3>6. state'[m] = state[m]
      BY <1>1, <3>4, <3>5, Zenon DEF IInv, TypeInv
    <3> QED
      BY <3>2, <3>3, <3>4, <3>5, <3>6, Zenon
  <2>2. CASE r = p
    <3>1. job'[r].child = q
      BY <1>8, <1>11, <2>2, Zenon
    <3>2. ASSUME NEW o \in Proc, pc'[o] = "copyuvm", job'[o].child = job'[r].child PROVE o = r
      <4>1. o # p => job'[o] = job[o] /\ job[o].child # q
        BY <2>1, <3>2, Zenon
      <4> QED
        BY <2>2, <3>1, <3>2, <4>1, Zenon
    <3>3. state'[job'[r].child] = "EMBRYO" /\ job'[r].child \in Proc
      BY <1>11, <3>1, Zenon
    <3> QED
      BY <3>2, <3>3, Zenon
  <2>3. CASE r # p
    <3>1. /\ pc[r] = "copyuvm" /\ job'[r] = job[r] /\ job[r].child \in Proc /\ job[r].child # q
          /\ state'[job[r].child] = "EMBRYO"
      BY <2>1, <2>3, Zenon
    <3>2. ASSUME NEW o \in Proc, pc'[o] = "copyuvm", job'[o].child = job'[r].child PROVE o = r
      <4>1. o # p
        BY <1>8, <1>11, <3>1, <3>2, Zenon
      <4>2. pc[o] = "copyuvm" /\ job'[o] = job[o]
        BY <2>1, <3>2, <4>1, Zenon
      <4>3. job[o].child = job[r].child
        BY <3>1, <3>2, <4>2, Zenon
      <4> QED
        BY <1>4, <3>1, <4>2, <4>3, Zenon DEF ChildInv
    <3> QED
      BY <3>1, <3>2, Zenon
  <2> QED
    BY <2>2, <2>3, Zenon
<1> QED
  BY <1>6, <1>10, <1>13, <1>14, <1>15, <1>16, PairStep, Zenon

(* exit() leaves the memory to wait(). *)
LEMMA ExitKeeps ==
  ASSUME IInv, NEW p \in Proc, Exit(p)
  PROVE  IInv'
<1>1. /\ state[p] = "LIVE" /\ pc[p] = "user" /\ state' = [state EXCEPT ![p] = "ZOMBIE"]
      /\ free' = free /\ kstack' = kstack /\ as' = as /\ sz' = sz
      /\ pc' = pc /\ job' = job /\ txn' = txn
  BY Zenon DEF Exit
<1>2. TypeInv' /\ Owned(free', kstack', as')
  BY <1>1, Zenon DEF IInv, TypeInv
<1>3. state'[p] = "ZOMBIE" /\ \A r \in Proc : r # p => state'[r] = state[r]
  BY <1>1, Zenon DEF IInv, TypeInv
<1>4. LocalInv(p)'
  <2>1. LocalInv(p)
    BY Facts, Zenon
  <2>2. kstack[p] # None
    BY <1>1, <2>1, Zenon DEF LocalInv, Local
  <2>3. Resting(as[Cur(p)], as[New(p)], sz[p], job[p], txn[p])
    BY <1>1, <2>1, Zenon DEF LocalInv, Local
  <2>4. Local("ZOMBIE", kstack[p], as[Cur(p)], as[New(p)], sz[p], pc[p], job[p], txn[p])
    BY <1>1, <2>2, <2>3, Zenon DEF Local
  <2> QED
    BY <1>1, <1>3, <2>4, Zenon DEF LocalInv
<1>5. \A r \in Proc : r # p => Same(r)
  BY <1>1, <1>3, Zenon DEF Same
<1>6. ChildInv'
  <2>1. \A q \in Proc : state[q] = "EMBRYO" => state'[q] = "EMBRYO"
    BY <1>1, <1>3, Zenon
  <2>2. ChildInv
    BY Facts, Zenon
  <2> QED
    BY <1>1, <2>1, <2>2, ChildKept, Zenon
<1> QED
  BY <1>2, <1>4, <1>5, <1>6, PairStep, Zenon

(* wait() gives back the memory of a zombie. *)
LEMMA WaitKeeps ==
  ASSUME IInv, NEW p \in Proc, NEW q \in Proc, Wait(p, q)
  PROVE  IInv'
<1>1. /\ state[q] = "ZOMBIE"
      /\ free' = free \cup Freevm(Cur(q)) \cup {kstack[q]}
      /\ as' = [as EXCEPT ![Cur(q)] = NoSpace]
      /\ kstack' = [kstack EXCEPT ![q] = None]
      /\ sz' = [sz EXCEPT ![q] = 0]
      /\ state' = [state EXCEPT ![q] = "UNUSED"]
      /\ pc' = pc /\ job' = job /\ txn' = txn
  BY Zenon DEF Wait
<1>2. Typed(free, kstack, as) /\ Owned(free, kstack, as) /\ LocalInv(q) /\ ChildInv
  BY Facts, Zenon
<1>3. kstack[q] # None /\ pc[q] = "user"
  BY <1>1, <1>2, Zenon DEF LocalInv, Local
<1>4. Resting(as[Cur(q)], as[New(q)], sz[q], job[q], txn[q])
  BY <1>2, <1>3, Zenon DEF LocalInv, Local
<1>5. Cur(q) \in Space
  BY Spaces, Zenon
<1>6. PICK f, b : f = free \cup Freevm(Cur(q)) /\ b = [as EXCEPT ![Cur(q)] = NoSpace]
  BY Zenon
<1>7. /\ Typed(f, kstack, b) /\ Owned(f, kstack, b) /\ b[Cur(q)] = NoSpace
      /\ \A g \in Space : g # Cur(q) => b[g] = as[g]
  BY <1>2, <1>5, <1>6, FreevmClears, Zenon
<1>8. /\ Typed(f \cup {kstack[q]}, [kstack EXCEPT ![q] = None], b)
      /\ Owned(f \cup {kstack[q]}, [kstack EXCEPT ![q] = None], b)
  BY <1>3, <1>7, UnstackOwned, Zenon
<1>9. Typed(free', kstack', as') /\ Owned(free', kstack', as')
  BY <1>1, <1>6, <1>8, Zenon
<1>10. 0 \in 0 .. KERNBASE - 1
  BY Constants
<1>11. TypeInv'
  BY <1>1, <1>9, <1>10, Zenon DEF IInv, TypeInv
<1>12. /\ state'[q] = "UNUSED" /\ kstack'[q] = None
       /\ \A r \in Proc : r # q =>
            state'[r] = state[r] /\ kstack'[r] = kstack[r] /\ sz'[r] = sz[r]
  BY <1>1, <1>2, Zenon DEF IInv, TypeInv, Typed
<1>13. as'[Cur(q)] = NoSpace /\ \A g \in Space : g # Cur(q) => as'[g] = as[g]
  BY <1>1, <1>6, <1>7, Zenon
<1>14. LocalInv(q)'
  <2>1. as'[New(q)] = as[New(q)]
    BY <1>13, Spaces, Zenon
  <2>2. Resting(as'[Cur(q)], as'[New(q)], sz'[q], job[q], txn[q])
    BY <1>4, <1>13, <2>1, NoSpaceHas, Zenon DEF Resting
  <2>3. Local(state'[q], kstack'[q], as'[Cur(q)], as'[New(q)], sz'[q], pc[q], job[q], txn[q])
    BY <1>3, <1>12, <1>13, <2>2 DEF Local
  <2> QED
    BY <1>1, <2>3, Zenon DEF LocalInv
<1>15. ASSUME NEW r \in Proc, r # q PROVE Same(r)
  <2>1. as'[Cur(r)] = as[Cur(r)] /\ as'[New(r)] = as[New(r)]
    BY <1>13, <1>15, Spaces, Zenon
  <2> QED
    BY <1>1, <1>12, <1>15, <2>1, Zenon DEF Same
<1>16. ChildInv'
  <2>1. \A r \in Proc : state[r] = "EMBRYO" => state'[r] = "EMBRYO"
    BY <1>1, <1>12
  <2> QED
    BY <1>1, <1>2, <2>1, ChildKept, Zenon
<1> QED
  BY <1>9, <1>11, <1>14, <1>15, <1>16, PairStep, Zenon

--------------------------------------------------------------------------------
(* userinit() takes five pages of memory. *)
LEMMA InitOwned ==
  ASSUME Init
  PROVE  /\ Typed(free, kstack, as) /\ Owned(free, kstack, as)
         /\ Has(as[Cur(initproc)], 1) /\ kstack[initproc] # None
<1>1. \A i \in 0 .. 4 : First(i) \in Memory
  BY VmAssumption, Zenon
<1>2. PICK u \in Nat : \A i \in 0 .. 4 : First(i) = u + i
  <2>1. PICK u \in Nat : u = PGROUNDUP(End) \div PGSIZE
    BY RoundUp, UpIs, UpWhole, Constants
  <2> QED
    BY <2>1, Zenon DEF First
<1>3. PICK m0 \in Memory, m1 \in Memory, m2 \in Memory, m3 \in Memory, m4 \in Memory :
        /\ m0 = First(0) /\ m1 = First(1) /\ m2 = First(2) /\ m3 = First(3) /\ m4 = First(4)
  BY <1>1
<1>4. /\ m0 = u /\ m1 = u + 1 /\ m2 = u + 2 /\ m3 = u + 3 /\ m4 = u + 4
  BY <1>2, <1>3
<1>5. /\ m1 # m0 /\ m2 # m0 /\ m2 # m1 /\ m3 # m0 /\ m3 # m1 /\ m3 # m2
      /\ m4 # m0 /\ m4 # m1 /\ m4 # m2 /\ m4 # m3
  BY <1>4
<1>6. PICK h \in Space : h = Cur(initproc)
  BY Spaces, VmAssumption, Zenon
<1>7. PICK x1 \in Slot, x2 \in Slot, x3 \in Slot, x4 \in Slot :
        /\ x1 = Dir /\ x2 = Tab(KernelTable) /\ x3 = Tab(0) /\ x4 = Map(0)
  BY SlotsDiffer, Zenon
<1>8. x2 # x1 /\ x3 # x1 /\ x3 # x2 /\ x4 # x1 /\ x4 # x2 /\ x4 # x3
  BY <1>7, SlotsDiffer, UserPages
<1>9. PICK k0, a0 : k0 = [q \in Proc |-> None] /\ a0 = [g \in Space |-> NoSpace]
  BY Zenon
<1>10. Typed(Memory, k0, a0)
  BY <1>9, NoSpaceHas, Zenon DEF Typed
<1>11. Owned(Memory, k0, a0)
  BY <1>9, NoSpaceHas, Zenon DEF Owned
<1>12. initproc \in Proc /\ k0[initproc] = None
  BY <1>9, VmAssumption, Zenon
<1>13. PICK f1, k1 : f1 = Memory \ {m0} /\ k1 = [k0 EXCEPT ![initproc] = m0]
  BY Zenon
<1>14. Typed(f1, k1, a0) /\ Owned(f1, k1, a0)
  BY <1>10, <1>11, <1>12, <1>13, StackOwned, Zenon
<1>15. PICK f2, a2 : f2 = f1 \ {m1} /\ a2 = Put(a0, h, x1, m1)
  BY Zenon
<1>16. /\ Typed(f2, k1, a2) /\ Owned(f2, k1, a2)
       /\ \A g \in Space : g # h => a2[g] = NoSpace
       /\ a2[h][x1] = m1 /\ \A x \in Slot : x # x1 => a2[h][x] = None
  <2>1. m1 \in f1 /\ a0[h][x1] = None
    BY <1>5, <1>9, <1>13, NoSpaceHas, Zenon
  <2>2. PutKeeps(f1, k1, a0, h, x1, m1)
    BY <1>14, <2>1, PutOwned, Zenon
  <2>3. \A g \in Space : a0[g] = NoSpace
    BY <1>9, Zenon
  <2> QED
    BY <1>15, <2>2, <2>3, NoSpaceHas, Zenon DEF PutKeeps
<1>17. PICK f3, a3 : f3 = f2 \ {m2} /\ a3 = Put(a2, h, x2, m2)
  BY Zenon
<1>18. /\ Typed(f3, k1, a3) /\ Owned(f3, k1, a3)
       /\ \A g \in Space : g # h => a3[g] = NoSpace
       /\ a3[h][x2] = m2 /\ \A x \in Slot : x # x2 => a3[h][x] = a2[h][x]
  <2>1. m2 \in f2 /\ a2[h][x2] = None
    BY <1>5, <1>8, <1>13, <1>15, <1>16
  <2>2. PutKeeps(f2, k1, a2, h, x2, m2)
    BY <1>16, <2>1, PutOwned, Zenon
  <2> QED
    BY <1>16, <1>17, <2>2, Zenon DEF PutKeeps
<1>19. PICK f4, a4 : f4 = f3 \ {m3} /\ a4 = Put(a3, h, x3, m3)
  BY Zenon
<1>20. /\ Typed(f4, k1, a4) /\ Owned(f4, k1, a4)
       /\ \A g \in Space : g # h => a4[g] = NoSpace
       /\ a4[h][x3] = m3 /\ \A x \in Slot : x # x3 => a4[h][x] = a3[h][x]
  <2>1. m3 \in f3 /\ a3[h][x3] = None
    BY <1>5, <1>8, <1>13, <1>15, <1>16, <1>17, <1>18
  <2>2. PutKeeps(f3, k1, a3, h, x3, m3)
    BY <1>18, <2>1, PutOwned, Zenon
  <2> QED
    BY <1>18, <1>19, <2>2, Zenon DEF PutKeeps
<1>21. PICK f5, a5 : f5 = f4 \ {m4} /\ a5 = Put(a4, h, x4, m4)
  BY Zenon
<1>22. /\ Typed(f5, k1, a5) /\ Owned(f5, k1, a5)
       /\ \A g \in Space : g # h => a5[g] = NoSpace
       /\ a5[h][x4] = m4 /\ \A x \in Slot : x # x4 => a5[h][x] = a4[h][x]
  <2>1. m4 \in f4 /\ a4[h][x4] = None
    BY <1>5, <1>8, <1>13, <1>15, <1>16, <1>17, <1>18, <1>19, <1>20
  <2>2. PutKeeps(f4, k1, a4, h, x4, m4)
    BY <1>20, <2>1, PutOwned, Zenon
  <2> QED
    BY <1>20, <1>21, <2>2, Zenon DEF PutKeeps
<1>23. free = f5
  <2>1. {First(i) : i \in 0 .. 4} = {m0, m1, m2, m3, m4}
    <3>1. \A i \in 0 .. 4 : i = 0 \/ i = 1 \/ i = 2 \/ i = 3 \/ i = 4
      OBVIOUS
    <3>2. 0 \in 0 .. 4 /\ 1 \in 0 .. 4 /\ 2 \in 0 .. 4 /\ 3 \in 0 .. 4 /\ 4 \in 0 .. 4
      OBVIOUS
    <3> QED
      BY <1>3, <3>1, <3>2, Zenon
  <2>2. free = Memory \ {m0, m1, m2, m3, m4}
    BY <2>1, Zenon DEF Init
  <2> QED
    BY <1>13, <1>15, <1>17, <1>19, <1>21, <2>2, Zenon
<1>24. kstack = k1 /\ kstack[initproc] = m0
  BY <1>3, <1>9, <1>12, <1>13 DEF Init
<1>25. as = a5
  <2>1. PICK A : A = [NoSpace EXCEPT ![x1] = m1, ![x2] = m2, ![x3] = m3, ![x4] = m4]
    BY Zenon
  <2>2. as = [g \in Space |-> IF g # h THEN NoSpace ELSE A]
    BY <1>3, <1>6, <1>7, <2>1, Zenon DEF Init
  <2>3. A = a5[h]
    <3>1. A \in [Slot -> Memory \cup {None}] /\ a5[h] \in [Slot -> Memory \cup {None}]
      BY <1>22, <2>1, NoSpaceHas, Zenon DEF Typed
    <3>2. ASSUME NEW x \in Slot PROVE A[x] = a5[h][x]
      <4>1. A[x] = IF x = x4 THEN m4 ELSE IF x = x3 THEN m3 ELSE IF x = x2 THEN m2
                   ELSE IF x = x1 THEN m1 ELSE None
        BY <2>1, NoSpaceHas, Zenon
      <4> QED
        BY <1>8, <1>16, <1>18, <1>20, <1>22, <4>1
    <3> QED
      BY <3>1, <3>2
  <2>4. a5 \in [Space -> [Slot -> Memory \cup {None}]]
    BY <1>22, Zenon DEF Typed
  <2> QED
    BY <1>22, <2>2, <2>3, <2>4, Zenon
<1>26. Has(as[Cur(initproc)], 1)
  <2> SUFFICES ASSUME NEW v \in VPage PROVE a5[h][Map(v)] # None <=> v < 1
    BY <1>6, <1>25, Zenon DEF Has
  <2>1. v \in Nat /\ Map(v) \in Slot /\ Map(v) # x1 /\ Map(v) # x2 /\ Map(v) # x3
    BY <1>7, UserPages, SlotsDiffer
  <2>2. Map(v) = x4 <=> v = 0
    BY <1>7, SlotsDiffer, Zenon
  <2>3. m4 # None
    BY MemoryPages, Zenon
  <2>4. v = 0 <=> v < 1
    BY <2>1
  <2> QED
    BY <1>16, <1>18, <1>20, <1>22, <2>1, <2>2, <2>3, <2>4, Zenon
<1>27. kstack[initproc] # None
  BY <1>24, MemoryPages, Zenon
<1> QED
  BY <1>22, <1>23, <1>24, <1>25, <1>26, <1>27, Zenon

(* The first process has the page of its initial code. *)
LEMMA InitIInv ==
  ASSUME Init
  PROVE  IInv
<1>1. /\ Typed(free, kstack, as) /\ Owned(free, kstack, as)
      /\ Has(as[Cur(initproc)], 1) /\ kstack[initproc] # None
  BY InitOwned, Zenon
<1>2. /\ state = [q \in Proc |-> IF q = initproc THEN "LIVE" ELSE "UNUSED"]
      /\ kstack = [q \in Proc |-> IF q = initproc THEN First(0) ELSE None]
      /\ sz = [q \in Proc |-> IF q = initproc THEN PGSIZE ELSE 0]
      /\ pc = [q \in Proc |-> "user"] /\ job = [q \in Proc |-> NoJob] /\ txn = [q \in Proc |-> 0]
  BY Zenon DEF Init
<1>3. PGSIZE < KERNBASE /\ Up(PGSIZE) = 1
  <2>1. PGSIZE = 1 * PGSIZE
    BY Constants
  <2>2. Up(PGSIZE) = 1
    BY <2>1, UpWhole, Zenon
  <2>3. PGSIZE < KERNBASE
    BY VmAssumption, Zenon
  <2> QED
    BY <2>2, <2>3, Zenon
<1>4. TypeInv
  BY <1>1, <1>2, <1>3, Jobs, Constants DEF TypeInv
<1>5. ASSUME NEW p \in Proc PROVE LocalInv(p)
  <2>1. state[p] \in {"LIVE", "UNUSED"} /\ pc[p] = "user" /\ job[p] = NoJob /\ txn[p] = 0
    BY <1>2, Zenon
  <2>2. as[New(p)] = NoSpace
    <3>1. New(p) \in Space /\ New(p) # Cur(initproc)
      BY Spaces, VmAssumption, Zenon
    <3> QED
      BY <3>1, Zenon DEF Init
  <2>3. CASE p = initproc
    <3>1. state[p] = "LIVE" /\ Up(sz[p]) = 1
      BY <1>2, <1>3, <2>3
    <3>2. Resting(as[Cur(p)], as[New(p)], sz[p], job[p], txn[p])
      BY <1>1, <2>1, <2>2, <2>3, <3>1, Zenon DEF Resting
    <3>3. kstack[p] # None
      BY <1>1, <2>3, Zenon
    <3> QED
      BY <2>1, <3>1, <3>2, <3>3, Zenon DEF LocalInv, Local
  <2>4. CASE p # initproc
    <3>1. state[p] = "UNUSED" /\ kstack[p] = None
      BY <1>2, <2>4, Zenon
    <3>2. as[Cur(p)] = NoSpace
      BY <2>4, Spaces, VmAssumption, Zenon DEF Init
    <3>3. Resting(as[Cur(p)], as[New(p)], sz[p], job[p], txn[p])
      BY <2>1, <2>2, <3>2, NoSpaceHas, Zenon DEF Resting
    <3> QED
      BY <2>1, <3>1, <3>2, <3>3, Zenon DEF LocalInv, Local
  <2> QED
    BY <2>3, <2>4, Zenon
<1>6. ChildInv
  BY <1>2, Zenon DEF ChildInv
<1> QED
  BY <1>1, <1>4, <1>5, <1>6, Zenon DEF IInv

(* Every step keeps the invariant. *)
LEMMA NextIInv ==
  ASSUME IInv, [Next]_vars
  PROVE  IInv'
<1>1. CASE UNCHANGED vars
  BY <1>1, Stutter, Zenon
<1>2. CASE Next
  <2>1. PICK p \in Proc :
          \/ \E n \in Sbrk : SbrkMore(p, n) \/ SbrkLess(p, n)
          \/ AllocPage(p) \/ AllocDone(p)
          \/ \E segs \in Program : Exec(p, segs)
          \/ ExecSegment(p) \/ ExecLoad(p) \/ ExecStack(p) \/ ExecCommit(p) \/ ExecBad(p)
          \/ \E q \in Proc : Fork(p, q) \/ Wait(p, q)
          \/ CopySetup(p) \/ CopyPage(p) \/ ForkDone(p) \/ Exit(p)
    BY <1>2, Zenon DEF Next
  <2>2. CASE \E n \in Sbrk : SbrkMore(p, n) \/ SbrkLess(p, n)
    BY <2>2, SbrkMoreKeeps, SbrkLessKeeps, Zenon
  <2>3. CASE AllocPage(p) \/ AllocDone(p)
    BY <2>3, AllocPageKeeps, AllocDoneKeeps, Zenon
  <2>4. CASE \E segs \in Program : Exec(p, segs)
    BY <2>4, ExecKeeps, Zenon
  <2>5. CASE ExecSegment(p) \/ ExecLoad(p) \/ ExecStack(p) \/ ExecCommit(p) \/ ExecBad(p)
    BY <2>5, ExecSegmentKeeps, ExecLoadKeeps, ExecStackKeeps, ExecCommitKeeps, ExecBadKeeps, Zenon
  <2>6. CASE \E q \in Proc : Fork(p, q) \/ Wait(p, q)
    BY <2>6, ForkKeeps, WaitKeeps, Zenon
  <2>7. CASE CopySetup(p) \/ CopyPage(p) \/ ForkDone(p) \/ Exit(p)
    BY <2>7, CopySetupKeeps, CopyPageKeeps, ForkDoneKeeps, ExitKeeps, Zenon
  <2> QED
    BY <2>1, <2>2, <2>3, <2>4, <2>5, <2>6, <2>7, Zenon
<1> QED
  BY <1>1, <1>2, Zenon

(***************************************************************************)
(* The inductive invariant of memory holds for any number of processes and *)
(* any memory: each page has one owner, and in every system call of every  *)
(* process its address spaces have the pages of the sizes the code works   *)
(* with.                                                                   *)
(***************************************************************************)
THEOREM Invariance == Spec => []IInv
<1>1. Init => IInv
  BY InitIInv, Zenon
<1>2. IInv /\ [Next]_vars => IInv'
  BY NextIInv, Zenon
<1> QED
  BY <1>1, <1>2, PTL DEF Spec

--------------------------------------------------------------------------------
(***************************************************************************)
(* No page is lost and none is freed twice, wherever fork(), exec() and    *)
(* sbrk() run out of memory (vm.c:237, 243, 336, 343, exec.c:106,          *)
(* proc.c:194).                                                            *)
(***************************************************************************)
THEOREM PagesOwnedOnceHolds == Spec => []PagesOwnedOnce
<1>1. IInv => PagesOwnedOnce
  BY Zenon DEF IInv, Owned, PagesOwnedOnce
<1> QED
  BY <1>1, Invariance, PTL

(* What fetchint() and argptr() accept is below the size. *)
LEMMA ArgsBelow ==
  ASSUME NEW size \in Nat, size < KERNBASE,
         NEW addr \in 0 .. UINT - 1, NEW n \in 0 .. UINT \div 2 - 1,
         NEW x \in Fetchint(addr, size) \cup Argptr(addr, n, size)
  PROVE  x \in Nat /\ x < size
<1>1. UINT \in Nat /\ KERNBASE \in Nat /\ 2 * KERNBASE <= UINT /\ 0 < KERNBASE
  BY Constants, Zenon
<1>2. addr \in Nat /\ n \in Nat /\ addr < UINT /\ 2 * n < UINT
  <2>1. UINT \div 2 \in Nat /\ 2 * (UINT \div 2) <= UINT
    BY <1>1
  <2> QED
    BY <1>1, <2>1
<1>3. CASE x \in Fetchint(addr, size)
  <2>1. x = addr /\ ~ (addr >= size)
    BY <1>3, Zenon DEF Fetchint
  <2> QED
    BY <1>2, <2>1
<1>4. CASE x \in Argptr(addr, n, size)
  <2>1. /\ ~ (addr >= size) /\ ~ ((addr + n) % UINT > size)
        /\ x \in addr .. addr + n - 1
    BY <1>4, Zenon DEF Argptr
  <2>2. addr + n \in Nat /\ addr + n < UINT
    BY <1>1, <1>2, <2>1
  <2>3. (addr + n) % UINT = addr + n
    BY <1>1, <2>2
  <2> QED
    BY <1>2, <2>1, <2>2, <2>3
<1> QED
  BY <1>3, <1>4, Zenon

(***************************************************************************)
(* Every address that fetchint() and argptr() (syscall.c:20, 59) accept is *)
(* mapped in user mode, after any fork, exec and sbrk, except where        *)
(* growproc(-p->sz) has taken all pages (proc.c:169).                      *)
(***************************************************************************)
THEOREM ArgsMappedHolds == Spec => []ArgsMapped
<1>1. IInv => ArgsMapped
  <2> SUFFICES ASSUME IInv, NEW p \in Proc, state[p] = "LIVE", pc[p] = "user",
                      Present(Cur(p)) # {}
               PROVE  /\ Present(Cur(p)) = {v \in VPage : v * PGSIZE < sz[p]}
                      /\ \A addr \in 0 .. UINT - 1, n \in 0 .. UINT \div 2 - 1 :
                           \A x \in Fetchint(addr, sz[p]) \cup Argptr(addr, n, sz[p]) :
                             x \div PGSIZE \in Present(Cur(p))
    BY Zenon DEF ArgsMapped
  <2>1. InUser(p)
    BY Zenon DEF InUser
  <2>2. Has(as[Cur(p)], Up(sz[p])) /\ sz[p] \in Nat /\ sz[p] < KERNBASE
    BY <2>1, UserFacts, Facts, Zenon
  <2>3. ASSUME NEW v \in VPage PROVE v \in Present(Cur(p)) <=> v * PGSIZE < sz[p]
    <3>1. v \in Nat
      BY UserPages
    <3>2. v * PGSIZE < sz[p] <=> v < Up(sz[p])
      BY <2>2, <3>1, UpIs, Zenon
    <3> QED
      BY <2>2, <3>2, Zenon DEF Has, Present
  <2>4. Present(Cur(p)) = {v \in VPage : v * PGSIZE < sz[p]}
    <3>1. Present(Cur(p)) \subseteq VPage
      BY Zenon DEF Present
    <3> QED
      BY <2>3, <3>1, Zenon
  <2>5. ASSUME NEW x \in Nat, x < sz[p] PROVE x \div PGSIZE \in Present(Cur(p))
    <3>1. PICK d \in Nat : d = PGSIZE /\ 0 < d
      BY Constants, Zenon
    <3>2. PICK v \in Nat : v = x \div d /\ d * v <= x /\ x < d * v + d
      BY <3>1, Quotient, Zenon
    <3>3. v * d < sz[p]
      BY <2>2, <2>5, <3>1, <3>2
    <3>4. v < Up(sz[p]) /\ Up(sz[p]) \in Nat
      BY <2>2, <3>1, <3>3, UpIs, Zenon
    <3>5. v \in VPage
      <4>1. Up(sz[p]) <= Up(KERNBASE) /\ Up(KERNBASE) \in Nat
        BY <2>2, Constants, UpMonotone, UpIs
      <4> QED
        BY <3>4, <4>1, UserPages
    <3> QED
      BY <2>3, <3>1, <3>2, <3>3, <3>5, Zenon
  <2>6. ASSUME NEW addr \in 0 .. UINT - 1, NEW n \in 0 .. UINT \div 2 - 1,
               NEW x \in Fetchint(addr, sz[p]) \cup Argptr(addr, n, sz[p])
        PROVE  x \div PGSIZE \in Present(Cur(p))
    <3>1. x \in Nat /\ x < sz[p]
      BY <2>2, <2>6, ArgsBelow, Zenon
    <3> QED
      BY <2>5, <3>1, Zenon
  <2> QED
    BY <2>4, <2>6, Zenon
<1> QED
  BY <1>1, Invariance, PTL

(***************************************************************************)
(* The panics of mappages(), loaduvm() and copyuvm() about pages that are  *)
(* or are not mapped (vm.c:72, 207, 327-329) are not reached, and exec()   *)
(* gives back the inode and the transaction exactly once on every path     *)
(* (exec.c:59, 106-112).                                                   *)
(***************************************************************************)
THEOREM ExecBalancedHolds == Spec => []ExecBalanced
<1>1. IInv => ExecBalanced
  <2> SUFFICES ASSUME IInv, NEW p \in Proc
               PROVE  /\ pc[p] # "panic" /\ txn[p] \in {0, 1}
                      /\ pc[p] = "user" => txn[p] = 0 /\ as[New(p)] = NoSpace
    BY Zenon DEF ExecBalanced
  <2>1. pc[p] # "panic"
    BY Zenon DEF IInv, TypeInv
  <2>2. txn[p] \in {0, 1} /\ LocalInv(p)
    BY Facts, Zenon
  <2>3. pc[p] = "user" => txn[p] = 0 /\ as[New(p)] = NoSpace
    BY <2>2, Zenon DEF LocalInv, Local, Resting
  <2> QED
    BY <2>1, <2>2, <2>3, Zenon
<1> QED
  BY <1>1, Invariance, PTL
================================================================================
