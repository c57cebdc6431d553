----------------------------- MODULE ConsoleProofs ------------------------------
(***************************************************************************)
(* Proofs about Console: for any readers, any size of the ring, of its     *)
(* indices and of the screen that satisfy ConsoleAssumption, the           *)
(* invariants of Console hold and it implements AbsConsole.                *)
(***************************************************************************)
EXTENDS Console, Integers, TLAPS

--------------------------------------------------------------------------------
(* Remainders by any modulus. *)

(* What remainders are. *)
LEMMA ModRange ==
  ASSUME NEW m \in Nat, 0 < m, NEW a \in Nat
  PROVE  a % m \in Nat /\ a % m < m
  OBVIOUS

(* A remainder is the part below the modulus. *)
LEMMA ModIs ==
  ASSUME NEW m \in Nat, 0 < m, NEW q \in Nat, NEW x \in Nat, x < m
  PROVE  (m * q + x) % m = x
  OBVIOUS

(* Below the modulus, or once around. *)
LEMMA ModSmall ==
  ASSUME NEW m \in Nat, NEW a \in Nat, a < m
  PROVE  a % m = a /\ (a + m) % m = a
  OBVIOUS

(* A number is a multiple of the modulus and its remainder. *)
LEMMA ModQuotient ==
  ASSUME NEW m \in Nat, 0 < m, NEW a \in Nat
  PROVE  \E q \in Nat : a = m * q + (a % m)
<1>1. a \div m \in Nat
  OBVIOUS
<1>2. a = m * (a \div m) + (a % m)
  OBVIOUS
<1> QED
  BY <1>1, <1>2, Zenon

(* A multiple of the modulus makes no difference. *)
LEMMA ModPlus ==
  ASSUME NEW m \in Nat, 0 < m, NEW u \in Nat, u % m = 0, NEW a \in Nat
  PROVE  (a + u) % m = a % m
<1>1. PICK q \in Nat : a = m * q + (a % m)
  BY ModQuotient, Zenon
<1>2. PICK k \in Nat : u = m * k + (u % m)
  BY ModQuotient, Zenon
<1>3. PICK x \in Nat : x = a % m /\ x < m
  BY ModRange, Zenon
<1>4. a + u = m * (q + k) + x
  <2>1. a = m * q + x /\ u = m * k
    BY <1>1, <1>2, <1>3
  <2>2. m * (q + k) = m * q + m * k
    OBVIOUS
  <2> QED
    BY <2>1, <2>2
<1>5. PICK y \in Nat : y = q + k
  OBVIOUS
<1>6. (m * y + x) % m = x
  BY <1>3, ModIs, Zenon
<1> QED
  BY <1>3, <1>4, <1>5, <1>6, Zenon

(* Numbers less than the modulus apart have different remainders. *)
LEMMA ModDiffer ==
  ASSUME NEW m \in Nat, 0 < m, NEW a \in Nat, NEW b \in Nat, a < b, b < a + m
  PROVE  a % m # b % m
<1> SUFFICES ASSUME a % m = b % m PROVE FALSE
  BY Zenon
<1>1. PICK x \in Nat : x = a % m
  BY ModRange, Zenon
<1>2. PICK q \in Nat : a = m * q + x
  BY <1>1, ModQuotient, ZenonT(60)
<1>3. PICK k \in Nat : b = m * k + x
  BY <1>1, ModQuotient, ZenonT(60)
<1>4. m * k - m * q < m /\ 0 < m * k - m * q
  BY <1>2, <1>3
<1>5. m * (k - q) = m * k - m * q
  OBVIOUS
<1>6. k - q <= 0 \/ k - q >= 1
  OBVIOUS
<1>7. k - q <= 0 => m * (k - q) <= 0
  OBVIOUS
<1>8. k - q >= 1 => m * (k - q) >= m
  OBVIOUS
<1> QED
  BY <1>4, <1>5, <1>6, <1>7, <1>8

--------------------------------------------------------------------------------

Index == 0 .. UINT - 1
Char == {"x", "\n", "^D"}
Text == Char \cup {""}

--------------------------------------------------------------------------------
(* ConsoleAssumption, constant by constant. *)
LEMMA Constants ==
  /\ INPUT_BUF \in Nat /\ 0 < INPUT_BUF /\ UINT \in Nat /\ 0 < UINT /\ INPUT_BUF < UINT /\ UINT % INPUT_BUF = 0
  /\ COLS \in Nat /\ 0 < COLS /\ ROWS \in Nat /\ 1 < ROWS
  /\ \A k \in Sizes : k \in Nat
  BY ConsoleAssumption

(* The difference of two indices. *)
LEMMA MinusIs ==
  ASSUME NEW a \in Index, NEW b \in Index
  PROVE  /\ Minus(a, b) = IF b <= a THEN a - b ELSE a + UINT - b
         /\ Minus(a, b) \in Index
         /\ Minus(a, b) = 0 <=> a = b
  BY Constants DEF Index, Minus

(* Distances add up while they are less than once around. *)
LEMMA MinusSum ==
  ASSUME NEW a \in Index, NEW b \in Index, NEW c \in Index, Minus(b, a) + Minus(c, b) < UINT
  PROVE  Minus(c, a) = Minus(b, a) + Minus(c, b)
<1>1. /\ Minus(b, a) = IF a <= b THEN b - a ELSE b + UINT - a
      /\ Minus(c, b) = IF b <= c THEN c - b ELSE c + UINT - b
      /\ Minus(c, a) = IF a <= c THEN c - a ELSE c + UINT - a
  BY MinusIs, Zenon
<1> QED
  BY <1>1, Constants DEF Index

(* An index that advances by k towards another one. *)
LEMMA Advance ==
  ASSUME NEW a \in Index, NEW b \in Index, NEW k \in 0 .. Minus(b, a)
  PROVE  /\ (a + k) % UINT \in Index
         /\ (a + k) % UINT = a + k \/ (a + k) % UINT = a + k - UINT
         /\ Minus(b, (a + k) % UINT) = Minus(b, a) - k
<1>1. Minus(b, a) = (IF a <= b THEN b - a ELSE b + UINT - a) /\ Minus(b, a) \in Index
  BY MinusIs, Zenon
<1>2. (a + k) % UINT \in Index /\ k \in Nat /\ a \in Nat /\ b \in Nat
  BY <1>1, Constants, ModRange DEF Index
<1>3. CASE a + k < UINT
  <2>1. (a + k) % UINT = a + k
    BY <1>2, <1>3, Constants, ModSmall DEF Index
  <2>2. Minus(b, a + k) = IF a + k <= b THEN b - (a + k) ELSE b + UINT - (a + k)
    BY <1>2, <2>1, MinusIs
  <2> QED
    BY <1>1, <1>2, <1>3, <2>1, <2>2, Constants DEF Index
<1>4. CASE a + k >= UINT
  <2>1. PICK y \in Index : y = a + k - UINT
    BY <1>1, <1>2, <1>4, Constants DEF Index
  <2>2. (a + k) % UINT = y
    BY <2>1, <1>2, Constants, ModSmall DEF Index
  <2>3. Minus(b, y) = IF y <= b THEN b - y ELSE b + UINT - y
    BY <2>1, MinusIs, Zenon
  <2> QED
    BY <1>1, <1>2, <1>4, <2>1, <2>2, <2>3, Constants DEF Index
<1> QED
  BY <1>2, <1>3, <1>4, Constants DEF Index


--------------------------------------------------------------------------------
(* Sequences with the same elements are the same. *)
LEMMA SameSeq ==
  ASSUME NEW s \in Seq(Text), NEW t \in Seq(Text), Len(s) = Len(t),
         \A i \in 1 .. Len(s) : s[i] = t[i]
  PROVE  s = t
  OBVIOUS

(* What Append returns. *)
LEMMA AppendFacts ==
  ASSUME NEW s \in Seq(Text), NEW c \in Text
  PROVE  /\ Append(s, c) \in Seq(Text) /\ Len(Append(s, c)) = Len(s) + 1
         /\ Append(s, c)[Len(s) + 1] = c /\ \A i \in 1 .. Len(s) : Append(s, c)[i] = s[i]
  OBVIOUS

(* What \o returns. *)
LEMMA CatFacts ==
  ASSUME NEW s \in Seq(Text), NEW t \in Seq(Text)
  PROVE  /\ s \o t \in Seq(Text) /\ Len(s \o t) = Len(s) + Len(t)
         /\ \A i \in 1 .. Len(s) : (s \o t)[i] = s[i]
         /\ \A i \in 1 .. Len(t) : (s \o t)[Len(s) + i] = t[i]
         /\ \A c \in Text : Append(s \o t, c) = s \o Append(t, c)
  OBVIOUS

(* What SubSeq returns, at either end. *)
LEMMA SubSeqFacts ==
  ASSUME NEW s \in Seq(Text), NEW k \in 0 .. Len(s)
  PROVE  /\ SubSeq(s, k + 1, Len(s)) = [i \in 1 .. Len(s) - k |-> s[i + k]]
         /\ SubSeq(s, 1, k) = [i \in 1 .. k |-> s[i]]
  OBVIOUS

(* The part of a ring with contents f between two indices. *)
Cells == [0 .. INPUT_BUF - 1 -> Text]
Part(f, a, b) == [i \in 1 .. Minus(b, a) |-> f[(a + i - 1) % INPUT_BUF]]

(* A part is a sequence, as long as the distance of its ends. *)
LEMMA PartSeq ==
  ASSUME NEW f \in Cells, NEW a \in Index, NEW b \in Index
  PROVE  /\ Part(f, a, b) \in Seq(Text) /\ Len(Part(f, a, b)) = Minus(b, a) /\ Minus(b, a) \in Nat
         /\ \A i \in 1 .. Minus(b, a) : Part(f, a, b)[i] = f[(a + i - 1) % INPUT_BUF]
<1>1. Minus(b, a) \in Nat /\ a \in Nat
  BY MinusIs DEF Index
<1>2. ASSUME NEW i \in 1 .. Minus(b, a) PROVE f[(a + i - 1) % INPUT_BUF] \in Text
  <2>1. a + i - 1 \in Nat
    BY <1>1
  <2> QED
    BY <2>1, Constants, ModRange DEF Cells
<1> QED
  BY <1>1, <1>2 DEF Part

(* The cell at a distance of a that lies beyond b. *)
LEMMA Beyond ==
  ASSUME NEW a \in Index, NEW b \in Index, NEW t \in Nat
  PROVE  (a + Minus(b, a) + t) % INPUT_BUF = (b + t) % INPUT_BUF
<1>0. a \in Nat /\ b \in Nat /\ b + t \in Nat /\ UINT \in Nat /\ INPUT_BUF \in Nat /\ 0 < INPUT_BUF
  BY Constants DEF Index
<1>a. Minus(b, a) = IF a <= b THEN b - a ELSE b + UINT - a
  BY MinusIs, Zenon
<1>1. a + Minus(b, a) = b \/ a + Minus(b, a) = b + UINT
  BY <1>0, <1>a
<1>2. ((b + t) + UINT) % INPUT_BUF = (b + t) % INPUT_BUF
  BY <1>0, ModPlus, Constants, ZenonT(60)
<1>3. (b + t) + UINT = b + UINT + t
  BY Constants DEF Index
<1> QED
  BY <1>1, <1>2, <1>3, Zenon

(* A cell less than INPUT_BUF before another one is another cell. *)
LEMMA OtherCell ==
  ASSUME NEW a \in Index, NEW b \in Index, NEW i \in 1 .. Minus(b, a), Minus(b, a) < INPUT_BUF
  PROVE  (a + i - 1) % INPUT_BUF # b % INPUT_BUF
<1>1. Minus(b, a) \in Nat /\ a \in Nat /\ INPUT_BUF \in Nat /\ 0 < INPUT_BUF
  BY MinusIs, Constants DEF Index
<1>2. (a + Minus(b, a) + 0) % INPUT_BUF = (b + 0) % INPUT_BUF
  BY Beyond, Zenon
<1>3. /\ a + i - 1 \in Nat /\ a + Minus(b, a) \in Nat
      /\ a + i - 1 < a + Minus(b, a) /\ a + Minus(b, a) < (a + i - 1) + INPUT_BUF
  BY <1>1
<1>4. (a + i - 1) % INPUT_BUF # (a + Minus(b, a)) % INPUT_BUF
  BY <1>1, <1>3, ModDiffer, Zenon
<1>5. a + Minus(b, a) + 0 = a + Minus(b, a) /\ b + 0 = b
  BY <1>1, <1>3 DEF Index
<1> QED
  BY <1>2, <1>3, <1>4, <1>5, Zenon

(* An empty part. *)
LEMMA PartEmpty ==
  ASSUME NEW f \in Cells, NEW a \in Index
  PROVE  Part(f, a, a) = <<>>
<1>1. Minus(a, a) = 0
  BY MinusIs, Zenon
<1> QED
  BY <1>1, PartSeq

(* A character stored at the end. *)
StoredAtEnd(f, g, a, b, c) ==
  /\ g \in Cells /\ Inc(b) \in Index /\ Minus(Inc(b), a) = Minus(b, a) + 1
  /\ Part(g, a, b) = Part(f, a, b)
  /\ Part(g, a, Inc(b)) = Append(Part(f, a, b), c)

(* Storing at b extends the part that ends there. *)
LEMMA PartPush ==
  ASSUME NEW f \in Cells, NEW a \in Index, NEW b \in Index, NEW c \in Text,
         Minus(b, a) < INPUT_BUF, NEW g, g = [f EXCEPT ![b % INPUT_BUF] = c]
  PROVE  StoredAtEnd(f, g, a, b, c)
<1>1. /\ a \in Nat /\ b \in Nat /\ INPUT_BUF \in Nat /\ 0 < INPUT_BUF /\ UINT \in Nat
      /\ Minus(b, a) \in Nat
  BY MinusIs, Constants DEF Index
<1>2. b % INPUT_BUF \in 0 .. INPUT_BUF - 1
  BY <1>1, ModRange
<1>3. g \in Cells
  BY <1>2, Zenon DEF Cells
<1>4. Inc(b) \in Index /\ Inc(b) = IF b + 1 = UINT THEN 0 ELSE b + 1
  BY Constants DEF Index, Inc
<1>5. Minus(Inc(b), a) = Minus(b, a) + 1
  <2>1. Minus(b, a) = IF a <= b THEN b - a ELSE b + UINT - a
    BY MinusIs, Zenon
  <2>2. Minus(Inc(b), a) = IF a <= Inc(b) THEN Inc(b) - a ELSE Inc(b) + UINT - a
    BY <1>4, MinusIs, Zenon
  <2> QED
    BY <1>1, <1>4, <2>1, <2>2, Constants DEF Index
<1>6. ASSUME NEW i \in 1 .. Minus(b, a)
      PROVE  /\ g[(a + i - 1) % INPUT_BUF] = f[(a + i - 1) % INPUT_BUF]
             /\ (a + i - 1) % INPUT_BUF \in 0 .. INPUT_BUF - 1
  <2>1. (a + i - 1) % INPUT_BUF # b % INPUT_BUF
    BY OtherCell, Zenon
  <2>2. a + i - 1 \in Nat
    BY <1>1
  <2>3. (a + i - 1) % INPUT_BUF \in 0 .. INPUT_BUF - 1
    BY <1>1, <2>2, ModRange
  <2> QED
    BY <2>1, <2>3, Zenon DEF Cells
<1>7. g[b % INPUT_BUF] = c
  BY <1>2, Zenon DEF Cells
<1>8. /\ Part(g, a, b) \in Seq(Text) /\ Len(Part(g, a, b)) = Minus(b, a)
      /\ \A i \in 1 .. Minus(b, a) : Part(g, a, b)[i] = g[(a + i - 1) % INPUT_BUF]
  BY <1>3, PartSeq, Zenon
<1>9. /\ Part(f, a, b) \in Seq(Text) /\ Len(Part(f, a, b)) = Minus(b, a)
      /\ \A i \in 1 .. Minus(b, a) : Part(f, a, b)[i] = f[(a + i - 1) % INPUT_BUF]
  BY PartSeq, Zenon
<1>10. /\ Part(g, a, Inc(b)) \in Seq(Text) /\ Len(Part(g, a, Inc(b))) = Minus(b, a) + 1
       /\ \A i \in 1 .. Minus(b, a) + 1 : Part(g, a, Inc(b))[i] = g[(a + i - 1) % INPUT_BUF]
  <2>1. /\ Part(g, a, Inc(b)) \in Seq(Text) /\ Len(Part(g, a, Inc(b))) = Minus(Inc(b), a)
        /\ \A i \in 1 .. Minus(Inc(b), a) : Part(g, a, Inc(b))[i] = g[(a + i - 1) % INPUT_BUF]
    BY <1>3, <1>4, PartSeq, Zenon
  <2> QED
    BY <1>5, <2>1, Zenon
<1>11. Part(g, a, b) = Part(f, a, b)
  <2>1. \A i \in 1 .. Minus(b, a) : Part(g, a, b)[i] = Part(f, a, b)[i]
    BY <1>6, <1>8, <1>9, Zenon
  <2> QED
    BY <1>8, <1>9, <2>1, SameSeq, Zenon
<1>12. Part(g, a, Inc(b)) = Append(Part(f, a, b), c)
  <2>1. PICK s \in Seq(Text) : s = Part(f, a, b)
    BY <1>9, Zenon
  <2>2. /\ Append(s, c) \in Seq(Text) /\ Len(Append(s, c)) = Minus(b, a) + 1
        /\ Append(s, c)[Minus(b, a) + 1] = c
        /\ \A i \in 1 .. Minus(b, a) : Append(s, c)[i] = s[i]
    BY <2>1, <1>9, AppendFacts
  <2>3. (a + (Minus(b, a) + 1) - 1) % INPUT_BUF = b % INPUT_BUF
    <3>1. (a + Minus(b, a) + 0) % INPUT_BUF = (b + 0) % INPUT_BUF
      BY Beyond, Zenon
    <3>2. a + Minus(b, a) + 0 = a + (Minus(b, a) + 1) - 1 /\ b + 0 = b
      BY <1>1
    <3> QED
      BY <3>1, <3>2, Zenon
  <2>4. ASSUME NEW i \in 1 .. Minus(b, a) + 1
        PROVE  Part(g, a, Inc(b))[i] = Append(s, c)[i]
    <3>1. CASE i = Minus(b, a) + 1
      BY <3>1, <1>7, <1>10, <2>2, <2>3, Zenon
    <3>2. CASE i # Minus(b, a) + 1
      <4>1. i \in 1 .. Minus(b, a)
        BY <3>2, <1>1
      <4> QED
        BY <4>1, <1>6, <1>9, <1>10, <2>1, <2>2, Zenon
    <3> QED
      BY <3>1, <3>2, ZenonT(60)
  <2> QED
    BY <1>10, <2>1, <2>2, <2>4, SameSeq, Zenon
<1> QED
  BY <1>3, <1>4, <1>5, <1>11, <1>12, Zenon DEF StoredAtEnd

(* A character stored beyond the part leaves it alone. *)
SamePart(f, g, a, b) == Part(g, a, b) = Part(f, a, b)

(* Storing at d, beyond b, does not touch the part before b. *)
LEMMA PartKeep ==
  ASSUME NEW f \in Cells, NEW a \in Index, NEW b \in Index, NEW d \in Index, NEW c \in Text,
         Minus(b, a) + Minus(d, b) < INPUT_BUF, NEW g, g = [f EXCEPT ![d % INPUT_BUF] = c]
  PROVE  SamePart(f, g, a, b)
<1>1. /\ a \in Nat /\ d \in Nat /\ INPUT_BUF \in Nat /\ 0 < INPUT_BUF /\ INPUT_BUF < UINT
      /\ UINT \in Nat /\ Minus(b, a) \in Nat /\ Minus(d, b) \in Nat
  BY MinusIs, Constants DEF Index
<1>2. Minus(d, a) = Minus(b, a) + Minus(d, b)
  BY <1>1, MinusSum
<1>3. d % INPUT_BUF \in 0 .. INPUT_BUF - 1
  BY <1>1, ModRange
<1>4. g \in Cells
  BY <1>3, Zenon DEF Cells
<1>5. ASSUME NEW i \in 1 .. Minus(b, a)
      PROVE  g[(a + i - 1) % INPUT_BUF] = f[(a + i - 1) % INPUT_BUF]
  <2>1. i \in 1 .. Minus(d, a) /\ Minus(d, a) < INPUT_BUF /\ a + i - 1 \in Nat
    BY <1>1, <1>2
  <2>2. (a + i - 1) % INPUT_BUF # d % INPUT_BUF
    BY <2>1, OtherCell, Zenon
  <2>3. (a + i - 1) % INPUT_BUF \in 0 .. INPUT_BUF - 1
    BY <1>1, <2>1, ModRange
  <2> QED
    BY <2>2, <2>3, Zenon DEF Cells
<1>6. /\ Part(g, a, b) \in Seq(Text) /\ Len(Part(g, a, b)) = Minus(b, a)
      /\ \A i \in 1 .. Minus(b, a) : Part(g, a, b)[i] = g[(a + i - 1) % INPUT_BUF]
  BY <1>4, PartSeq, Zenon
<1>7. /\ Part(f, a, b) \in Seq(Text) /\ Len(Part(f, a, b)) = Minus(b, a)
      /\ \A i \in 1 .. Minus(b, a) : Part(f, a, b)[i] = f[(a + i - 1) % INPUT_BUF]
  BY PartSeq, Zenon
<1>8. \A i \in 1 .. Minus(b, a) : Part(g, a, b)[i] = Part(f, a, b)[i]
  BY <1>5, <1>6, <1>7, Zenon
<1> QED
  BY <1>6, <1>7, <1>8, SameSeq, Zenon DEF SamePart

(* Two parts that follow each other. *)
LEMMA PartCat ==
  ASSUME NEW f \in Cells, NEW a \in Index, NEW b \in Index, NEW d \in Index,
         Minus(b, a) + Minus(d, b) < UINT
  PROVE  Part(f, a, d) = Part(f, a, b) \o Part(f, b, d)
<1>1. /\ a \in Nat /\ b \in Nat /\ Minus(b, a) \in Nat /\ Minus(d, b) \in Nat
      /\ Minus(d, a) = Minus(b, a) + Minus(d, b)
  BY MinusIs, MinusSum DEF Index
<1>2. PICK s \in Seq(Text) : /\ s = Part(f, a, b) /\ Len(s) = Minus(b, a)
                             /\ \A i \in 1 .. Minus(b, a) : s[i] = f[(a + i - 1) % INPUT_BUF]
  BY PartSeq, Zenon
<1>3. PICK t \in Seq(Text) : /\ t = Part(f, b, d) /\ Len(t) = Minus(d, b)
                             /\ \A i \in 1 .. Minus(d, b) : t[i] = f[(b + i - 1) % INPUT_BUF]
  BY PartSeq, Zenon
<1>4. PICK u \in Seq(Text) : /\ u = Part(f, a, d) /\ Len(u) = Minus(d, a)
                             /\ \A i \in 1 .. Minus(d, a) : u[i] = f[(a + i - 1) % INPUT_BUF]
  BY PartSeq, Zenon
<1>5. /\ s \o t \in Seq(Text) /\ Len(s \o t) = Minus(d, a)
      /\ \A i \in 1 .. Minus(b, a) : (s \o t)[i] = s[i]
      /\ \A i \in 1 .. Minus(d, b) : (s \o t)[Minus(b, a) + i] = t[i]
  <2>1. /\ s \o t \in Seq(Text) /\ Len(s \o t) = Len(s) + Len(t)
        /\ \A i \in 1 .. Len(s) : (s \o t)[i] = s[i]
        /\ \A i \in 1 .. Len(t) : (s \o t)[Len(s) + i] = t[i]
    BY CatFacts, Zenon
  <2> QED
    BY <1>1, <1>2, <1>3, <2>1, Zenon
<1>6. ASSUME NEW i \in 1 .. Minus(d, a) PROVE u[i] = (s \o t)[i]
  <2>1. CASE i <= Minus(b, a)
    <3>1. i \in 1 .. Minus(b, a)
      BY <2>1, <1>1
    <3> QED
      BY <3>1, <1>2, <1>4, <1>5, Zenon
  <2>2. CASE i > Minus(b, a)
    <3>1. PICK j \in 1 .. Minus(d, b) : i = Minus(b, a) + j
      <4>1. i - Minus(b, a) \in 1 .. Minus(d, b) /\ i = Minus(b, a) + (i - Minus(b, a))
        BY <2>2, <1>1
      <4> QED
        BY <4>1, Zenon
    <3>2. (a + Minus(b, a) + (j - 1)) % INPUT_BUF = (b + (j - 1)) % INPUT_BUF
      <4>1. j - 1 \in Nat
        BY <1>1
      <4> QED
        BY <4>1, Beyond, Zenon
    <3>3. a + Minus(b, a) + (j - 1) = a + i - 1 /\ b + (j - 1) = b + j - 1
      <4>1. j \in Nat
        BY <1>1
      <4>2. PICK z \in Nat : z = Minus(b, a)
        BY <1>1, Zenon
      <4>3. a \in Nat /\ b \in Nat
        BY <1>1, Zenon
      <4>4. a + z + (j - 1) = a + (z + j) - 1 /\ b + (j - 1) = b + j - 1
        BY <4>1, <4>3, SMTT(60)
      <4> QED
        BY <3>1, <4>2, <4>4, Zenon
    <3>4. u[i] = f[(b + j - 1) % INPUT_BUF]
      BY <1>4, <3>2, <3>3, Zenon
    <3>5. (s \o t)[i] = t[j]
      BY <1>5, <3>1, Zenon
    <3> QED
      BY <1>3, <3>4, <3>5, Zenon
  <2>3. i <= Minus(b, a) \/ i > Minus(b, a)
    BY <1>1
  <2> QED
    BY <2>1, <2>2, <2>3, ZenonT(60)
<1> QED
  BY <1>2, <1>3, <1>4, <1>5, <1>6, SameSeq, Zenon

(* The first k characters taken away. *)
LEMMA PartPop ==
  ASSUME NEW f \in Cells, NEW a \in Index, NEW b \in Index, NEW k \in 0 .. Minus(b, a)
  PROVE  Part(f, (a + k) % UINT, b) = SubSeq(Part(f, a, b), k + 1, Minus(b, a))
<1>1. PICK y \in Index : y = (a + k) % UINT
  BY Advance, Zenon
<1>2. Minus(b, y) = Minus(b, a) - k /\ (y = a + k \/ y = a + k - UINT)
  BY <1>1, Advance
<1>3. a \in Nat /\ y \in Nat /\ k \in Nat /\ Minus(b, a) \in Nat /\ UINT \in Nat
  BY MinusIs, Constants DEF Index
<1>4. PICK s \in Seq(Text) : /\ s = Part(f, a, b) /\ Len(s) = Minus(b, a)
                             /\ \A i \in 1 .. Minus(b, a) : s[i] = f[(a + i - 1) % INPUT_BUF]
  BY PartSeq, Zenon
<1>5. PICK t \in Seq(Text) : /\ t = Part(f, y, b) /\ Len(t) = Minus(b, a) - k
                             /\ \A i \in 1 .. Minus(b, a) - k : t[i] = f[(y + i - 1) % INPUT_BUF]
  BY <1>2, PartSeq
<1>6. SubSeq(s, k + 1, Len(s)) = [i \in 1 .. Len(s) - k |-> s[i + k]]
  <2>1. k \in 0 .. Len(s)
    BY <1>4, Zenon
  <2> QED
    BY <2>1, SubSeqFacts, Zenon
<1>7. ASSUME NEW i \in 1 .. Minus(b, a) - k PROVE t[i] = s[i + k]
  <2>1. i + k \in 1 .. Minus(b, a) /\ y + i - 1 \in Nat
    BY <1>3
  <2>2. s[i + k] = f[(a + (i + k) - 1) % INPUT_BUF]
    BY <1>4, <2>1, Zenon
  <2>3. a + (i + k) - 1 = y + i - 1 \/ a + (i + k) - 1 = (y + i - 1) + UINT
    BY <1>2, <1>3
  <2>4. ((y + i - 1) + UINT) % INPUT_BUF = (y + i - 1) % INPUT_BUF
    BY <2>1, ModPlus, Constants, Zenon
  <2> QED
    BY <1>5, <2>2, <2>3, <2>4, Zenon
<1>8. t = [i \in 1 .. Len(s) - k |-> s[i + k]]
  BY <1>3, <1>4, <1>5, <1>7
<1> QED
  BY <1>1, <1>4, <1>5, <1>6, <1>8, Zenon

(* The last k characters taken away. *)
LEMMA PartFront ==
  ASSUME NEW f \in Cells, NEW a \in Index, NEW b \in Index, NEW k \in 0 .. Minus(b, a)
  PROVE  /\ Minus(b, k) \in Index /\ Minus(Minus(b, k), a) = Minus(b, a) - k
         /\ Part(f, a, Minus(b, k)) = SubSeq(Part(f, a, b), 1, Minus(b, a) - k)
<1>1. /\ Minus(b, a) \in Index /\ Minus(b, a) = IF a <= b THEN b - a ELSE b + UINT - a
  BY MinusIs, Zenon
<1>2. a \in Nat /\ b \in Nat /\ k \in Index /\ UINT \in Nat /\ k \in Nat /\ Minus(b, a) \in Nat
  BY <1>1, Constants DEF Index
<1>3. PICK y \in Index : y = Minus(b, k) /\ y = IF k <= b THEN b - k ELSE b + UINT - k
  BY <1>2, MinusIs, Zenon
<1>4. Minus(y, a) = IF a <= y THEN y - a ELSE y + UINT - a
  BY MinusIs, Zenon
<1>5. Minus(y, a) = Minus(b, a) - k
  BY <1>1, <1>2, <1>3, <1>4 DEF Index
<1>6. PICK s \in Seq(Text) : /\ s = Part(f, a, b) /\ Len(s) = Minus(b, a)
                             /\ \A i \in 1 .. Minus(b, a) : s[i] = f[(a + i - 1) % INPUT_BUF]
  BY PartSeq, Zenon
<1>7. PICK t \in Seq(Text) : /\ t = Part(f, a, y) /\ Len(t) = Minus(b, a) - k
                             /\ \A i \in 1 .. Minus(b, a) - k : t[i] = f[(a + i - 1) % INPUT_BUF]
  BY <1>5, PartSeq
<1>8. Minus(b, a) - k \in 0 .. Len(s)
  BY <1>2, <1>6
<1>9. SubSeq(s, 1, Minus(b, a) - k) = [i \in 1 .. Minus(b, a) - k |-> s[i]]
  BY <1>8, SubSeqFacts, Zenon
<1>10. ASSUME NEW i \in 1 .. Minus(b, a) - k PROVE t[i] = s[i]
  <2>1. i \in 1 .. Minus(b, a)
    BY <1>2
  <2> QED
    BY <1>6, <1>7, <2>1, Zenon
<1>11. t = [i \in 1 .. Minus(b, a) - k |-> s[i]]
  BY <1>2, <1>7, <1>10
<1> QED
  BY <1>3, <1>5, <1>6, <1>7, <1>9, <1>11, Zenon

(* Ring is Part of the buffer, before and after a step. *)
LEMMA RingPart ==
  /\ Ring(r, w) = Part(buf, r, w) /\ Ring(w, e) = Part(buf, w, e)
  /\ (Ring(r, w))' = Part(buf', r', w') /\ (Ring(w, e))' = Part(buf', w', e')
  BY Zenon DEF Ring, Part, Minus

--------------------------------------------------------------------------------
(***************************************************************************)
(* The inductive invariant.                                                *)
(***************************************************************************)
TypeInv ==
  /\ buf \in Cells
  /\ r \in Index /\ w \in Index /\ e \in Index
  /\ pos \in Nat
  /\ shift \subseteq {"CTL", "E0ESC"} /\ wire \in {"", "press", "release"} /\ down \subseteq Control
  /\ pc \in [Proc -> {"user", "read", "tosleep", "sleep"}]
  /\ n \in [Proc -> Nat]
  /\ got \in [Proc -> Seq(Text)]
  /\ killed \subseteq Proc

(* The ring holds what is finished and then the line being edited, which   *)
(* has no newline.                                                         *)
RingInv ==
  /\ Minus(w, r) + Minus(e, w) <= INPUT_BUF
  /\ \A i \in 1 .. Minus(e, w) : Part(buf, w, e)[i] # "\n"

(* Who sleeps, or is about to with cons.lock held, has nothing to read. *)
SleepInv == \A p \in Proc : pc[p] \in {"tosleep", "sleep"} => r = w

(* A modifier is on because of a key that is down or a byte that is due. *)
KeyInv ==
  /\ "CTL" \in shift => down # {}
  /\ "E0ESC" \in shift => wire # ""

OnScreen == pos \in 0 .. ROWS * COLS - 1

IInv == TypeInv /\ RingInv /\ SleepInv /\ KeyInv /\ OnScreen


--------------------------------------------------------------------------------
(* Multiplying by the number of columns keeps the order. *)
LEMMA Columns ==
  ASSUME NEW a \in Nat, NEW b \in Nat
  PROVE  /\ a < b => COLS * (a + 1) <= COLS * b
         /\ COLS * a < COLS * b => a < b
         /\ COLS * a \in Nat /\ COLS * (a + 1) = COLS * a + COLS
<1>1. COLS * (a + 1) = COLS * a + COLS /\ COLS * a \in Nat
  BY Constants
<1>2. a < b => COLS * (a + 1) <= COLS * b
  <2>1. b - (a + 1) >= 0 => COLS * (b - (a + 1)) >= 0
    BY Constants
  <2>2. COLS * (b - (a + 1)) = COLS * b - COLS * (a + 1)
    BY Constants
  <2> QED
    BY <2>1, <2>2, Constants
<1>3. a >= b => COLS * a >= COLS * b
  <2>1. a - b >= 0 => COLS * (a - b) >= 0
    BY Constants
  <2>2. COLS * (a - b) = COLS * a - COLS * b
    BY Constants
  <2> QED
    BY <2>1, <2>2, Constants
<1> QED
  BY <1>1, <1>2, <1>3, Constants

(* What no step may do to the cursor. *)
Above == pos < (ROWS - 1) * COLS
CursorStep == OnScreen' /\ (Above => Above')
CursorTo(to) == to \in 0 .. ROWS * COLS - 1 /\ (Above => to < (ROWS - 1) * COLS)

(* The sizes of the screen and of the part of it above the last line. *)
LEMMA Screen ==
  /\ COLS \in Nat /\ 0 < COLS /\ ROWS \in Nat /\ ROWS - 1 \in Nat /\ 0 < ROWS - 1
  /\ (ROWS - 1) * COLS \in Nat /\ (ROWS - 1) * COLS = COLS * (ROWS - 1)
  /\ ROWS * COLS = (ROWS - 1) * COLS + COLS /\ ROWS * COLS = COLS * ROWS
  /\ COLS <= (ROWS - 1) * COLS
<1>1. /\ COLS \in Nat /\ 0 < COLS /\ ROWS \in Nat /\ ROWS - 1 \in Nat /\ 0 < ROWS - 1
      /\ (ROWS - 1) * COLS \in Nat /\ (ROWS - 1) * COLS = COLS * (ROWS - 1)
      /\ ROWS * COLS = (ROWS - 1) * COLS + COLS /\ ROWS * COLS = COLS * ROWS
  BY Constants
<1>2. 0 < ROWS - 1 => COLS * (0 + 1) <= COLS * (ROWS - 1)
  BY <1>1, Columns, Zenon
<1> QED
  BY <1>1, <1>2

(* Scrolling keeps a position on the screen, and above the last line one   *)
(* that comes from there.                                                  *)
LEMMA ScrollOK ==
  ASSUME NEW to \in Nat, to <= ROWS * COLS, Above => to <= (ROWS - 1) * COLS
  PROVE  CursorTo(Scroll(to)) /\ Scroll(to) \in Nat
<1>1. PICK M \in Nat, N \in Nat :
        /\ M = (ROWS - 1) * COLS /\ M = COLS * (ROWS - 1) /\ COLS <= M
        /\ N = ROWS * COLS /\ N = M + COLS
  BY Screen
<1>2. COLS \in Nat /\ 0 < COLS /\ ROWS - 1 \in Nat /\ 0 < ROWS - 1
  BY Screen, Zenon
<1>3. PICK d \in Nat : d = to \div COLS
  BY <1>2
<1>4. PICK z \in Nat : z = to % COLS /\ z < COLS
  BY <1>2, ModRange, Zenon
<1>5. to = COLS * d + z
  <2>1. to = COLS * (to \div COLS) + (to % COLS)
    BY <1>2
  <2> QED
    BY <2>1, <1>3, <1>4, Zenon
<1>6. to <= N /\ (Above => to <= M)
  BY <1>1, Zenon
<1>7. CASE d >= ROWS - 1
  <2>1. 0 < d => COLS * (0 + 1) <= COLS * d
    BY Columns, ZenonT(60)
  <2>2. COLS <= COLS * d /\ COLS * d \in Nat
    BY <1>2, <1>7, <2>1
  <2>3. Scroll(to) = to - COLS
    BY <1>3, <1>7, Zenon DEF Scroll
  <2>4. to - COLS \in Nat /\ to - COLS \in 0 .. N - 1 /\ (Above => to - COLS < M)
    BY <1>1, <1>2, <1>4, <1>5, <1>6, <2>2
  <2> QED
    BY <1>1, <2>3, <2>4, Zenon DEF CursorTo
<1>8. CASE d < ROWS - 1
  <2>1. COLS * (d + 1) <= COLS * (ROWS - 1) /\ COLS * (d + 1) = COLS * d + COLS /\ COLS * d \in Nat
    BY <1>2, <1>8, Columns, Zenon
  <2>2. Scroll(to) = to
    BY <1>2, <1>3, <1>8 DEF Scroll
  <2>3. COLS * (d + 1) <= M
    BY <1>1, <2>1, Zenon
  <2>4. to < M /\ to \in 0 .. N - 1
    BY <1>1, <1>2, <1>4, <1>5, <2>1, <2>3
  <2> QED
    BY <1>1, <2>2, <2>4, Zenon DEF CursorTo
<1> QED
  BY <1>2, <1>3, <1>7, <1>8

(* One character of output. *)
LEMMA CgaputcOK ==
  ASSUME OnScreen, NEW c
  PROVE  CursorTo(Cgaputc(pos, c))
<1>1. PICK M \in Nat, N \in Nat :
        /\ M = (ROWS - 1) * COLS /\ M = COLS * (ROWS - 1) /\ COLS <= M
        /\ N = ROWS * COLS /\ N = COLS * ROWS /\ N = M + COLS
  BY Screen
<1>2. COLS \in Nat /\ 0 < COLS /\ ROWS \in Nat /\ ROWS - 1 \in Nat
  BY Screen, Zenon
<1>3. pos \in Nat /\ pos < N /\ (Above <=> pos < M)
  <2>1. pos \in 0 .. N - 1 /\ (Above <=> pos < M)
    BY <1>1, Zenon DEF OnScreen, Above
  <2> QED
    BY <1>2, <2>1
<1>4. PICK x \in Nat : x = pos % COLS /\ x < COLS
  BY <1>2, <1>3, ModRange, Zenon
<1>5. PICK q \in Nat : pos = COLS * q + x
  BY <1>2, <1>3, <1>4, ModQuotient, ZenonT(60)
<1>6. COLS * (q + 1) = COLS * q + COLS /\ COLS * q \in Nat
  BY <1>2, Columns, Zenon
<1>7. COLS * (q + 1) <= N
  <2>1. COLS * q < COLS * ROWS
    BY <1>1, <1>2, <1>3, <1>4, <1>5, <1>6
  <2>2. COLS * (q + 1) <= COLS * ROWS
    BY <2>1, <1>2, Columns, ZenonT(60)
  <2> QED
    BY <1>1, <2>2, Zenon
<1>8. pos < M => COLS * (q + 1) <= M
  <2>1. ASSUME pos < M PROVE COLS * q < COLS * (ROWS - 1)
    BY <1>1, <1>2, <1>3, <1>4, <1>5, <1>6, <2>1
  <2>2. ASSUME pos < M PROVE COLS * (q + 1) <= COLS * (ROWS - 1)
    BY <2>1, <2>2, <1>2, Columns, ZenonT(60)
  <2> QED
    BY <1>1, <2>2, Zenon
<1> DEFINE to == IF c = "\n" THEN pos + COLS - (pos % COLS) ELSE pos + 1
<1>9. to \in Nat /\ to <= N /\ (pos < M => to <= M)
  BY <1>2, <1>3, <1>4, <1>5, <1>6, <1>7, <1>8
<1>10. Cgaputc(pos, c) = Scroll(to)
  BY <1>1, <1>2, <1>9 DEF Cgaputc
<1> HIDE DEF to
<1>11. to <= ROWS * COLS /\ (Above => to <= (ROWS - 1) * COLS)
  BY <1>1, <1>3, <1>9, Zenon
<1> QED
  BY <1>9, <1>10, <1>11, ScrollOK, Zenon

(* Erasing. *)
LEMMA BackspacesOK ==
  ASSUME OnScreen, NEW k \in Nat
  PROVE  CursorTo(Backspaces(k))
<1>1. PICK M \in Nat, N \in Nat :
        M = (ROWS - 1) * COLS /\ N = ROWS * COLS /\ N = M + COLS
  BY Screen
<1>2. COLS \in Nat /\ 0 < COLS
  BY Screen, Zenon
<1>3. pos \in Nat /\ pos \in 0 .. N - 1 /\ (Above <=> pos < M)
  <2>1. pos \in 0 .. N - 1 /\ (Above <=> pos < M)
    BY <1>1, Zenon DEF OnScreen, Above
  <2> QED
    BY <1>2, <2>1
<1>4. CASE k = 0
  <2>1. Backspaces(k) = pos
    BY <1>4, Zenon DEF Backspaces
  <2> QED
    BY <1>1, <1>3, <2>1, Zenon DEF CursorTo
<1>5. CASE k # 0
  <2>1. PICK left \in Nat : /\ left = Left(pos, 1)
                            /\ left <= N /\ (pos < M => left <= M)
    BY <1>2, <1>3 DEF Left
  <2>2. CursorTo(Scroll(left)) /\ Scroll(left) \in Nat
    BY <1>1, <1>3, <2>1, ScrollOK, Zenon
  <2>3. PICK at \in Nat : /\ at = Scroll(left)
                          /\ at \in 0 .. N - 1 /\ (Above => at < M)
    BY <1>1, <2>2, Zenon DEF CursorTo
  <2>4. Backspaces(k) = Left(at, k - 1)
    BY <1>5, <2>1, <2>3, Zenon DEF Backspaces
  <2>5. Left(at, k - 1) \in 0 .. N - 1 /\ (Above => Left(at, k - 1) < M)
    BY <1>2, <1>5, <2>3 DEF Left
  <2> QED
    BY <1>1, <2>4, <2>5, Zenon DEF CursorTo
<1> QED
  BY <1>4, <1>5, Zenon

(* A step takes the cursor where CursorTo allows, or leaves it. *)
LEMMA CursorMoves ==
  ASSUME OnScreen
  PROVE  /\ CursorTo(pos') => CursorStep
         /\ pos' = pos => CursorStep
         /\ CursorStep => pos' \in Nat /\ OnScreen'
<1>1. CursorTo(pos') => CursorStep
  BY Zenon DEF CursorTo, CursorStep, OnScreen, Above
<1>2. pos' = pos => CursorStep
  BY Zenon DEF CursorStep, OnScreen, Above
<1>3. CursorStep => pos' \in Nat /\ OnScreen'
  <2>1. PICK N \in Nat : N = ROWS * COLS
    BY Screen
  <2>2. CursorStep => pos' \in 0 .. N - 1 /\ OnScreen'
    BY <2>1, Zenon DEF CursorStep, OnScreen
  <2> QED
    BY <2>2
<1> QED
  BY <1>1, <1>2, <1>3, Zenon

--------------------------------------------------------------------------------
(***************************************************************************)
(* What the steps do to the line being edited and to what can be read.     *)
(***************************************************************************)
ready == Part(buf, r, w)
line == Part(buf, w, e)
NewReady == Part(buf', r', w')
NewLine == Part(buf', w', e')

(* The lengths of the two, which fit together in the ring. *)
LEMMA Lengths ==
  ASSUME TypeInv, RingInv
  PROVE  /\ ready \in Seq(Text) /\ line \in Seq(Text)
         /\ Len(ready) = Minus(w, r) /\ Len(line) = Minus(e, w)
         /\ Minus(w, r) \in Nat /\ Minus(e, w) \in Nat
         /\ Minus(e, r) = Minus(w, r) + Minus(e, w)
<1>1. /\ ready \in Seq(Text) /\ line \in Seq(Text)
      /\ Len(ready) = Minus(w, r) /\ Len(line) = Minus(e, w)
      /\ Minus(w, r) \in Nat /\ Minus(e, w) \in Nat
  BY PartSeq, Zenon DEF TypeInv, ready, line
<1>2. Minus(w, r) + Minus(e, w) < UINT
  BY <1>1, Constants DEF RingInv
<1>3. Minus(e, r) = Minus(w, r) + Minus(e, w)
  BY <1>2, MinusSum, Zenon DEF TypeInv
<1> QED
  BY <1>1, <1>3, Zenon

(* e is at r + INPUT_BUF when the ring is full. *)
LEMMA FullIs ==
  ASSUME r \in Index, NEW b \in Index
  PROVE  b = Full <=> Minus(b, r) = INPUT_BUF
<1>1. /\ r \in Nat /\ r < UINT /\ UINT \in Nat /\ INPUT_BUF \in Nat /\ INPUT_BUF < UINT
      /\ b \in Nat /\ b < UINT
  BY Constants DEF Index
<1>2. Minus(b, r) = IF r <= b THEN b - r ELSE b + UINT - r
  BY MinusIs, Zenon
<1>3. Full = IF r + INPUT_BUF < UINT THEN r + INPUT_BUF ELSE r + INPUT_BUF - UINT
  <2>1. CASE r + INPUT_BUF < UINT
    BY <1>1, <2>1, ModSmall DEF Full
  <2>2. CASE r + INPUT_BUF >= UINT
    <3>1. PICK y \in Nat : y = r + INPUT_BUF - UINT /\ y < UINT
      BY <1>1, <2>2
    <3>2. (y + UINT) % UINT = y
      BY <1>1, <3>1, ModSmall, ZenonT(60)
    <3>3. y + UINT = r + INPUT_BUF
      BY <1>1, <3>1
    <3> QED
      BY <1>1, <2>2, <3>1, <3>2, <3>3 DEF Full
  <2> QED
    BY <1>1, <2>1, <2>2
<1> QED
  BY <1>1, <1>2, <1>3

(* A character typed. *)
Pushed(c) ==
  /\ Minus(e, r) < INPUT_BUF
  /\ buf' = [buf EXCEPT ![e % INPUT_BUF] = c]
  /\ e' = Inc(e) /\ r' = r
  /\ w' = IF c \in {"\n", "^D"} \/ e' = Full THEN e' ELSE w

(* consoleintr() of a character is typing, finishing the line or not. *)
LEMMA PushRing ==
  ASSUME TypeInv, RingInv, NEW c \in Char, Pushed(c)
  PROVE  /\ buf' \in Cells /\ w' \in Index /\ e' \in Index /\ RingInv'
         /\ Len(ready) + Len(line) < INPUT_BUF
         /\ IF c \in {"\n", "^D"} \/ Len(ready) + Len(Append(line, c)) = INPUT_BUF
            THEN NewReady = ready \o Append(line, c) /\ NewLine = <<>>
            ELSE NewLine = Append(line, c) /\ NewReady = ready
<1>1. /\ ready \in Seq(Text) /\ line \in Seq(Text)
      /\ Len(ready) = Minus(w, r) /\ Len(line) = Minus(e, w)
      /\ Minus(w, r) \in Nat /\ Minus(e, w) \in Nat
      /\ Minus(e, r) = Minus(w, r) + Minus(e, w)
  BY Lengths, Zenon
<1>2. /\ INPUT_BUF \in Nat /\ INPUT_BUF < UINT /\ UINT \in Nat
      /\ c \in Text /\ buf \in Cells /\ r \in Index /\ w \in Index /\ e \in Index
  BY Constants, Zenon DEF TypeInv, Text
<1>a. PICK g : g = [buf EXCEPT ![e % INPUT_BUF] = c]
  BY ZenonT(60)
<1>b. Minus(e, r) < INPUT_BUF
  BY Zenon DEF Pushed
<1>c. buf' = g /\ e' = Inc(e) /\ r' = r
  BY <1>a, Zenon DEF Pushed
<1>3. /\ buf' \in Cells /\ e' \in Index /\ Minus(e', r) = Minus(e, r) + 1
      /\ Part(buf', r, e') = Append(Part(buf, r, e), c)
  <2>1. StoredAtEnd(buf, g, r, e, c)
    BY <1>a, <1>b, <1>2, PartPush, Zenon
  <2> QED
    BY <1>c, <2>1, Zenon DEF StoredAtEnd
<1>4. Minus(e, w) < INPUT_BUF
  BY <1>b, <1>1, <1>2
<1>5. /\ Minus(e', w) = Minus(e, w) + 1 /\ Part(buf', w, e') = Append(line, c)
  <2>1. StoredAtEnd(buf, g, w, e, c)
    BY <1>a, <1>2, <1>4, PartPush, Zenon
  <2> QED
    BY <1>c, <2>1, Zenon DEF line, StoredAtEnd
<1>6. Part(buf', r, w) = ready
  <2>1. Minus(w, r) + Minus(e, w) < INPUT_BUF
    BY <1>b, <1>1, Zenon
  <2>2. SamePart(buf, g, r, w)
    BY <1>a, <1>2, <2>1, PartKeep, Zenon
  <2> QED
    BY <1>c, <2>2, Zenon DEF ready, SamePart
<1>7. Len(Append(line, c)) = Len(line) + 1 /\ \A i \in 1 .. Len(line) : Append(line, c)[i] = line[i]
  BY <1>1, <1>2, AppendFacts, Zenon
<1>8. e' = Full <=> Len(ready) + Len(Append(line, c)) = INPUT_BUF
  <2>1. e' = Full <=> Minus(e', r) = INPUT_BUF
    BY <1>2, <1>3, FullIs, Zenon
  <2> QED
    BY <1>1, <1>3, <1>7, <2>1
<1>9. CASE c \in {"\n", "^D"} \/ e' = Full
  <2>1. w' = e'
    BY <1>9, Zenon DEF Pushed
  <2>2. Minus(e', e') = 0 /\ NewLine = <<>>
    BY <2>1, <1>3, MinusIs, PartEmpty, Zenon DEF NewLine
  <2>3. Part(buf, r, e) = ready \o line
    <3>1. Minus(w, r) + Minus(e, w) < UINT
      BY <1>b, <1>1, <1>2
    <3> QED
      BY <1>2, <3>1, PartCat, Zenon DEF ready, line
  <2>4. NewReady = Append(ready \o line, c)
    BY <2>1, <2>3, <1>c, <1>3, Zenon DEF NewReady
  <2>5. NewReady = ready \o Append(line, c)
    BY <2>4, <1>1, <1>2, CatFacts, ZenonT(60)
  <2>6. RingInv'
    BY <2>1, <2>2, <1>b, <1>c, <1>1, <1>2, <1>3 DEF RingInv, Part, Minus
  <2> QED
    BY <1>b, <1>1, <1>3, <1>8, <1>9, <2>1, <2>2, <2>5, <2>6, Zenon
<1>10. CASE ~ (c \in {"\n", "^D"} \/ e' = Full)
  <2>1. w' = w
    BY <1>10, Zenon DEF Pushed
  <2>2. NewReady = ready /\ NewLine = Append(line, c)
    BY <2>1, <1>5, <1>6, <1>c, Zenon DEF NewReady, NewLine
  <2>3. ASSUME NEW i \in 1 .. Minus(e', w') PROVE NewLine[i] # "\n"
    <3>1. i \in 1 .. Len(line) \/ i = Len(line) + 1
      BY <2>1, <1>1, <1>5
    <3>2. CASE i \in 1 .. Len(line)
      BY <3>2, <1>1, <1>7, <2>2, Zenon DEF RingInv, line
    <3>3. CASE i = Len(line) + 1
      BY <3>3, <1>1, <1>2, <1>10, <2>2, AppendFacts, Zenon
    <3> QED
      BY <3>1, <3>2, <3>3, Zenon
  <2>4. Minus(w', r') + Minus(e', w') <= INPUT_BUF
    BY <2>1, <1>b, <1>c, <1>1, <1>2, <1>5
  <2>5. RingInv'
    BY <2>3, <2>4, ZenonT(60) DEF RingInv, NewLine, Part, Minus
  <2> QED
    BY <1>b, <1>1, <1>2, <1>3, <1>8, <1>10, <2>1, <2>2, <2>5, Zenon
<1> QED
  BY <1>9, <1>10, Zenon


(* The last k characters of the line erased. *)
LEMMA EraseRing ==
  ASSUME TypeInv, RingInv, NEW k \in 0 .. Minus(e, w), e' = Minus(e, k), UNCHANGED <<buf, r, w>>
  PROVE  /\ e' \in Index /\ RingInv'
         /\ NewReady = ready /\ NewLine = SubSeq(line, 1, Len(line) - k)
<1>1. /\ line \in Seq(Text) /\ Len(line) = Minus(e, w)
      /\ Minus(w, r) \in Nat /\ Minus(e, w) \in Nat
  BY Lengths, Zenon
<1>a. buf \in Cells /\ w \in Index /\ e \in Index
  BY Zenon DEF TypeInv
<1>2. buf \in Cells /\ w \in Index /\ e \in Index /\ INPUT_BUF \in Nat /\ k \in Nat
  BY <1>1, <1>a, Constants
<1>3. PICK y \in Index : /\ y = Minus(e, k) /\ Minus(y, w) = Minus(e, w) - k
                         /\ Part(buf, w, y) = SubSeq(line, 1, Minus(e, w) - k)
  BY <1>2, PartFront, Zenon DEF line
<1>4. NewLine = SubSeq(line, 1, Len(line) - k) /\ NewReady = ready
  BY <1>1, <1>3, Zenon DEF NewLine, NewReady, ready
<1>5. Len(line) - k \in 0 .. Len(line)
  BY <1>1, <1>2
<1>6. SubSeq(line, 1, Len(line) - k) = [i \in 1 .. Len(line) - k |-> line[i]]
  BY <1>1, <1>5, SubSeqFacts, Zenon
<1>7. \A i \in 1 .. Len(line) - k : line[i] # "\n"
  BY <1>1, <1>2 DEF RingInv, line
<1>8. \A i \in 1 .. Minus(e', w') : NewLine[i] # "\n"
  BY <1>1, <1>3, <1>4, <1>6, <1>7, Zenon
<1>9. Minus(w', r') + Minus(e', w') <= INPUT_BUF
  BY <1>1, <1>2, <1>3 DEF RingInv
<1>10. RingInv'
  BY <1>8, <1>9, Zenon DEF RingInv, NewLine, Part, Minus
<1> QED
  BY <1>3, <1>4, <1>10, Zenon

(* ^U erases the whole line: there is no newline in it. *)
LEMMA KillLineIs ==
  ASSUME TypeInv, RingInv, NEW k \in KillLine
  PROVE  k \in 0 .. Minus(e, w) /\ k = Minus(e, w)
<1>1. k \in 0 .. Minus(e, w) /\ (k = Minus(e, w) \/ buf[Minus(e, k + 1) % INPUT_BUF] = "\n")
  BY Zenon DEF KillLine
<1>2. Minus(e, w) \in Nat /\ k \in Nat
  BY <1>1, Lengths
<1>3. SUFFICES ASSUME k # Minus(e, w) PROVE FALSE
  BY <1>1, Zenon
<1>a. buf \in Cells /\ w \in Index /\ e \in Index
  BY Zenon DEF TypeInv
<1>4. k + 1 \in 0 .. Minus(e, w) /\ buf \in Cells /\ w \in Index /\ e \in Index /\ w \in Nat
  BY <1>a, <1>1, <1>2, <1>3 DEF Index
<1>5. PICK y \in Index : y = Minus(e, k + 1) /\ Minus(y, w) = Minus(e, w) - (k + 1)
  BY <1>4, PartFront, ZenonT(60)
<1>6. (w + Minus(y, w) + 0) % INPUT_BUF = (y + 0) % INPUT_BUF
  BY <1>4, Beyond
<1>7. PICK i \in 1 .. Minus(e, w) : i = Minus(e, w) - k
  BY <1>2, <1>4
<1>8. w + Minus(y, w) + 0 = w + i - 1 /\ y + 0 = y
  BY <1>2, <1>4, <1>5, <1>7 DEF Index
<1>9. Part(buf, w, e)[i] = buf[(w + i - 1) % INPUT_BUF]
  BY <1>4, PartSeq, Zenon
<1>10. buf[y % INPUT_BUF] = "\n"
  BY <1>1, <1>3, <1>5, Zenon
<1>11. Part(buf, w, e)[i] # "\n"
  BY Zenon DEF RingInv
<1> QED
  BY <1>6, <1>8, <1>9, <1>10, <1>11, Zenon

(* The first k characters that are ready consumed. *)
LEMMA PopRing ==
  ASSUME TypeInv, RingInv, NEW k \in 0 .. Minus(w, r), r' = (r + k) % UINT, UNCHANGED <<buf, w, e>>
  PROVE  /\ r' \in Index /\ RingInv' /\ Minus(w, r') = Minus(w, r) - k
         /\ NewReady = SubSeq(ready, k + 1, Len(ready)) /\ NewLine = line
<1>1. /\ Len(ready) = Minus(w, r) /\ Minus(w, r) \in Nat /\ Minus(e, w) \in Nat
  BY Lengths, Zenon
<1>a. buf \in Cells /\ w \in Index /\ r \in Index
  BY Zenon DEF TypeInv
<1>2. buf \in Cells /\ w \in Index /\ r \in Index /\ INPUT_BUF \in Nat /\ k \in Nat
  BY <1>1, <1>a, Constants
<1>3. PICK y \in Index : y = (r + k) % UINT /\ Minus(w, y) = Minus(w, r) - k
  BY <1>2, Advance, Zenon
<1>4. Part(buf, y, w) = SubSeq(Part(buf, r, w), k + 1, Minus(w, r))
  BY <1>2, <1>3, PartPop, Zenon
<1>5. NewReady = SubSeq(ready, k + 1, Len(ready)) /\ NewLine = line
  BY <1>1, <1>3, <1>4, Zenon DEF NewReady, NewLine, ready, line
<1>6. Minus(w', r') + Minus(e', w') <= INPUT_BUF
  BY <1>1, <1>2, <1>3 DEF RingInv
<1>7. RingInv'
  BY <1>6, ZenonT(60) DEF RingInv, Part, Minus
<1> QED
  BY <1>3, <1>5, <1>7, Zenon


--------------------------------------------------------------------------------
(* A step that AbsConsole allows. *)
TtyStep == [Abs!Next]_<<Ring(w, e), Ring(r, w), got>>

(* The variables of AbsConsole, before and after a step. *)
LEMMA AbsVars ==
  Ring(r, w) = ready /\ Ring(w, e) = line /\ (Ring(r, w))' = NewReady /\ (Ring(w, e))' = NewLine
  BY RingPart, Zenon DEF ready, line, NewReady, NewLine

(* A step that changes neither the ring nor what readers got. *)
LEMMA TtyStutter ==
  ASSUME UNCHANGED <<input, got>>
  PROVE  TtyStep
  BY Zenon DEF TtyStep, input, Ring, Minus

(* A character typed is a Type. *)
LEMMA TtyType ==
  ASSUME NEW c \in Char, got' = got,
         Len(ready) + Len(line) < INPUT_BUF,
         IF c \in {"\n", "^D"} \/ Len(ready) + Len(Append(line, c)) = INPUT_BUF
         THEN NewReady = ready \o Append(line, c) /\ NewLine = <<>>
         ELSE NewLine = Append(line, c) /\ NewReady = ready
  PROVE  TtyStep
<1>1. Abs!Type(c)
  BY AbsVars, Zenon DEF Abs!Type
<1> QED
  BY <1>1, Zenon DEF TtyStep, Abs!Next, Char

(* The last character of the line gone is an Erase. *)
LEMMA TtyErase ==
  ASSUME got' = got, line # <<>>, NewReady = ready, NewLine = SubSeq(line, 1, Len(line) - 1)
  PROVE  TtyStep
<1>1. Abs!Erase
  BY AbsVars, Zenon DEF Abs!Erase
<1> QED
  BY <1>1, Zenon DEF TtyStep, Abs!Next

(* The line gone is an EraseLine. *)
LEMMA TtyEraseLine ==
  ASSUME got' = got, NewReady = ready, NewLine = <<>>
  PROVE  TtyStep
<1>1. Abs!EraseLine
  BY AbsVars, Zenon DEF Abs!EraseLine
<1> QED
  BY <1>1, Zenon DEF TtyStep, Abs!Next

(* What consoleintr() keeps, and that it is line editing. *)
IntrKeeps ==
  /\ buf' \in Cells /\ w' \in Index /\ e' \in Index /\ RingInv'
  /\ CursorStep
  /\ (pc' = pc /\ w' = w) \/ pc' = [p \in Proc |-> IF pc[p] = "sleep" THEN "read" ELSE pc[p]]
  /\ TtyStep

(* consoleintr() of ^U. *)
LEMMA IntrUp ==
  ASSUME IInv, ConsoleIntr("^U")
  PROVE  IntrKeeps
<1>1. TypeInv /\ RingInv /\ OnScreen
  BY Zenon DEF IInv
<1>2. PICK k \in KillLine : e' = Minus(e, k) /\ pos' = Backspaces(k)
  BY Zenon DEF ConsoleIntr
<1>3. UNCHANGED <<buf, w, pc, r, got>>
  BY Zenon DEF ConsoleIntr
<1>4. k \in 0 .. Minus(e, w) /\ k = Minus(e, w)
  BY <1>1, KillLineIs, Zenon
<1>5. /\ e' \in Index /\ RingInv' /\ NewReady = ready
      /\ NewLine = SubSeq(line, 1, Len(line) - k)
  BY <1>1, <1>2, <1>3, <1>4, EraseRing, Zenon
<1>6. line \in Seq(Text) /\ Len(line) = k /\ k \in Nat
  BY <1>1, <1>4, Lengths, Zenon
<1>7. NewLine = <<>>
  BY <1>5, <1>6
<1>8. TtyStep
  BY <1>3, <1>5, <1>7, TtyEraseLine, Zenon
<1>9. CursorStep
  BY <1>1, <1>2, <1>6, BackspacesOK, CursorMoves, Zenon
<1>10. buf' \in Cells /\ w' \in Index
  BY <1>1, <1>3, Zenon DEF TypeInv
<1> QED
  BY <1>3, <1>5, <1>8, <1>9, <1>10, Zenon DEF IntrKeeps

(* consoleintr() of ^H. *)
LEMMA IntrBack ==
  ASSUME IInv, ConsoleIntr("^H")
  PROVE  IntrKeeps
<1>1. TypeInv /\ RingInv /\ OnScreen
  BY Zenon DEF IInv
<1>2. /\ e' = IF e # w THEN Dec(e) ELSE e
      /\ pos' = IF e # w THEN Backspaces(1) ELSE pos
      /\ UNCHANGED <<buf, w, pc, r, got>>
  BY Zenon DEF ConsoleIntr
<1>3. buf' \in Cells /\ w' \in Index /\ w \in Index /\ e \in Index
  BY <1>1, <1>2, Zenon DEF TypeInv
<1>4. CASE e = w
  <2>1. UNCHANGED <<input, got, pos>>
    BY <1>2, <1>4, Zenon DEF input
  <2>2. TtyStep
    BY <2>1, TtyStutter, Zenon
  <2>3. RingInv' /\ CursorStep /\ e' \in Index
    BY <1>1, <1>3, <2>1, CursorMoves, ZenonT(60) DEF RingInv, input, Part, Minus
  <2> QED
    BY <1>2, <1>3, <2>2, <2>3, Zenon DEF IntrKeeps
<1>5. CASE e # w
  <2>1. Minus(e, w) # 0 /\ Minus(e, w) \in Nat /\ line \in Seq(Text) /\ Len(line) = Minus(e, w)
    BY <1>1, <1>3, <1>5, MinusIs, Lengths, Zenon
  <2>2. 1 \in 0 .. Minus(e, w) /\ line # <<>>
    BY <2>1
  <2>3. e' = Minus(e, 1)
    BY <1>2, <1>5, Zenon DEF Dec
  <2>4. /\ e' \in Index /\ RingInv' /\ NewReady = ready
        /\ NewLine = SubSeq(line, 1, Len(line) - 1)
    BY <1>1, <1>2, <2>2, <2>3, EraseRing, Zenon
  <2>5. TtyStep
    BY <1>2, <2>2, <2>4, TtyErase, Zenon
  <2>6. CursorStep
    BY <1>1, <1>2, <1>5, BackspacesOK, CursorMoves, Zenon
  <2> QED
    BY <1>2, <1>3, <2>4, <2>5, <2>6, Zenon DEF IntrKeeps
<1> QED
  BY <1>4, <1>5, Zenon

(* consoleintr() of a character for which there is room. *)
LEMMA IntrChar ==
  ASSUME IInv, NEW c \in Char, Minus(e, r) < INPUT_BUF, ConsoleIntr(c)
  PROVE  IntrKeeps
<1>1. TypeInv /\ RingInv /\ OnScreen
  BY Zenon DEF IInv
<1>2. c \notin {"", "^U", "^H", "^P"}
  BY Zenon DEF Char
<1>3. /\ buf' = [buf EXCEPT ![e % INPUT_BUF] = c] /\ e' = Inc(e) /\ pos' = Cgaputc(pos, c)
      /\ IF c \in {"\n", "^D"} \/ e' = Full THEN w' = e' /\ Wakeup ELSE UNCHANGED <<w, pc>>
      /\ r' = r /\ got' = got
  BY <1>2, Zenon DEF ConsoleIntr
<1>4. Pushed(c)
  BY <1>3, Zenon DEF Pushed
<1>5. /\ buf' \in Cells /\ w' \in Index /\ e' \in Index /\ RingInv'
      /\ Len(ready) + Len(line) < INPUT_BUF
      /\ IF c \in {"\n", "^D"} \/ Len(ready) + Len(Append(line, c)) = INPUT_BUF
         THEN NewReady = ready \o Append(line, c) /\ NewLine = <<>>
         ELSE NewLine = Append(line, c) /\ NewReady = ready
  BY <1>1, <1>4, PushRing, ZenonT(60)
<1>6. TtyStep
  BY <1>3, <1>5, TtyType, Zenon
<1>7. CursorStep
  BY <1>1, <1>3, CgaputcOK, CursorMoves, Zenon
<1>8. (pc' = pc /\ w' = w) \/ pc' = [p \in Proc |-> IF pc[p] = "sleep" THEN "read" ELSE pc[p]]
  BY <1>3, Zenon DEF Wakeup
<1> QED
  BY <1>5, <1>6, <1>7, <1>8, Zenon DEF IntrKeeps


(* A key that types nothing, ^P, or a character for which there is no room. *)
LEMMA IntrNothing ==
  ASSUME IInv, NEW c \in Letters \cup {"x", "\n", ""}, c \notin {"^U", "^H"},
         ~ (c \in Char /\ Minus(e, r) < INPUT_BUF), ConsoleIntr(c)
  PROVE  IntrKeeps
<1>1. c \in Char \/ c \in {"", "^U", "^H", "^P"}
  BY Zenon DEF Char, Letters
<1>2. ~ (c \notin {"", "^U", "^H", "^P"} /\ Minus(e, r) < INPUT_BUF)
  BY <1>1, Zenon
<1>3. UNCHANGED <<buf, w, e, pos, pc, r, got>>
  BY <1>2, Zenon DEF ConsoleIntr
<1>4. UNCHANGED <<input, got>>
  BY <1>3, Zenon DEF input
<1>5. TtyStep
  BY <1>4, TtyStutter, Zenon
<1>6. RingInv' /\ CursorStep
  BY <1>3, CursorMoves, Zenon DEF IInv, RingInv, Part, Minus
<1> QED
  BY <1>3, <1>5, <1>6, Zenon DEF IInv, TypeInv, IntrKeeps

(* consoleintr() of any character. *)
LEMMA Intr ==
  ASSUME IInv, NEW c \in Letters \cup {"x", "\n", ""}, ConsoleIntr(c)
  PROVE  /\ TtyStep /\ RingInv' /\ CursorStep /\ SleepInv'
         /\ buf' \in Cells /\ r' \in Index /\ w' \in Index /\ e' \in Index
         /\ pc' \in [Proc -> {"user", "read", "tosleep", "sleep"}]
         /\ UNCHANGED <<n, got, killed>>
<1>1. IntrKeeps
  <2>1. CASE c = "^U"
    BY <2>1, IntrUp, Zenon
  <2>2. CASE c = "^H"
    BY <2>2, IntrBack, Zenon
  <2>3. CASE c \in Char /\ Minus(e, r) < INPUT_BUF
    BY <2>3, IntrChar, Zenon
  <2>4. CASE c \notin {"^U", "^H"} /\ ~ (c \in Char /\ Minus(e, r) < INPUT_BUF)
    BY <2>4, IntrNothing, Zenon
  <2> QED
    BY <2>1, <2>2, <2>3, <2>4, Zenon
<1>2. Unlocked /\ UNCHANGED <<r, n, got, killed>>
  BY Zenon DEF ConsoleIntr
<1>3. r' \in Index /\ pc \in [Proc -> {"user", "read", "tosleep", "sleep"}] /\ SleepInv
  BY <1>2, Zenon DEF IInv, TypeInv
<1>4. CASE pc' = pc /\ w' = w
  BY <1>1, <1>2, <1>3, <1>4, Zenon DEF IntrKeeps, SleepInv
<1>5. CASE pc' = [p \in Proc |-> IF pc[p] = "sleep" THEN "read" ELSE pc[p]]
  <2>1. pc' \in [Proc -> {"user", "read", "tosleep", "sleep"}]
    BY <1>3, <1>5, Zenon
  <2>2. SleepInv'
    BY <1>2, <1>3, <1>5, Zenon DEF SleepInv, Unlocked
  <2> QED
    BY <1>1, <1>2, <1>3, <2>1, <2>2, Zenon DEF IntrKeeps
<1> QED
  BY <1>1, <1>4, <1>5, Zenon DEF IntrKeeps

--------------------------------------------------------------------------------
(***************************************************************************)
(* Every action keeps the invariant and is a step of AbsConsole.           *)
(***************************************************************************)
Good == IInv' /\ TtyStep /\ CursorStep

(* A character from the serial line. *)
LEMMA UartIntrGood ==
  ASSUME IInv, NEW c \in Letters \cup {"x", "\n", ""}, UartIntr(c)
  PROVE  Good
<1>1. ConsoleIntr(c) /\ UNCHANGED <<shift, wire, down>>
  BY Zenon DEF UartIntr, keyboard
<1>2. /\ TtyStep /\ RingInv' /\ CursorStep /\ SleepInv'
      /\ buf' \in Cells /\ r' \in Index /\ w' \in Index /\ e' \in Index
      /\ pc' \in [Proc -> {"user", "read", "tosleep", "sleep"}]
      /\ UNCHANGED <<n, got, killed>>
  BY <1>1, Intr, Zenon
<1>3. pos' \in Nat
  BY <1>2, CursorMoves, Zenon DEF IInv
<1>4. KeyInv'
  BY <1>1, Zenon DEF IInv, KeyInv
<1>5. TypeInv'
  BY <1>1, <1>2, <1>3, Zenon DEF IInv, TypeInv
<1> QED
  BY <1>2, <1>4, <1>5, Zenon DEF Good, IInv, CursorStep

(* A key pressed. *)
LEMMA KbdPressGood ==
  ASSUME IInv, NEW key \in Letters \cup {"\n"} \cup Control, KbdPress(key)
  PROVE  Good
<1>1. /\ down' = down \cup (Control \cap {key}) /\ wire' = ""
      /\ shift' = (shift \ {"E0ESC"}) \cup Shiftcode(key)
      /\ ConsoleIntr(Charcode(key, shift'))
  BY Zenon DEF KbdPress
<1>2. PICK c \in Letters \cup {"x", "\n", ""} : c = Charcode(key, shift')
  BY Zenon DEF Charcode, Control
<1>3. /\ TtyStep /\ RingInv' /\ CursorStep /\ SleepInv'
      /\ buf' \in Cells /\ r' \in Index /\ w' \in Index /\ e' \in Index
      /\ pc' \in [Proc -> {"user", "read", "tosleep", "sleep"}]
      /\ UNCHANGED <<n, got, killed>>
  BY <1>1, <1>2, Intr, Zenon
<1>4. pos' \in Nat
  BY <1>3, CursorMoves, Zenon DEF IInv
<1>5. KeyInv' /\ shift' \subseteq {"CTL", "E0ESC"} /\ down' \subseteq Control
  BY <1>1, Zenon DEF IInv, TypeInv, KeyInv, Shiftcode, Control
<1>6. TypeInv'
  BY <1>1, <1>3, <1>4, <1>5, Zenon DEF IInv, TypeInv
<1> QED
  BY <1>3, <1>5, <1>6, Zenon DEF Good, IInv, CursorStep


(* The parts of the invariant, and what keeps each of them. *)
LEMMA Kept ==
  ASSUME IInv
  PROVE  /\ UNCHANGED input => TtyStep \/ got' # got
         /\ UNCHANGED <<buf, r, w, e>> => RingInv'
         /\ UNCHANGED pos => CursorStep
         /\ UNCHANGED <<shift, wire, down>> => KeyInv'
<1>1. UNCHANGED input => TtyStep \/ got' # got
  BY TtyStutter, Zenon
<1>2. UNCHANGED <<buf, r, w, e>> => RingInv'
  BY ZenonT(60) DEF IInv, RingInv, Part, Minus
<1>3. UNCHANGED pos => CursorStep
  BY CursorMoves, Zenon DEF IInv
<1>4. UNCHANGED <<shift, wire, down>> => KeyInv'
  BY Zenon DEF IInv, KeyInv
<1> QED
  BY <1>1, <1>2, <1>3, <1>4, Zenon

(* A character of output. *)
LEMMA ConsoleWriteGood ==
  ASSUME IInv, NEW c, ConsoleWrite(c)
  PROVE  Good
<1>1. /\ pos' = Cgaputc(pos, c) /\ UNCHANGED input
      /\ UNCHANGED <<buf, r, w, e, shift, wire, down, pc, n, got, killed>>
  BY Zenon DEF ConsoleWrite, input, keyboard, readers
<1>2. OnScreen
  BY Zenon DEF IInv
<1>3. CursorStep
  BY <1>1, <1>2, CgaputcOK, CursorMoves, Zenon
<1>4. RingInv' /\ KeyInv' /\ TtyStep
  BY <1>1, Kept, Zenon
<1>5. pos' \in Nat
  BY <1>3, CursorMoves, Zenon DEF IInv
<1>6. TypeInv' /\ SleepInv'
  BY <1>1, <1>5, Zenon DEF IInv, TypeInv, SleepInv
<1> QED
  BY <1>3, <1>4, <1>6, Zenon DEF Good, IInv, CursorStep

(* 0xE0, or a key released. *)
LEMMA KbdGood ==
  ASSUME IInv,
         \/ \E kind \in {"press", "release"} : KbdE0(kind)
         \/ \E key \in Control : KbdRelease(key)
  PROVE  Good
<1>1. UNCHANGED input /\ UNCHANGED <<buf, r, w, e, pos, pc, n, got, killed>>
  BY Zenon DEF KbdE0, KbdRelease, input, readers
<1>2. /\ shift' \subseteq {"CTL", "E0ESC"} /\ wire' \in {"", "press", "release"}
      /\ down' \subseteq Control /\ KeyInv'
  <2>1. ASSUME NEW kind \in {"press", "release"}, KbdE0(kind)
        PROVE  /\ shift' \subseteq {"CTL", "E0ESC"} /\ wire' \in {"", "press", "release"}
               /\ down' \subseteq Control /\ KeyInv'
    BY <2>1, Zenon DEF KbdE0, IInv, TypeInv, KeyInv
  <2>2. ASSUME NEW key \in Control, KbdRelease(key)
        PROVE  /\ shift' \subseteq {"CTL", "E0ESC"} /\ wire' \in {"", "press", "release"}
               /\ down' \subseteq Control /\ KeyInv'
    BY <2>2, Zenon DEF KbdRelease, Shiftcode, IInv, TypeInv, KeyInv
  <2> QED
    BY <2>1, <2>2, Zenon
<1>3. RingInv' /\ CursorStep /\ TtyStep
  BY <1>1, Kept, Zenon
<1>4. TypeInv' /\ SleepInv'
  BY <1>1, <1>2, Zenon DEF IInv, TypeInv, SleepInv
<1> QED
  BY <1>2, <1>3, <1>4, Zenon DEF Good, IInv, CursorStep

(* A reader goes to sleep or is killed. *)
LEMMA SleepKillGood ==
  ASSUME IInv, NEW p \in Proc, Sleep(p) \/ Kill(p)
  PROVE  Good
<1>1. UNCHANGED input /\ UNCHANGED <<buf, r, w, e, pos, shift, wire, down, n, got>>
  BY Zenon DEF Sleep, Kill, input, keyboard
<1>2. TypeInv /\ SleepInv
  BY Zenon DEF IInv
<1>3. /\ pc' \in [Proc -> {"user", "read", "tosleep", "sleep"}] /\ killed' \subseteq Proc
      /\ \A q \in Proc : pc'[q] \in {"tosleep", "sleep"} => pc[q] \in {"tosleep", "sleep"}
  BY <1>2, Zenon DEF Sleep, Kill, TypeInv
<1>4. RingInv' /\ CursorStep /\ KeyInv' /\ TtyStep
  BY <1>1, Kept, Zenon
<1>5. TypeInv' /\ SleepInv'
  BY <1>1, <1>2, <1>3, Zenon DEF TypeInv, SleepInv
<1> QED
  BY <1>4, <1>5, Zenon DEF Good, IInv, CursorStep

(* A read begins. *)
LEMMA SysReadGood ==
  ASSUME IInv, NEW p \in Proc, NEW k \in Sizes, SysRead(p, k)
  PROVE  Good
<1>1. UNCHANGED input /\ UNCHANGED <<buf, r, w, e, pos, shift, wire, down, killed>>
  BY Zenon DEF SysRead, input, keyboard
<1>2. TypeInv /\ SleepInv /\ k \in Nat
  BY Constants, Zenon DEF IInv
<1>3. got' = [got EXCEPT ![p] = <<>>]
  BY Zenon DEF SysRead
<1>4. /\ pc' \in [Proc -> {"user", "read", "tosleep", "sleep"}] /\ n' \in [Proc -> Nat]
      /\ \A q \in Proc : pc'[q] \in {"tosleep", "sleep"} => pc[q] \in {"tosleep", "sleep"}
  BY <1>2, Zenon DEF SysRead, TypeInv
<1>5. got' \in [Proc -> Seq(Text)]
  <2>1. <<>> \in Seq(Text)
    OBVIOUS
  <2>2. got \in [Proc -> Seq(Text)]
    BY <1>2, Zenon DEF TypeInv
  <2> QED
    BY <1>3, <2>1, <2>2, Zenon
<1>6. TtyStep
  <2>1. NewReady = ready /\ NewLine = line
    BY <1>1, Zenon DEF NewReady, NewLine, ready, line, Part, Minus
  <2>2. Abs!Begin(p)
    BY <1>3, <2>1, AbsVars, Zenon DEF Abs!Begin
  <2> QED
    BY <2>2, Zenon DEF TtyStep, Abs!Next
<1>7. RingInv' /\ CursorStep /\ KeyInv'
  BY <1>1, Kept, Zenon
<1>8. TypeInv' /\ SleepInv'
  BY <1>1, <1>2, <1>4, <1>5, ZenonT(60) DEF TypeInv, SleepInv
<1> QED
  BY <1>6, <1>7, <1>8, Zenon DEF Good, IInv, CursorStep


--------------------------------------------------------------------------------
(* consoleread() with k bytes copied, and j of the ring consumed. *)
Done(p, k) == k = n[p] \/ (k > 0 /\ ready[k] = "\n")
AtEof(p, k) == ~ Done(p, k) /\ k < Minus(w, r) /\ ready[k + 1] = "^D"
Returns(p, k) == Done(p, k) \/ AtEof(p, k) \/ p \in killed
Consumed(p, k) == k + IF AtEof(p, k) /\ ~ SaveEof(p, k) THEN 1 ELSE 0

ReadOf(p, k) ==
  /\ k <= n[p]
  /\ \A i \in 1 .. k : ready[i] # "^D" /\ (i < k => ready[i] # "\n")
  /\ Done(p, k) \/ AtEof(p, k) \/ k = Minus(w, r)
  /\ r' = (r + Consumed(p, k)) % UINT
  /\ got' = [got EXCEPT ![p] = @ \o SubSeq(ready, 1, k)]
  /\ n' = [n EXCEPT ![p] = IF Returns(p, k) THEN 0 ELSE @ - k]
  /\ pc' = [pc EXCEPT ![p] = IF Returns(p, k) THEN "user" ELSE "tosleep"]

(* ConsoleRead(p) is ReadOf(p, k) for some k. *)
LEMMA ReadIs ==
  ASSUME IInv, NEW p \in Proc, ConsoleRead(p)
  PROVE  /\ Unlocked /\ killed' = killed \ {p}
         /\ UNCHANGED <<buf, w, e, pos, shift, wire, down>>
         /\ \E k \in 0 .. Minus(w, r) : ReadOf(p, k)
<1>1. Ring(r, w) = ready
  BY AbsVars, Zenon
<1>a. TypeInv /\ RingInv /\ r \in Index
  BY Zenon DEF IInv, TypeInv
<1>2. Minus(w, r) \in Nat /\ r \in Nat
  BY <1>a, Lengths DEF Index
<1>3. ASSUME NEW k \in 0 .. Minus(w, r)
      PROVE  r + Consumed(p, k) = r + k + IF AtEof(p, k) /\ ~ SaveEof(p, k) THEN 1 ELSE 0
  BY <1>2, SMTT(60) DEF Consumed
<1>4. \E k \in 0 .. Minus(w, r) : ReadOf(p, k)
  BY <1>1, <1>3, ZenonT(60) DEF ConsoleRead, ReadOf, Done, AtEof, Returns
<1> QED
  BY <1>4, Zenon DEF ConsoleRead, keyboard

(* A read consumes no more than there is, and all when it goes to sleep. *)
LEMMA ReadCounts ==
  ASSUME IInv, NEW p \in Proc, NEW k \in 0 .. Minus(w, r)
  PROVE  /\ k \in Nat /\ Minus(w, r) \in Nat
         /\ Consumed(p, k) \in 0 .. Minus(w, r)
         /\ k = Minus(w, r) => Consumed(p, k) = k
         /\ SubSeq(ready, 1, k) = [i \in 1 .. k |-> ready[i]]
         /\ SubSeq(ready, 1, k) \in Seq(Text)
<1>1. ready \in Seq(Text) /\ Len(ready) = Minus(w, r) /\ Minus(w, r) \in Nat
  BY Lengths, Zenon DEF IInv
<1>2. k \in Nat /\ Consumed(p, k) \in 0 .. Minus(w, r) /\ (k = Minus(w, r) => Consumed(p, k) = k)
  BY <1>1 DEF Consumed, AtEof
<1>3. k \in 0 .. Len(ready)
  BY <1>1, Zenon
<1>4. SubSeq(ready, 1, k) = [i \in 1 .. k |-> ready[i]]
  BY <1>1, <1>3, SubSeqFacts, Zenon
<1>5. \A i \in 1 .. k : ready[i] \in Text
  BY <1>1, <1>2
<1>6. [i \in 1 .. k |-> ready[i]] \in Seq(Text)
  BY <1>2, <1>5
<1> QED
  BY <1>1, <1>2, <1>4, <1>6, Zenon

(* What a read does is a Read, a ReadEof or nothing for AbsConsole. *)
LEMMA ReadTty ==
  ASSUME IInv, NEW p \in Proc, NEW k \in 0 .. Minus(w, r), ReadOf(p, k),
         NewReady = SubSeq(ready, Consumed(p, k) + 1, Len(ready)), NewLine = line
  PROVE  TtyStep
<1>1. /\ ready \in Seq(Text) /\ Len(ready) = Minus(w, r) /\ Minus(w, r) \in Nat
      /\ Minus(e, w) \in Nat
  BY Lengths, Zenon DEF IInv
<1>2. k \in Nat /\ SubSeq(ready, 1, k) \in Seq(Text)
  BY ReadCounts, Zenon
<1>3. got' = [got EXCEPT ![p] = @ \o SubSeq(ready, 1, k)]
  BY Zenon DEF ReadOf
<1>4. got \in [Proc -> Seq(Text)] /\ got[p] \in Seq(Text)
  BY Zenon DEF IInv, TypeInv
<1>5. k = 0 => got' = got
  <2>1. k = 0 => SubSeq(ready, 1, k) = <<>>
    BY <1>1
  <2>2. got[p] \o <<>> = got[p]
    BY <1>4
  <2> QED
    BY <1>3, <1>4, <2>1, <2>2, Zenon
<1>6. CASE AtEof(p, k) /\ ~ SaveEof(p, k)
  <2>1. got[p] = <<>> /\ k = 0 /\ ready[k + 1] = "^D" /\ 0 < Len(ready)
    BY <1>1, <1>2, <1>6 DEF SaveEof, AtEof
  <2>2. Consumed(p, k) + 1 = 2
    BY <1>6, <2>1 DEF Consumed
  <2>3. ready # <<>> /\ Head(ready) = "^D" /\ NewReady = Tail(ready)
    BY <1>1, <2>1, <2>2
  <2>4. Abs!ReadEof(p)
    BY <1>5, <2>1, <2>3, AbsVars, Zenon DEF Abs!ReadEof
  <2> QED
    BY <2>4, Zenon DEF TtyStep, Abs!Next
<1>7. CASE ~ (AtEof(p, k) /\ ~ SaveEof(p, k))
  <2>1. Consumed(p, k) = k
    BY <1>2, <1>7 DEF Consumed
  <2>2. CASE k = 0
    <3>1. NewReady = ready
      BY <1>1, <2>1, <2>2
    <3> QED
      BY <1>5, <2>2, <3>1, AbsVars, Zenon DEF TtyStep
  <2>3. CASE k # 0
    <3>1. k \in 1 .. INPUT_BUF /\ k <= Len(ready)
      BY <1>1, <1>2, <2>3, Constants DEF IInv, RingInv
    <3>2. \A i \in 1 .. k : ready[i] # "^D" /\ (ready[i] = "\n" => i = k)
      BY <1>2 DEF ReadOf
    <3>3. Abs!Read(p, k)
      BY <1>3, <2>1, <3>1, <3>2, AbsVars, Zenon DEF Abs!Read
    <3> QED
      BY <3>1, <3>3, Zenon DEF TtyStep, Abs!Next
  <2> QED
    BY <2>2, <2>3, Zenon
<1> QED
  BY <1>6, <1>7, Zenon

(* consoleread() up to its return or its sleep. *)
LEMMA ConsoleReadGood ==
  ASSUME IInv, NEW p \in Proc, ConsoleRead(p)
  PROVE  Good
<1>1. /\ Unlocked /\ killed' = killed \ {p}
      /\ UNCHANGED <<buf, w, e, pos, shift, wire, down>>
      /\ \E k \in 0 .. Minus(w, r) : ReadOf(p, k)
  BY ReadIs, Zenon
<1>2. PICK k \in 0 .. Minus(w, r) : ReadOf(p, k)
  BY <1>1, Zenon
<1>3. /\ k \in Nat /\ Minus(w, r) \in Nat
      /\ Consumed(p, k) \in 0 .. Minus(w, r) /\ (k = Minus(w, r) => Consumed(p, k) = k)
      /\ SubSeq(ready, 1, k) \in Seq(Text)
  BY ReadCounts, Zenon
<1>4. TypeInv /\ RingInv /\ SleepInv
  BY Zenon DEF IInv
<1>5. r' = (r + Consumed(p, k)) % UINT
  BY <1>2, Zenon DEF ReadOf
<1>6. /\ r' \in Index /\ RingInv' /\ Minus(w, r') = Minus(w, r) - Consumed(p, k)
      /\ NewReady = SubSeq(ready, Consumed(p, k) + 1, Len(ready)) /\ NewLine = line
  BY <1>1, <1>3, <1>4, <1>5, PopRing, Zenon
<1>7. TtyStep
  BY <1>2, <1>6, ReadTty, ZenonT(60)
<1>8. k = Minus(w, r) => r' = w
  <2>1. w \in Index
    BY <1>4, Zenon DEF TypeInv
  <2>2. k = Minus(w, r) => Minus(w, r') = 0
    BY <1>3, <1>6
  <2> QED
    BY <1>6, <2>1, <2>2, MinusIs, Zenon
<1>9. n' \in [Proc -> Nat] /\ pc' \in [Proc -> {"user", "read", "tosleep", "sleep"}]
  <2>1. n \in [Proc -> Nat] /\ pc \in [Proc -> {"user", "read", "tosleep", "sleep"}]
    BY <1>4, Zenon DEF TypeInv
  <2>2. /\ k <= n[p]
        /\ n' = [n EXCEPT ![p] = IF Returns(p, k) THEN 0 ELSE n[p] - k]
        /\ pc' = [pc EXCEPT ![p] = IF Returns(p, k) THEN "user" ELSE "tosleep"]
    BY <1>2, Zenon DEF ReadOf
  <2>3. (IF Returns(p, k) THEN 0 ELSE n[p] - k) \in Nat
    BY <1>3, <2>1, <2>2
  <2>4. n' \in [Proc -> Nat]
    BY <2>1, <2>2, <2>3, Zenon
  <2> QED
    BY <2>1, <2>2, <2>4, Zenon
<1>10. got' \in [Proc -> Seq(Text)]
  <2>1. got \in [Proc -> Seq(Text)] /\ got[p] \in Seq(Text)
    BY <1>4, Zenon DEF TypeInv
  <2>2. got[p] \o SubSeq(ready, 1, k) \in Seq(Text)
    BY <2>1, <1>3, CatFacts, Zenon
  <2>3. got' = [got EXCEPT ![p] = got[p] \o SubSeq(ready, 1, k)]
    BY <1>2, Zenon DEF ReadOf
  <2> QED
    BY <2>1, <2>2, <2>3, Zenon
<1>11. TypeInv'
  BY <1>1, <1>4, <1>6, <1>9, <1>10, Zenon DEF TypeInv
<1>12. ASSUME NEW q \in Proc, pc'[q] \in {"tosleep", "sleep"} PROVE r' = w'
  <2>1. CASE q = p
    <3>1. ~ Returns(p, k)
      BY <1>2, <1>4, <1>12, <2>1, Zenon DEF ReadOf, TypeInv
    <3>2. k = Minus(w, r)
      BY <1>2, <3>1, Zenon DEF ReadOf, Returns
    <3> QED
      BY <1>1, <1>8, <3>2, Zenon
  <2>2. CASE q # p
    <3>1. pc[q] \in {"tosleep", "sleep"}
      BY <1>2, <1>4, <1>12, <2>2, Zenon DEF ReadOf, TypeInv
    <3>2. r = w /\ w \in Index
      BY <3>1, <1>4, Zenon DEF SleepInv, TypeInv
    <3>3. Minus(w, r) = 0
      BY <3>2, MinusIs, Zenon
    <3> QED
      BY <1>1, <1>3, <1>8, <3>3
  <2> QED
    BY <2>1, <2>2, Zenon
<1>13. SleepInv'
  BY <1>12, Zenon DEF SleepInv
<1>14. CursorStep /\ KeyInv'
  BY <1>1, Kept, Zenon
<1> QED
  BY <1>6, <1>7, <1>11, <1>13, <1>14, Zenon DEF Good, IInv, CursorStep


--------------------------------------------------------------------------------
(* The invariant is inductive, and every step is one of AbsConsole. *)
LEMMA InitGood ==
  ASSUME Init
  PROVE  IInv /\ Ring(r, w) = <<>> /\ Ring(w, e) = <<>>
<1>1. r = 0 /\ w = 0 /\ e = 0 /\ 0 \in Index /\ Minus(0, 0) = 0
  <2>1. 0 \in Index
    BY Constants DEF Index
  <2>2. Minus(0, 0) = 0
    BY <2>1, MinusIs, Zenon
  <2> QED
    BY <2>1, <2>2, Zenon DEF Init
<1>2. buf \in Cells
  BY Zenon DEF Init, Cells, Text
<1>3. Part(buf, 0, 0) = <<>>
  BY <1>1, <1>2, PartEmpty, Zenon
<1>4. RingInv
  BY <1>1, Constants DEF RingInv
<1>5. pos \in Nat /\ OnScreen
  <2>1. PICK m \in Nat : m = ROWS * COLS
    BY Screen
  <2>2. pos \in 0 .. m - 1 /\ OnScreen
    BY <2>1, Zenon DEF Init, OnScreen
  <2> QED
    BY <2>2
<1>6. got \in [Proc -> Seq(Text)]
  <2>1. <<>> \in Seq(Text)
    OBVIOUS
  <2> QED
    BY <2>1, Zenon DEF Init
<1>7. TypeInv /\ SleepInv /\ KeyInv
  <2>1. n \in [Proc -> Nat]
    BY Zenon DEF Init
  <2>2. pc \in [Proc -> {"user", "read", "tosleep", "sleep"}] /\ killed \subseteq Proc
    BY Zenon DEF Init
  <2>3. /\ shift \subseteq {"CTL", "E0ESC"} /\ wire \in {"", "press", "release"}
        /\ down \subseteq Control /\ KeyInv
    BY Zenon DEF Init, KeyInv
  <2>4. TypeInv
    BY <1>1, <1>2, <1>5, <1>6, <2>1, <2>2, <2>3, Zenon DEF TypeInv
  <2> QED
    BY <1>1, <2>3, <2>4, Zenon DEF SleepInv
<1> QED
  BY <1>1, <1>3, <1>4, <1>5, <1>7, RingPart, Zenon DEF IInv

(* Every step. *)
LEMMA NextGood ==
  ASSUME IInv, [Next]_vars
  PROVE  Good
<1>1. ASSUME NEW c \in Letters \cup {"x", "\n", ""}, UartIntr(c) PROVE Good
  BY <1>1, UartIntrGood, Zenon
<1>2. ASSUME NEW c \in {"x", "\n"}, ConsoleWrite(c) PROVE Good
  BY <1>2, ConsoleWriteGood, Zenon
<1>3. ASSUME NEW kind \in {"press", "release"}, KbdE0(kind) PROVE Good
  BY <1>3, KbdGood, Zenon
<1>4. ASSUME NEW key \in Letters \cup {"\n"} \cup Control, KbdPress(key) PROVE Good
  BY <1>4, KbdPressGood, Zenon
<1>5. ASSUME NEW key \in Control, KbdRelease(key) PROVE Good
  BY <1>5, KbdGood, Zenon
<1>6. ASSUME NEW p \in Proc, NEW k \in Sizes, SysRead(p, k) PROVE Good
  BY <1>6, SysReadGood, Zenon
<1>7. ASSUME NEW p \in Proc, ConsoleRead(p) PROVE Good
  BY <1>7, ConsoleReadGood, Zenon
<1>8. ASSUME NEW p \in Proc, Sleep(p) \/ Kill(p) PROVE Good
  BY <1>8, SleepKillGood, Zenon
<1>9. CASE UNCHANGED vars
  <2>1. UNCHANGED input /\ UNCHANGED <<buf, r, w, e, pos, shift, wire, down, pc, n, got, killed>>
    BY <1>9, Zenon DEF vars, input, keyboard, readers
  <2>2. RingInv' /\ CursorStep /\ KeyInv' /\ TtyStep
    BY <2>1, Kept, Zenon
  <2>3. TypeInv' /\ SleepInv'
    BY <2>1, Zenon DEF IInv, TypeInv, SleepInv
  <2> QED
    BY <2>2, <2>3, Zenon DEF Good, IInv, CursorStep
<1> QED
  BY <1>1, <1>2, <1>3, <1>4, <1>5, <1>6, <1>7, <1>8, <1>9, Zenon DEF Next

(* The inductive invariant holds in every behaviour of Console. *)
THEOREM Invariance == Spec => []IInv
<1>1. Init => IInv
  BY InitGood, Zenon
<1>2. IInv /\ [Next]_vars => IInv'
  BY NextGood, Zenon DEF Good
<1> QED
  BY <1>1, <1>2, PTL DEF Spec

(***************************************************************************)
(* A reader sleeps only while there is nothing to read: the wakeup of      *)
(* consoleintr() is never lost, and a ^D pushed back by one reader is seen *)
(* by the next, for any number of readers.                                 *)
(***************************************************************************)
THEOREM SleepAlwaysJustified == Spec => []SleepJustified
<1>1. IInv => SleepJustified
  BY Zenon DEF IInv, SleepInv, SleepJustified
<1> QED
  BY <1>1, Invariance, PTL

(***************************************************************************)
(* For any size of the screen and wherever the boot left the cursor, it    *)
(* stays on the screen, cgaputc() never panics, and a cursor above the     *)
(* last line never gets into it.                                           *)
(***************************************************************************)
THEOREM CursorStaysOnScreen == Spec => CursorOK
<1>1. IInv => pos \in 0 .. ROWS * COLS - 1
  BY Zenon DEF IInv, OnScreen
<1>2. IInv /\ [Next]_vars
        => [pos < (ROWS - 1) * COLS => pos' < (ROWS - 1) * COLS]_pos
  BY NextGood, Zenon DEF Good, CursorStep, Above
<1> QED
  BY <1>1, <1>2, Invariance, PTL DEF Spec, CursorOK

(* kbdgetc() forgets every modifier once no control key is down. *)
THEOREM NoModifierSticks == Spec => []NoStuckModifier
<1>1. IInv => NoStuckModifier
  BY Zenon DEF IInv, TypeInv, KeyInv, NoStuckModifier
<1> QED
  BY <1>1, Invariance, PTL

(***************************************************************************)
(* For any number of readers, any size of the ring and any width of its    *)
(* indices that is a multiple of it, consoleintr() and consoleread()       *)
(* implement the line editing of AbsConsole.                               *)
(***************************************************************************)
THEOREM Refinement == Spec => ImplementsTty
<1>1. Init => Abs!Init
  BY InitGood, Zenon DEF Init, Abs!Init
<1>2. IInv /\ [Next]_vars => [Abs!Next]_<<Ring(w, e), Ring(r, w), got>>
  BY NextGood, Zenon DEF Good, TtyStep
<1> QED
  BY <1>1, <1>2, Invariance, PTL DEF Spec, ImplementsTty, Abs!Spec
================================================================================
