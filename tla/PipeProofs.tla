------------------------------- MODULE PipeProofs -------------------------------
(***************************************************************************)
(* Proofs about Pipe: the steps preserve the part of its invariant about   *)
(* rings and sleepers, so references are exact, bytes come in order and    *)
(* nobody sleeps without reason, for any constants that satisfy            *)
(* PipeAssumption.                                                         *)
(***************************************************************************)
EXTENDS PipeInvariant

--------------------------------------------------------------------------------
(* Remainders by any modulus. *)

(* What remainders are. *)
LEMMA ModRange ==
  ASSUME NEW m \in Nat, 0 < m, NEW a \in Nat
  PROVE  a % m \in Nat /\ a % m < m
  OBVIOUS

(* A remainder is the part below the modulus. *)
LEMMA ModIs ==
  ASSUME NEW m \in Nat, 0 < m, NEW q \in Nat, NEW x \in Nat, x < m
  PROVE  (m * q + x) % m = x
  OBVIOUS

(* Below the modulus, or once around. *)
LEMMA ModSmall ==
  ASSUME NEW m \in Nat, NEW a \in Nat, a < m
  PROVE  a % m = a /\ (a + m) % m = a
  OBVIOUS

(* A number is a multiple of the modulus and its remainder. *)
LEMMA ModQuotient ==
  ASSUME NEW m \in Nat, 0 < m, NEW a \in Nat
  PROVE  \E q \in Nat : a = m * q + (a % m)
<1>1. a \div m \in Nat
  OBVIOUS
<1>2. a = m * (a \div m) + (a % m)
  OBVIOUS
<1> QED
  BY <1>1, <1>2, Zenon

(* A multiple of the modulus makes no difference. *)
LEMMA ModPlus ==
  ASSUME NEW m \in Nat, 0 < m, NEW u \in Nat, u % m = 0, NEW a \in Nat
  PROVE  (a + u) % m = a % m
<1>1. PICK q \in Nat : a = m * q + (a % m)
  BY ModQuotient, Zenon
<1>2. PICK k \in Nat : u = m * k + (u % m)
  BY ModQuotient, Zenon
<1>3. PICK x \in Nat : x = a % m /\ x < m
  BY ModRange, Zenon
<1>4. a + u = m * (q + k) + x
  <2>1. a = m * q + x /\ u = m * k
    BY <1>1, <1>2, <1>3
  <2>2. m * (q + k) = m * q + m * k
    OBVIOUS
  <2> QED
    BY <2>1, <2>2
<1>5. PICK y \in Nat : y = q + k
  OBVIOUS
<1>6. (m * y + x) % m = x
  BY <1>3, ModIs, Zenon
<1> QED
  BY <1>3, <1>4, <1>5, <1>6, Zenon

(* Solving for a remainder. *)
LEMMA ModSolve ==
  ASSUME NEW m \in Nat, 0 < m, NEW x \in Nat, x < m, NEW y \in Int, NEW n \in Nat, n = m * y + x
  PROVE  n % m = x
<1>1. y < 0 => m * y <= 0 - m
  OBVIOUS
<1>2. y \in Nat
  BY <1>1
<1> QED
  BY <1>2, ModIs, Zenon

(* The remainder of a sum. *)
LEMMA ModAdd ==
  ASSUME NEW m \in Nat, 0 < m, NEW a \in Nat, NEW b \in Nat
  PROVE  ((a % m) + b) % m = (a + b) % m
<1>1. PICK x \in Nat : x = a % m
  BY ModRange
<1>2. PICK q \in Nat : a = m * q + x
  BY <1>1, ModQuotient, Zenon
<1>3. PICK z \in Nat : z = (x + b) % m /\ z < m
  BY ModRange
<1>4. PICK k \in Nat : x + b = m * k + z
  <2>1. x + b \in Nat
    OBVIOUS
  <2> QED
    BY <1>3, <2>1, ModQuotient, Zenon
<1>5. PICK y \in Nat : y = q + k
  OBVIOUS
<1>6. a + b = m * y + z
  <2>1. m * (q + k) = m * q + m * k
    OBVIOUS
  <2> QED
    BY <1>2, <1>4, <1>5, <2>1
<1>7. (m * y + z) % m = z
  BY <1>3, ModIs, Zenon
<1> QED
  BY <1>1, <1>3, <1>6, <1>7, Zenon

--------------------------------------------------------------------------------

(***************************************************************************)
(* The ring: nread and nwrite wrap around at UINT, a multiple of PIPESIZE. *)
(***************************************************************************)
Ordered(r) ==
  /\ Held(r) <= PIPESIZE
  /\ (r.seen + Held(r)) % Byte = r.sent
  /\ \A k \in 0 .. Held(r) - 1 : r.data[(r.nread + k) % PIPESIZE] = (r.seen + k) % Byte

(* Two indices, and the distance from one to the other. *)
LEMMA Distance ==
  ASSUME NEW a \in Index, NEW b \in Index
  PROVE  (b + UINT - a) % UINT = IF a <= b THEN b - a ELSE b + UINT - a
<1>1. a \in Nat /\ b \in Nat /\ UINT \in Nat /\ a < UINT /\ b < UINT
  BY Constants DEF Index
<1>2. CASE a <= b
  <2>1. PICK x \in Nat : x = b - a /\ x < UINT
    BY <1>1, <1>2
  <2>2. (x + UINT) % UINT = x
    BY <1>1, <2>1, ModSmall, ZenonT(60)
  <2>3. b + UINT - a = x + UINT
    BY <1>1, <2>1
  <2> QED
    BY <1>2, <2>1, <2>2, <2>3, Zenon
<1>3. CASE ~ (a <= b)
  <2>1. PICK x \in Nat : x = b + UINT - a /\ x < UINT
    BY <1>1, <1>3
  <2>2. x % UINT = x
    BY <1>1, <2>1, ModSmall, ZenonT(60)
  <2> QED
    BY <1>3, <2>1, <2>2, Zenon
<1> QED
  BY <1>2, <1>3, Zenon

(* An index that moves on. *)
LEMMA Advance ==
  ASSUME NEW a \in Index, NEW k \in Nat, k <= PIPESIZE
  PROVE  /\ (a + k) % UINT \in Index
         /\ (a + k) % UINT = IF a + k < UINT THEN a + k ELSE a + k - UINT
<1>1. a \in Nat /\ UINT \in Nat /\ a < UINT /\ k < UINT
  BY Constants DEF Index
<1>2. CASE a + k < UINT
  <2>1. PICK x \in Nat : x = a + k /\ x < UINT
    BY <1>1, <1>2
  <2>2. x % UINT = x
    BY <1>1, <2>1, ModSmall, Zenon
  <2> QED
    BY <1>1, <1>2, <2>1, <2>2 DEF Index
<1>3. CASE ~ (a + k < UINT)
  <2>1. PICK x \in Nat : x = a + k - UINT /\ x < UINT
    BY <1>1, <1>3
  <2>2. (x + UINT) % UINT = x
    BY <1>1, <2>1, ModSmall
  <2>3. a + k = x + UINT
    BY <1>1, <2>1
  <2> QED
    BY <1>1, <1>3, <2>1, <2>2, <2>3 DEF Index
<1> QED
  BY <1>2, <1>3, Zenon

(* Held(r), without remainders. *)
LEMMA HeldIs ==
  ASSUME NEW r \in RingType
  PROVE  /\ Held(r) = IF r.nread <= r.nwrite THEN r.nwrite - r.nread ELSE r.nwrite + UINT - r.nread
         /\ Held(r) \in Nat
         /\ Held(r) = 0 <=> r.nread = r.nwrite
<1>1. PICK a \in Index, b \in Index : a = r.nread /\ b = r.nwrite
  BY RingFields, Zenon
<1>2. Held(r) = IF a <= b THEN b - a ELSE b + UINT - a
  BY <1>1, Distance, Zenon DEF Held
<1>3. a \in Nat /\ b \in Nat /\ UINT \in Nat /\ a < UINT /\ b < UINT
  BY Constants DEF Index
<1> QED
  BY <1>1, <1>2, <1>3

(* What is not held is room. *)
LEMMA RoomIs ==
  ASSUME NEW r \in RingType, Held(r) <= PIPESIZE
  PROVE  Room(r) = PIPESIZE - Held(r)
<1>1. PICK a \in Index, b \in Index : a = r.nread /\ b = r.nwrite
  BY RingFields, Zenon
<1>2. PICK h \in Nat : h = Held(r) /\ h = IF a <= b THEN b - a ELSE b + UINT - a
  BY <1>1, HeldIs, Zenon
<1>3. /\ a \in Nat /\ b \in Nat /\ UINT \in Nat /\ a < UINT /\ b < UINT
      /\ PIPESIZE \in Nat /\ PIPESIZE < UINT
  BY Constants DEF Index
<1>4. PICK x \in Nat : x = PIPESIZE - h /\ x < UINT
  BY <1>2, <1>3
<1>5. PICK n \in Nat : n = a + PIPESIZE + UINT - b
  BY <1>3
<1>6. n = UINT * 1 + x \/ n = UINT * 2 + x
  BY <1>2, <1>3, <1>4, <1>5
<1>7. n % UINT = x
  BY <1>3, <1>4, <1>6, ModSolve
<1> QED
  BY <1>1, <1>2, <1>4, <1>5, <1>7, Zenon DEF Room

(* Where the byte t after nread is, counted from nwrite. *)
LEMMA CellIs ==
  ASSUME NEW a \in Index, NEW b \in Index, NEW h \in Nat, h <= PIPESIZE,
         h = IF a <= b THEN b - a ELSE b + UINT - a, NEW t \in Nat, t < PIPESIZE
  PROVE  (((a + t) % PIPESIZE) + UINT - b) % PIPESIZE = IF t < h THEN PIPESIZE - h + t ELSE t - h
<1>1. /\ a \in Nat /\ b \in Nat /\ UINT \in Nat /\ b < UINT
      /\ PIPESIZE \in Nat /\ 0 < PIPESIZE /\ UINT % PIPESIZE = 0
  BY Constants DEF Index
<1>2. PICK c \in Nat : c = (a + t) % PIPESIZE
  BY <1>1, ModRange
<1>3. PICK q \in Nat : a + t = PIPESIZE * q + c
  <2>1. a + t \in Nat
    BY <1>1
  <2> QED
    BY <1>1, <1>2, <2>1, ModQuotient, ZenonT(60)
<1>4. PICK w \in Nat : UINT = PIPESIZE * w + 0
  BY <1>1, ModQuotient, Zenon
<1>5. PICK n \in Nat : n = c + UINT - b
  BY <1>1
<1>6. PICK v \in Int : n = PIPESIZE * v + t - h
  <2>1. CASE a <= b
    <3>1. n = (PIPESIZE * w - PIPESIZE * q) + t - h
      BY <1>1, <1>3, <1>4, <1>5, <2>1
    <3>2. PIPESIZE * (w - q) = PIPESIZE * w - PIPESIZE * q
      BY <1>1
    <3>3. w - q \in Int
      OBVIOUS
    <3> QED
      BY <3>1, <3>2, <3>3, Zenon
  <2>2. CASE ~ (a <= b)
    <3>1. n = (PIPESIZE * w + PIPESIZE * w - PIPESIZE * q) + t - h
      BY <1>1, <1>3, <1>4, <1>5, <2>2
    <3>2. PIPESIZE * (w + w - q) = PIPESIZE * w + PIPESIZE * w - PIPESIZE * q
      BY <1>1
    <3>3. w + w - q \in Int
      OBVIOUS
    <3> QED
      BY <3>1, <3>2, <3>3, Zenon
  <2> QED
    BY <2>1, <2>2, Zenon
<1>7. CASE t < h
  <2>0. PIPESIZE - h + t \in Nat /\ PIPESIZE - h + t < PIPESIZE
    BY <1>1, <1>7
  <2>1. PICK x \in Nat : x = PIPESIZE - h + t /\ x < PIPESIZE
    BY <2>0, Zenon
  <2>2. PIPESIZE * (v - 1) = PIPESIZE * v - PIPESIZE
    BY <1>1
  <2>3. PICK y \in Int : y = v - 1
    OBVIOUS
  <2>4. n = PIPESIZE * y + x
    BY <1>1, <1>6, <2>1, <2>2, <2>3
  <2>5. n % PIPESIZE = x
    <3>1. PIPESIZE \in Nat /\ 0 < PIPESIZE /\ x < PIPESIZE
      BY <1>1, <2>1, Zenon
    <3> QED
      BY <2>4, <3>1, ModSolve, ZenonT(60)
  <2> QED
    BY <1>2, <1>5, <1>7, <2>1, <2>5
<1>8. CASE ~ (t < h)
  <2>0. t - h \in Nat /\ t - h < PIPESIZE
    BY <1>1, <1>8
  <2>1. PICK x \in Nat : x = t - h /\ x < PIPESIZE
    BY <2>0, Zenon
  <2>2. n = PIPESIZE * v + x
    BY <1>1, <1>6, <2>1, Zenon
  <2>3. n % PIPESIZE = x
    <3>1. PIPESIZE \in Nat /\ 0 < PIPESIZE /\ x < PIPESIZE
      BY <1>1, <2>1, Zenon
    <3> QED
      BY <2>2, <3>1, ModSolve, ZenonT(60)
  <2> QED
    BY <1>2, <1>5, <1>8, <2>1, <2>3, Zenon
<1> QED
  BY <1>7, <1>8, Zenon


(* The fields of Stored(r, k) and Taken(r, k). *)
Nth(r, j) == (j + UINT - r.nwrite) % PIPESIZE

IsStored(s, r, k) ==
  /\ s \in RingType /\ s.open = r.open /\ s.nread = r.nread /\ s.seen = r.seen
  /\ s.nwrite = (r.nwrite + k) % UINT /\ s.sent = (r.sent + k) % Byte
  /\ \A j \in Cell : s.data[j] = IF Nth(r, j) < k THEN (r.sent + Nth(r, j)) % Byte ELSE r.data[j]

(* Stored(r, k) is a ring, field by field. *)
LEMMA StoredFields ==
  ASSUME NEW r \in RingType, NEW k \in Nat, k <= PIPESIZE, NEW s, s = Stored(r, k)
  PROVE  IsStored(s, r, k)
<1>1. /\ r.open \in SUBSET End /\ r.nread \in Index /\ r.nwrite \in Index
      /\ r.data \in [Cell -> Number] /\ r.sent \in Number /\ r.seen \in Number
  BY RingFields, Zenon
<1>2. PICK d : d = [j \in Cell |-> IF Nth(r, j) < k THEN (r.sent + Nth(r, j)) % Byte ELSE r.data[j]]
  BY Zenon
<1>3. s = [r EXCEPT !.nwrite = (r.nwrite + k) % UINT, !.data = d, !.sent = (r.sent + k) % Byte]
  BY <1>2, Zenon DEF Stored, Cell, Nth
<1>4. (r.nwrite + k) % UINT \in Index
  BY <1>1, Advance, Zenon
<1>5. ASSUME NEW n \in Nat PROVE (r.sent + n) % Byte \in Number
  BY <1>1, Constants, ModRange DEF Number
<1>6. \A j \in Cell : Nth(r, j) \in Nat
  <2>1. ASSUME NEW j \in Cell PROVE Nth(r, j) \in Nat
    <3>1. j + UINT - r.nwrite \in Nat /\ PIPESIZE \in Nat /\ 0 < PIPESIZE
      BY <1>1, Constants DEF Cell, Index
    <3> QED
      BY <3>1, ModRange, Zenon DEF Nth
  <2> QED
    BY <2>1, Zenon
<1>7. d \in [Cell -> Number]
  BY <1>1, <1>2, <1>5, <1>6, Zenon
<1>8. (r.sent + k) % Byte \in Number
  BY <1>5, Zenon
<1>9. PICK b \in Index, n \in Number : b = (r.nwrite + k) % UINT /\ n = (r.sent + k) % Byte
  BY <1>4, <1>8
<1>10. s = [r EXCEPT !.nwrite = b, !.data = d, !.sent = n]
  BY <1>3, <1>9, Zenon
<1>11. /\ s \in RingType /\ s.open = r.open /\ s.nread = r.nread /\ s.seen = r.seen
       /\ s.nwrite = b /\ s.sent = n /\ s.data = d
  BY <1>7, <1>10, ZenonT(60) DEF RingType
<1> QED
  BY <1>2, <1>9, <1>11, Zenon DEF IsStored

(* Taken(r, k) is a ring, field by field. *)
LEMMA TakenFields ==
  ASSUME NEW r \in RingType, NEW k \in Nat, k <= PIPESIZE, NEW s, s = Taken(r, k)
  PROVE  /\ s \in RingType /\ s.open = r.open /\ s.nwrite = r.nwrite /\ s.sent = r.sent
         /\ s.nread = (r.nread + k) % UINT /\ s.seen = (r.seen + k) % Byte /\ s.data = r.data
<1>1. r.nread \in Index /\ r.seen \in Number
  BY RingFields
<1>2. (r.nread + k) % UINT \in Index
  BY <1>1, Advance, Zenon
<1>3. (r.seen + k) % Byte \in Number
  BY <1>1, Constants, ModRange DEF Number
<1>4. PICK a \in Index, n \in Number : a = (r.nread + k) % UINT /\ n = (r.seen + k) % Byte
  BY <1>2, <1>3, Zenon
<1>5. s = [r EXCEPT !.nread = a, !.seen = n]
  BY <1>4, Zenon DEF Taken
<1>6. /\ s \in RingType /\ s.open = r.open /\ s.nwrite = r.nwrite /\ s.sent = r.sent
      /\ s.nread = a /\ s.seen = n /\ s.data = r.data
  BY <1>5, ZenonT(60) DEF RingType
<1> QED
  BY <1>4, <1>6, Zenon

(* Bytes stored come after those held. *)
LEMMA StoredOrdered ==
  ASSUME NEW r \in RingType, Ordered(r), NEW k \in Nat, k <= Room(r), NEW s, s = Stored(r, k)
  PROVE  /\ s \in RingType /\ s.open = r.open /\ Ordered(s)
         /\ Held(s) = Held(r) + k /\ Held(s) <= PIPESIZE
<1>1. PICK a \in Index, b \in Index, h \in Nat :
        /\ a = r.nread /\ b = r.nwrite /\ h = Held(r) /\ h <= PIPESIZE
        /\ h = IF a <= b THEN b - a ELSE b + UINT - a
  BY RingFields, HeldIs DEF Ordered
<1>2. /\ a \in Nat /\ b \in Nat /\ UINT \in Nat /\ a < UINT /\ b < UINT
      /\ PIPESIZE \in Nat /\ 0 < PIPESIZE /\ PIPESIZE < UINT /\ Byte \in Nat /\ 0 < Byte
  BY Constants DEF Index
<1>3. h + k <= PIPESIZE /\ k <= PIPESIZE
  <2>1. Room(r) = PIPESIZE - h
    BY <1>1, RoomIs, ZenonT(60)
  <2> QED
    BY <1>1, <1>2, <2>1
<1>4. /\ s \in RingType /\ s.open = r.open /\ s.nread = a /\ s.seen = r.seen
      /\ s.nwrite = (b + k) % UINT /\ s.sent = (r.sent + k) % Byte
      /\ \A j \in Cell : s.data[j] = IF Nth(r, j) < k THEN (r.sent + Nth(r, j)) % Byte
                                     ELSE r.data[j]
  <2>1. IsStored(s, r, k)
    BY <1>3, StoredFields, Zenon
  <2> QED
    BY <1>1, <2>1 DEF IsStored
<1>5. PICK c \in Index : c = s.nwrite /\ c = IF b + k < UINT THEN b + k ELSE b + k - UINT
  BY <1>1, <1>3, <1>4, Advance
<1>6. Held(s) = h + k
  <2>1. Held(s) = IF a <= c THEN c - a ELSE c + UINT - a
    BY <1>4, <1>5, HeldIs, Zenon
  <2> QED
    BY <1>1, <1>2, <1>3, <1>5, <2>1 DEF Index
<1>7. PICK seen \in Nat : seen = r.seen /\ r.sent = (seen + h) % Byte
  BY <1>1, RingFields DEF Ordered, Number
<1>8. ASSUME NEW n \in Nat PROVE (r.sent + n) % Byte = (seen + h + n) % Byte
  <2>1. PICK y \in Nat : y = seen + h
    BY <1>1, <1>7
  <2>2. ((y % Byte) + n) % Byte = (y + n) % Byte
    BY <1>2, ModAdd, ZenonT(60)
  <2> QED
    BY <1>7, <2>1, <2>2, Zenon
<1>9. (s.seen + Held(s)) % Byte = s.sent
  <2>1. s.sent = (seen + h + k) % Byte
    BY <1>4, <1>8, Zenon
  <2> QED
    BY <1>1, <1>4, <1>6, <1>7, <2>1
<1>10. ASSUME NEW t \in 0 .. Held(s) - 1
       PROVE  s.data[(s.nread + t) % PIPESIZE] = (s.seen + t) % Byte
  <2>1. t \in Nat /\ t < h + k /\ t < PIPESIZE
    BY <1>1, <1>2, <1>3, <1>6
  <2>2. PICK j \in Cell : j = (a + t) % PIPESIZE
    <3>1. a + t \in Nat
      BY <1>2, <2>1
    <3> QED
      BY <1>2, <3>1, ModRange DEF Cell
  <2>3. Nth(r, j) = IF t < h THEN PIPESIZE - h + t ELSE t - h
    BY <1>1, <2>1, <2>2, CellIs DEF Nth
  <2>4. CASE t < h
    <3>1. ~ (Nth(r, j) < k)
      BY <1>2, <1>3, <2>1, <2>3, <2>4
    <3>2. s.data[j] = r.data[j]
      BY <1>4, <3>1, Zenon
    <3>3. t \in 0 .. h - 1
      BY <2>1, <2>4
    <3>4. r.data[j] = (r.seen + t) % Byte
      BY <1>1, <2>2, <3>3, Zenon DEF Ordered
    <3> QED
      BY <1>4, <2>2, <3>2, <3>4, Zenon
  <2>5. CASE ~ (t < h)
    <3>1. PICK n \in Nat : n = t - h /\ n < k
      BY <2>1, <2>5
    <3>2. s.data[j] = (r.sent + n) % Byte
      BY <1>4, <2>3, <2>5, <3>1
    <3>3. (r.sent + n) % Byte = (seen + h + n) % Byte
      BY <1>8
    <3>4. seen + h + n = seen + t
      BY <2>1, <3>1
    <3> QED
      BY <1>4, <1>7, <2>2, <3>2, <3>3, <3>4
  <2> QED
    BY <2>4, <2>5
<1> QED
  BY <1>1, <1>3, <1>4, <1>6, <1>9, <1>10 DEF Ordered

(* Bytes taken are the oldest. *)
LEMMA TakenOrdered ==
  ASSUME NEW r \in RingType, Ordered(r), NEW k \in Nat, k <= Held(r), NEW s, s = Taken(r, k)
  PROVE  s \in RingType /\ s.open = r.open /\ Ordered(s) /\ Held(s) = Held(r) - k
<1>1. PICK a \in Index, b \in Index, h \in Nat :
        /\ a = r.nread /\ b = r.nwrite /\ h = Held(r) /\ h <= PIPESIZE
        /\ h = IF a <= b THEN b - a ELSE b + UINT - a
  BY RingFields, HeldIs, Zenon DEF Ordered
<1>2. /\ a \in Nat /\ b \in Nat /\ UINT \in Nat /\ a < UINT /\ b < UINT
      /\ PIPESIZE \in Nat /\ 0 < PIPESIZE /\ PIPESIZE < UINT /\ Byte \in Nat /\ 0 < Byte
      /\ UINT % PIPESIZE = 0
  BY Constants DEF Index
<1>3. k <= h /\ k <= PIPESIZE
  BY <1>1, <1>2
<1>4. /\ s \in RingType /\ s.open = r.open /\ s.nwrite = b /\ s.sent = r.sent
      /\ s.nread = (a + k) % UINT /\ s.seen = (r.seen + k) % Byte /\ s.data = r.data
  BY <1>1, <1>3, TakenFields
<1>5. PICK c \in Index : c = s.nread /\ c = IF a + k < UINT THEN a + k ELSE a + k - UINT
  BY <1>1, <1>3, <1>4, Advance, Zenon
<1>6. Held(s) = h - k
  <2>1. Held(s) = IF c <= b THEN b - c ELSE b + UINT - c
    BY <1>4, <1>5, HeldIs
  <2>2. c \in Nat /\ c < UINT
    BY <1>2 DEF Index
  <2>3. CASE a <= b
    <3>1. h = b - a /\ c = a + k
      BY <1>1, <1>2, <1>3, <1>5, <2>3
    <3> QED
      BY <1>2, <1>3, <2>1, <3>1
  <2>4. CASE ~ (a <= b)
    <3>1. h = b + UINT - a
      BY <1>1, <2>4
    <3>2. CASE a + k < UINT
      BY <1>2, <1>5, <2>1, <2>4, <3>1, <3>2
    <3>3. CASE ~ (a + k < UINT)
      BY <1>2, <1>3, <1>5, <2>1, <2>4, <3>1, <3>3, SMTT(60)
    <3> QED
      BY <3>2, <3>3, Zenon
  <2> QED
    BY <2>3, <2>4, Zenon
<1>7. PICK seen \in Nat : seen = r.seen /\ r.sent = (seen + h) % Byte
  BY <1>1, RingFields DEF Ordered, Number
<1>8. ASSUME NEW n \in Nat PROVE (s.seen + n) % Byte = (seen + k + n) % Byte
  <2>1. PICK y \in Nat : y = seen + k
    BY <1>7
  <2>2. ((y % Byte) + n) % Byte = (y + n) % Byte
    BY <1>2, ModAdd, ZenonT(60)
  <2> QED
    BY <1>4, <1>7, <2>1, <2>2, Zenon
<1>9. (s.seen + Held(s)) % Byte = s.sent
  <2>1. PICK n \in Nat : n = h - k
    BY <1>1, <1>3
  <2>2. (s.seen + n) % Byte = (seen + k + n) % Byte
    BY <1>8
  <2>3. seen + k + n = seen + h
    BY <1>1, <1>7, <2>1
  <2> QED
    BY <1>4, <1>6, <1>7, <2>1, <2>2, <2>3
<1>10. ASSUME NEW t \in 0 .. Held(s) - 1
       PROVE  s.data[(s.nread + t) % PIPESIZE] = (s.seen + t) % Byte
  <2>1. t \in Nat /\ t + k < h
    BY <1>1, <1>3, <1>6
  <2>2. (c + t) % PIPESIZE = (a + (t + k)) % PIPESIZE
    <3>1. c + t \in Nat
      BY <2>1 DEF Index
    <3>2. (c + t + UINT) % PIPESIZE = (c + t) % PIPESIZE
      BY <1>2, <3>1, ModPlus, ZenonT(60)
    <3>3. a + (t + k) = c + t \/ a + (t + k) = c + t + UINT
      BY <1>2, <1>5, <2>1 DEF Index
    <3> QED
      BY <3>2, <3>3, Zenon
  <2>3. t + k \in 0 .. h - 1
    BY <2>1
  <2>4. r.data[(a + (t + k)) % PIPESIZE] = (r.seen + (t + k)) % Byte
    BY <1>1, <2>3 DEF Ordered
  <2>5. (s.seen + t) % Byte = (seen + k + t) % Byte /\ seen + k + t = seen + (t + k)
    BY <1>7, <1>8, <2>1
  <2> QED
    BY <1>4, <1>5, <1>7, <2>2, <2>4, <2>5
<1> QED
  BY <1>1, <1>2, <1>3, <1>4, <1>6, <1>9, <1>10, SMTT(60) DEF Ordered


--------------------------------------------------------------------------------
(***************************************************************************)
(* The steps and the invariant of rings and sleepers.                      *)
(***************************************************************************)
Asleep == {"tosleep", "sleep"}

Reason(p) ==
  IF op[p].end = "read"
  THEN /\ "write" \in pipe[op[p].pipe].open
       /\ pipe[op[p].pipe].nread = pipe[op[p].pipe].nwrite \/ op[p].pipe \in quiet
  ELSE "read" \in pipe[op[p].pipe].open /\ Held(pipe[op[p].pipe]) = PIPESIZE

(* InOrder, ring by ring. *)
LEMMA InOrderIs == InOrder <=> \A i \in Pipe : Ordered(pipe[i])
  BY Zenon DEF InOrder, Ordered

(* SleepInv, process by process. *)
LEMMA SleepInvIs == SleepInv <=> \A p \in Proc : pc[p] \in Asleep => Reason(p)
  BY DEF SleepInv, Asleep, Reason

(* A process in a read or write has that end open. *)
LEMMA IoFacts ==
  ASSUME FInv, NEW p \in Proc, pc[p] \in Io
  PROVE  /\ op[p].pipe \in Pipe /\ op[p].pipe \in page /\ op[p].end \in End
         /\ op[p].end \in pipe[op[p].pipe].open
         /\ \E f \in File : Has(f, op[p].pipe, op[p].end)
<1>1. TypeInv /\ RefInv /\ KindInv /\ Place(p) /\ EndInv
  BY Zenon DEF FInv, PlaceInv
<1>2. PICK fd \in Fd : /\ ofile[p][fd] # NoFile
                       /\ file[ofile[p][fd]].type = "pipe"
                       /\ file[ofile[p][fd]].pipe = op[p].pipe
                       /\ file[ofile[p][fd]].end = op[p].end
  BY <1>1, Zenon DEF Place
<1>3. PICK f \in File : f = ofile[p][fd]
  BY <1>1, <1>2, RefFacts, Zenon
<1>4. op[p].pipe \in Pipe /\ op[p].end \in End /\ Has(f, op[p].pipe, op[p].end)
  BY <1>1, <1>2, <1>3, Zenon DEF KindInv, Has
<1>5. op[p].end \in pipe[op[p].pipe].open /\ op[p].pipe \in page
  BY <1>1, <1>4 DEF EndInv
<1> QED
  BY <1>4, <1>5, Zenon

(* A step that leaves the rings alone. *)
LEMMA RingFrame ==
  ASSUME InOrder, SleepInv, pipe' = pipe, quiet' = quiet,
         \A q \in Proc : pc'[q] \in Asleep => pc[q] \in Asleep /\ op'[q] = op[q]
  PROVE  InOrder' /\ SleepInv'
<1>1. InOrder'
  BY Zenon DEF InOrder
<1>2. ASSUME NEW q \in Proc, pc'[q] \in Asleep PROVE Reason(q)'
  <2>1. Reason(q) /\ op'[q] = op[q]
    BY <1>2, SleepInvIs
  <2> QED
    BY <2>1, Zenon DEF Reason
<1>3. SleepInv'
  BY <1>2, Zenon DEF Asleep, Reason, SleepInv
<1> QED
  BY <1>1, <1>3, Zenon

(* The others that sleep, at other pipes. *)
LEMMA OtherReason ==
  ASSUME SleepInv, NEW q \in Proc, pc[q] \in Asleep, op'[q] = op[q],
         pipe'[op[q].pipe] = pipe[op[q].pipe], op[q].pipe \in quiet' <=> op[q].pipe \in quiet
  PROVE  Reason(q)'
<1>1. Reason(q)
  BY SleepInvIs, Zenon
<1> QED
  BY <1>1 DEF Reason

(* An empty ring, and a ring with other ends open. *)
LEMMA OrderedFrame ==
  ASSUME NEW r, NEW s, Ordered(r), s.nread = r.nread, s.nwrite = r.nwrite, s.data = r.data,
         s.sent = r.sent, s.seen = r.seen
  PROVE  Ordered(s)
<1>1. Held(s) = Held(r)
  BY Zenon DEF Held
<1> QED
  BY <1>1 DEF Ordered

(* An empty ring is in order. *)
LEMMA NoRingOrdered == Ordered(NoRing)
<1>1. NoRing.nread = 0 /\ NoRing.nwrite = 0 /\ NoRing.sent = 0 /\ NoRing.seen = 0
  BY Zenon DEF NoRing
<1>2. Held(NoRing) = 0
  BY <1>1, NoRingType, HeldIs, Zenon
<1>3. 0 % Byte = 0
  BY Constants, ModSmall
<1> QED
  BY <1>1, <1>2, <1>3, Constants DEF Ordered


(* pipeclose() wakes all that sleep at the pipe. *)
LEMMA PipeCloseRings ==
  ASSUME IInv, NEW p \in Proc, PipeClose(p)
  PROVE  InOrder' /\ SleepInv'
<1>1. FInv /\ TypeInv /\ KindInv /\ Place(p) /\ EndInv /\ InOrder /\ SleepInv /\ pc[p] = "pipeclose"
  BY Zenon DEF IInv, FInv, PlaceInv, PipeClose
<1>2. PICK i \in Pipe, e \in End : i = op[p].pipe /\ e = op[p].end
  BY <1>1, Zenon DEF Place
<1>3. PICK left : left = pipe[i].open \ {e}
  BY Zenon
<1>4. /\ pipe' = [pipe EXCEPT ![i] = IF left = {} THEN NoRing ELSE [pipe[i] EXCEPT !.open = left]]
      /\ quiet' = (IF left = {} THEN quiet \ {i} ELSE quiet)
      /\ Wakeup(i, IF e = "write" THEN "read" ELSE "write", p, AfterClose(p))
      /\ op' = [op EXCEPT ![p] = NoOp]
      /\ Unlocked(i)
  BY <1>2, <1>3, Zenon DEF PipeClose
<1>5. pipe \in [Pipe -> RingType] /\ op \in [Proc -> OpType]
  BY <1>1 DEF TypeInv
<1>6. InOrder'
  <2>1. ASSUME NEW j \in Pipe PROVE Ordered(pipe'[j])
    <3>1. Ordered(pipe[j])
      BY <1>1, InOrderIs, Zenon
    <3>2. CASE j = i /\ left = {}
      BY <1>4, <1>5, <3>2, NoRingOrdered
    <3>3. CASE j = i /\ left # {}
      <4>1. PICK s : s = [pipe[i] EXCEPT !.open = left]
        BY Zenon
      <4>2. pipe[i] \in RingType /\ pipe'[i] = s
        BY <1>4, <1>5, <3>3, <4>1
      <4>3. /\ s.nread = pipe[i].nread /\ s.nwrite = pipe[i].nwrite /\ s.data = pipe[i].data
            /\ s.sent = pipe[i].sent /\ s.seen = pipe[i].seen
        BY <4>1, <4>2 DEF RingType
      <4> QED
        BY <3>1, <3>3, <4>2, <4>3, OrderedFrame
    <3>4. CASE j # i
      BY <1>4, <1>5, <3>1, <3>4
    <3> QED
      BY <3>2, <3>3, <3>4
  <2> QED
    BY <2>1, Zenon DEF InOrder, Ordered
<1>7. ASSUME NEW q \in Proc, pc'[q] \in Asleep PROVE Reason(q)'
  <2>1. q # p
    BY <1>4, <1>7, Zenon DEF Wakeup, AfterClose, Asleep
  <2>2. /\ pc[q] = pc'[q] /\ pc[q] \in Asleep /\ op'[q] = op[q]
        /\ ~ (pc[q] = "sleep" /\ op[q].pipe = i
              /\ op[q].end = IF e = "write" THEN "read" ELSE "write")
    BY <1>4, <1>5, <1>7, <2>1, SMTT(60) DEF Wakeup, Asleep
  <2>3. op[q].pipe \in Pipe /\ op[q].end \in End /\ \E f \in File : Has(f, op[q].pipe, op[q].end)
    BY <1>1, <2>2, IoFacts, Zenon DEF Asleep, Io
  <2>4. op[q].pipe # i
    <3>1. SUFFICES ASSUME op[q].pipe = i PROVE FALSE
      BY Zenon
    <3>2. pc[q] = "sleep"
      BY <1>4, <2>2, <3>1 DEF Unlocked, Asleep
    <3>3. op[q].end = e
      BY <2>2, <2>3, <3>1, <3>2 DEF End
    <3>4. Closes(p, i, e)
      BY <1>1, <1>2 DEF Closes
    <3> QED
      BY <1>1, <2>3, <3>1, <3>3, <3>4 DEF EndInv
  <2>5. pipe'[op[q].pipe] = pipe[op[q].pipe] /\ (op[q].pipe \in quiet' <=> op[q].pipe \in quiet)
    BY <1>4, <1>5, <2>3, <2>4, SMTT(60)
  <2> QED
    BY <1>1, <2>2, <2>5, OtherReason
<1>8. SleepInv'
  BY <1>7 DEF Asleep, Reason, SleepInv
<1> QED
  BY <1>6, <1>8, Zenon

(* Nobody sleeps at a page that was no pipe. *)
LEMMA PipeAllocRings ==
  ASSUME IInv, NEW p \in Proc, PipeAlloc(p)
  PROVE  InOrder' /\ SleepInv'
<1>1. /\ FInv /\ TypeInv /\ InOrder /\ SleepInv /\ pc[p] = "kalloc"
      /\ op' = op /\ quiet' = quiet
  BY Zenon DEF IInv, FInv, PipeAlloc
<1>2. pipe \in [Pipe -> RingType] /\ pc \in [Proc -> Label]
  BY <1>1, Zenon DEF TypeInv
<1>3. /\ pc' = [pc EXCEPT ![p] = "fileclose"] \/ pc' = [pc EXCEPT ![p] = "user"]
      /\ \/ pipe' = pipe
         \/ \E i \in Pipe : i \notin page /\ pipe' = [pipe EXCEPT ![i] = [NoRing EXCEPT !.open = End]]
  BY ZenonT(60) DEF PipeAlloc, Goto
<1>4. \A q \in Proc : pc'[q] \in Asleep => pc[q] \in Asleep
  BY <1>2, <1>3, Zenon DEF Asleep
<1>5. CASE pipe' = pipe
  BY <1>1, <1>4, <1>5, RingFrame
<1>6. ASSUME NEW i \in Pipe, i \notin page, pipe' = [pipe EXCEPT ![i] = [NoRing EXCEPT !.open = End]]
      PROVE  InOrder' /\ SleepInv'
  <2>1. PICK s : s = [NoRing EXCEPT !.open = End]
    BY Zenon
  <2>2. /\ s.nread = NoRing.nread /\ s.nwrite = NoRing.nwrite /\ s.data = NoRing.data
        /\ s.sent = NoRing.sent /\ s.seen = NoRing.seen
    BY <2>1, Zenon DEF NoRing
  <2>3. Ordered(s)
    BY <2>2, NoRingOrdered, OrderedFrame
  <2>4. \A j \in Pipe : pipe'[j] = IF j = i THEN s ELSE pipe[j]
    BY <1>2, <1>6, <2>1, Zenon
  <2>5. \A j \in Pipe : Ordered(pipe'[j])
    BY <1>1, <2>3, <2>4, InOrderIs
  <2>6. InOrder'
    BY <2>5, Zenon DEF InOrder, Ordered
  <2>7. ASSUME NEW q \in Proc, pc'[q] \in Asleep PROVE Reason(q)'
    <3>1. pc[q] \in Asleep
      BY <1>4, <2>7, Zenon
    <3>2. op[q].pipe \in Pipe /\ op[q].pipe \in page
      BY <1>1, <3>1, IoFacts DEF Asleep, Io
    <3>3. pipe'[op[q].pipe] = pipe[op[q].pipe]
      BY <1>6, <2>4, <3>2, Zenon
    <3> QED
      BY <1>1, <3>1, <3>3, OtherReason
  <2>8. SleepInv'
    BY <2>7 DEF Asleep, Reason, SleepInv
  <2> QED
    BY <2>6, <2>8, Zenon
<1> QED
  BY <1>3, <1>5, <1>6, Zenon


(* A read or write that returns or is about to sleep. *)
LEMMA IoFInv ==
  ASSUME FInv, NEW p \in Proc, pc[p] = "io", TypeInv',
         UNCHANGED <<live, ofile, file, page, local>>,
         \A i \in Pipe : pipe'[i].open = pipe[i].open,
         \A q \in Proc \ {p} : pc'[q] = pc[q] \/ (pc[q] = "sleep" /\ pc'[q] = "io"),
         \A q \in Proc \ {p} : op'[q] = op[q],
         \/ pc'[p] = "user" /\ op'[p].pipe = NoPipe
         \/ pc'[p] = "tosleep" /\ op'[p].pipe = op[p].pipe /\ op'[p].end = op[p].end
  PROVE  FInv'
<1>1. Place(p)
  BY Zenon DEF FInv, PlaceInv
<1>2. p \in live /\ \A k \in 1 .. 2 : local[p][k] = NoFile
  BY <1>1, Zenon DEF Place, Io
<1>3. \E fd \in Fd : /\ ofile[p][fd] # NoFile
                     /\ file[ofile[p][fd]].type = "pipe"
                     /\ file[ofile[p][fd]].pipe = op[p].pipe
                     /\ file[ofile[p][fd]].end = op[p].end
  BY <1>1, Zenon DEF Place, Io
<1>4. Place(p)'
  <2>1. CASE pc'[p] = "user"
    BY <1>2, <2>1, SMTT(60) DEF Place, Io, Fresh
  <2>2. CASE pc'[p] = "tosleep"
    BY <1>2, <1>3, <2>2, Zenon DEF Place, Io, Fresh
  <2> QED
    BY <2>1, <2>2, Zenon
<1>5. pc[p] # "pipeclose" /\ pc'[p] # "pipeclose"
  BY Zenon
<1> QED
  BY <1>4, <1>5, MoveFInv, Zenon

(* The fields of a read or write. *)
LEMMA Operations ==
  ASSUME NEW o \in OpType
  PROVE  /\ NoOp \in OpType /\ NoOp.pipe = NoPipe
         /\ o.pipe \in Pipe \cup {NoPipe} /\ o.end \in End \cup {""} /\ o.n \in Nat
         /\ \A n \in Nat : /\ [o EXCEPT !.n = n] \in OpType /\ [o EXCEPT !.n = n].pipe = o.pipe
                           /\ [o EXCEPT !.n = n].end = o.end
  BY Zenon DEF OpType, NoOp

(* pipewrite(): who sleeps on has a full ring, or missed a quiet writer. *)
LEMMA PipeWriteIInv ==
  ASSUME IInv, NEW p \in Proc, PipeWrite(p)
  PROVE  IInv'
<1>1. /\ FInv /\ TypeInv /\ InOrder /\ SleepInv /\ pc[p] = "io" /\ op[p].end = "write"
      /\ UNCHANGED <<live, killed, ofile, file, page, local>>
  BY Zenon DEF IInv, FInv, PipeWrite
<1>2. PICK i \in Pipe : i = op[p].pipe
  BY <1>1, IoFacts DEF Io
<1>3. PICK k, s : k = Least(op[p].n, Room(pipe[i])) /\ s = Stored(pipe[i], k)
  BY Zenon
<1>4. /\ Unlocked(i)
      /\ pipe' = [pipe EXCEPT ![i] = s]
      /\ \/ /\ k < op[p].n /\ ("read" \notin pipe[i].open \/ p \in killed)
            /\ quiet' = IF k > 0 THEN quiet \cup {i} ELSE quiet
            /\ op' = [op EXCEPT ![p] = NoOp]
            /\ Goto(p, "user")
         \/ /\ k < op[p].n /\ "read" \in pipe[i].open
            /\ quiet' = quiet \ {i}
            /\ op' = [op EXCEPT ![p] = [op[p] EXCEPT !.n = op[p].n - k]]
            /\ Wakeup(i, "read", p, "tosleep")
         \/ /\ ~ (k < op[p].n)
            /\ quiet' = quiet \ {i}
            /\ op' = [op EXCEPT ![p] = NoOp]
            /\ Wakeup(i, "read", p, "user")
  <2> DEFINE g == k < op[p].n /\ ("read" \notin pipe[i].open \/ p \in killed)
  <2>1. /\ Unlocked(i)
        /\ pipe' = [pipe EXCEPT ![i] = Stored(pipe[i], k)]
        /\ quiet' = IF ~ g THEN quiet \ {i} ELSE IF k > 0 THEN quiet \cup {i} ELSE quiet
        /\ op' = [op EXCEPT ![p] = IF k < op[p].n /\ ~ g THEN [op[p] EXCEPT !.n = op[p].n - k] ELSE NoOp]
        /\ IF g THEN Goto(p, "user")
           ELSE Wakeup(i, "read", p, IF k < op[p].n THEN "tosleep" ELSE "user")
    <3> DEFINE j == op[p].pipe
               l == Least(op[p].n, Room(pipe[j]))
               f == l < op[p].n /\ ("read" \notin pipe[j].open \/ p \in killed)
    <3>1. /\ Unlocked(j)
          /\ pipe' = [pipe EXCEPT ![j] = Stored(@, l)]
          /\ quiet' = IF ~ f THEN quiet \ {j} ELSE IF l > 0 THEN quiet \cup {j} ELSE quiet
          /\ op' = [op EXCEPT ![p] = IF l < op[p].n /\ ~ f THEN [op[p] EXCEPT !.n = op[p].n - l] ELSE NoOp]
          /\ IF f THEN Goto(p, "user")
             ELSE Wakeup(j, "read", p, IF l < op[p].n THEN "tosleep" ELSE "user")
      BY Zenon DEF PipeWrite
    <3>2. j = i /\ l = k
      BY <1>2, <1>3, Zenon
    <3> HIDE DEF j, l
    <3> QED
      BY <3>1, <3>2, Zenon
  <2>2. CASE g
    BY <1>3, <2>1, <2>2, ZenonT(60)
  <2>3. CASE k < op[p].n /\ ~ g
    BY <1>3, <2>1, <2>3
  <2>4. CASE ~ (k < op[p].n)
    BY <1>3, <2>1, <2>4
  <2> QED
    BY <2>2, <2>3, <2>4
<1>5. /\ pipe \in [Pipe -> RingType] /\ op \in [Proc -> OpType] /\ pc \in [Proc -> Label]
      /\ quiet \subseteq Pipe /\ pipe[i] \in RingType /\ op[p] \in OpType
  BY <1>1, Zenon DEF TypeInv
<1>6. Ordered(pipe[i]) /\ Held(pipe[i]) \in Nat /\ Room(pipe[i]) = PIPESIZE - Held(pipe[i])
  <2>1. Ordered(pipe[i])
    BY <1>1, InOrderIs, Zenon
  <2> QED
    BY <1>5, <2>1, HeldIs, RoomIs DEF Ordered
<1>7. /\ k \in Nat /\ k <= Room(pipe[i]) /\ k <= op[p].n /\ op[p].n \in Nat
      /\ k < op[p].n => k = Room(pipe[i])
  <2>1. Held(pipe[i]) <= PIPESIZE /\ PIPESIZE \in Nat
    BY <1>6, Constants, Zenon DEF Ordered
  <2>2. Room(pipe[i]) \in Nat /\ op[p].n \in Nat
    <3>1. op[p].n \in Nat
      BY <1>5, Operations, Zenon
    <3> QED
      BY <1>6, <2>1, <3>1
  <2> QED
    BY <1>3, <2>2, SMTT(60) DEF Least
<1>8. /\ s \in RingType /\ s.open = pipe[i].open /\ Ordered(s)
      /\ Held(s) = Held(pipe[i]) + k
  BY <1>3, <1>5, <1>6, <1>7, StoredOrdered, SMTT(60)
<1>9. \A j \in Pipe : pipe'[j] = IF j = i THEN s ELSE pipe[j]
  BY <1>4, <1>5, Zenon
<1>10. /\ pc' \in [Proc -> Label]
       /\ \A q \in Proc \ {p} : pc'[q] = pc[q] \/ (pc[q] = "sleep" /\ pc'[q] = "io")
       /\ pc'[p] \in {"user", "tosleep"}
       /\ pc'[p] = "tosleep" => k < op[p].n /\ "read" \in pipe[i].open
  <2>1. CASE Goto(p, "user")
    BY <1>5, <2>1, Zenon DEF Goto, Label
  <2>2. CASE Wakeup(i, "read", p, "user")
    BY <1>5, <2>2, SMTT(60) DEF Wakeup, Label, Io
  <2>3. CASE Wakeup(i, "read", p, "tosleep") /\ k < op[p].n /\ "read" \in pipe[i].open
    BY <1>5, <2>3, Zenon DEF Wakeup, Label, Io
  <2> QED
    BY <1>4, <2>1, <2>2, <2>3, SMTT(60)
<1>11. /\ op' \in [Proc -> OpType] /\ \A q \in Proc \ {p} : op'[q] = op[q]
       /\ \/ pc'[p] = "user" /\ op'[p].pipe = NoPipe
          \/ pc'[p] = "tosleep" /\ op'[p].pipe = op[p].pipe /\ op'[p].end = op[p].end
  <2>1. PICK o : o = [op[p] EXCEPT !.n = op[p].n - k]
    BY Zenon
  <2>2. op[p].n - k \in Nat
    BY <1>7
  <2>3. o \in OpType /\ o.pipe = op[p].pipe /\ o.end = op[p].end /\ NoOp \in OpType /\ NoOp.pipe = NoPipe
    BY <1>5, <2>1, <2>2, Operations, ZenonT(60)
  <2>4. CASE op' = [op EXCEPT ![p] = NoOp] /\ pc'[p] = "user"
    BY <1>5, <2>3, <2>4, Zenon
  <2>5. CASE op' = [op EXCEPT ![p] = o] /\ pc'[p] = "tosleep"
    BY <1>5, <2>3, <2>5
  <2>6. \/ op' = [op EXCEPT ![p] = NoOp] /\ pc'[p] = "user"
        \/ op' = [op EXCEPT ![p] = o] /\ pc'[p] = "tosleep"
    BY <1>4, <1>5, <2>1, SMTT(60) DEF Goto, Wakeup
  <2> QED
    BY <2>4, <2>5, <2>6
<1>12. FInv'
  <2>1. pipe' \in [Pipe -> RingType] /\ quiet' \subseteq Pipe
    BY <1>4, <1>5, <1>8, Zenon
  <2>2. TypeInv'
    BY <1>1, <1>10, <1>11, <2>1, SMTT(60) DEF TypeInv
  <2>3. \A j \in Pipe : pipe'[j].open = pipe[j].open
    BY <1>8, <1>9, Zenon
  <2> QED
    BY <1>1, <1>10, <1>11, <2>2, <2>3, IoFInv, SMTT(60)
<1>13. InOrder'
  <2>1. \A j \in Pipe : Ordered(pipe'[j])
    BY <1>1, <1>8, <1>9, InOrderIs
  <2> QED
    BY <2>1 DEF InOrder, Ordered
<1>14. ASSUME NEW q \in Proc, pc'[q] \in Asleep PROVE Reason(q)'
  <2>1. CASE q = p
    <3>1. k < op[p].n /\ "read" \in pipe[i].open /\ op'[p].pipe = i /\ op'[p].end = "write"
      BY <1>1, <1>2, <1>10, <1>11, <1>14, <2>1, SMTT(60) DEF Asleep
    <3>2. Held(s) = PIPESIZE
      BY <1>6, <1>7, <1>8, <3>1, Constants, SMTT(60)
    <3>3. pipe'[i] = s
      BY <1>9, Zenon
    <3> QED
      BY <1>8, <2>1, <3>1, <3>2, <3>3, SMTT(60) DEF Reason
  <2>2. CASE q # p
    <3>1. pc[q] = pc'[q] /\ pc[q] \in Asleep /\ op'[q] = op[q]
      BY <1>10, <1>11, <1>14, <2>2, SMTT(60) DEF Asleep
    <3>2. op[q].pipe \in Pipe /\ op[q].end \in End /\ Reason(q)
      BY <1>1, <3>1, IoFacts, SleepInvIs, SMTT(60) DEF Asleep, Io
    <3>3. CASE op[q].pipe # i
      <4>1. pipe'[op[q].pipe] = pipe[op[q].pipe] /\ (op[q].pipe \in quiet' <=> op[q].pipe \in quiet)
        BY <1>4, <1>9, <3>2, <3>3, SMTT(60)
      <4> QED
        BY <1>1, <3>1, <4>1, OtherReason, Zenon
    <3>4. CASE op[q].pipe = i
      <4>1. pipe'[i] = s /\ pc[q] = "sleep"
        BY <1>4, <1>9, <3>1, <3>4, SMTT(60) DEF Unlocked, Asleep
      <4>2. CASE op[q].end = "read"
        <5>1. quiet' = IF k > 0 THEN quiet \cup {i} ELSE quiet
          BY <1>4, <2>2, <3>1, <3>4, <4>1, <4>2, ZenonT(60) DEF Wakeup
        <5>2. "write" \in pipe[i].open /\ (pipe[i].nread = pipe[i].nwrite \/ i \in quiet)
          BY <3>2, <3>4, <4>2, Zenon DEF Reason
        <5>3. s.nread = s.nwrite \/ i \in quiet'
          <6>1. CASE k > 0 \/ i \in quiet
            BY <5>1, <6>1, Zenon
          <6>2. CASE k = 0 /\ pipe[i].nread = pipe[i].nwrite
            <7>1. Held(pipe[i]) = 0
              BY <1>5, <6>2, HeldIs, SMTT(60)
            <7>2. Held(s) = 0
              BY <1>8, <6>2, <7>1, SMTT(60)
            <7> QED
              BY <1>8, <7>2, HeldIs, SMTT(60)
          <6> QED
            BY <1>7, <5>2, <6>1, <6>2, SMTT(60)
        <5> QED
          BY <1>8, <3>1, <3>4, <4>1, <4>2, <5>2, <5>3, Zenon DEF Reason
      <4>3. CASE op[q].end # "read"
        <5>1. "read" \in pipe[i].open /\ Held(pipe[i]) = PIPESIZE
          BY <3>2, <3>4, <4>3, SMTT(60) DEF Reason
        <5>2. k = 0
          BY <1>6, <1>7, <5>1, Constants, SMTT(60)
        <5>3. Held(s) = PIPESIZE
          BY <1>8, <5>1, <5>2, Constants, SMTT(60)
        <5> QED
          BY <1>8, <3>1, <3>4, <4>1, <4>3, <5>1, <5>3, SMTT(60) DEF Reason
      <4> QED
        BY <4>2, <4>3, Zenon
    <3> QED
      BY <3>3, <3>4, SMTT(60)
  <2> QED
    BY <2>1, <2>2, SMTT(60)
<1>15. SleepInv'
  BY <1>14, Zenon DEF Asleep, Reason, SleepInv
<1> QED
  BY <1>12, <1>13, <1>15 DEF IInv


(* piperead(): a reader that sleeps on missed a quiet writer. *)
LEMMA PipeReadIInv ==
  ASSUME IInv, NEW p \in Proc, PipeRead(p)
  PROVE  IInv'
<1>1. /\ FInv /\ TypeInv /\ InOrder /\ SleepInv /\ pc[p] = "io" /\ op[p].end = "read"
      /\ UNCHANGED <<live, killed, ofile, file, page, local>>
  BY Zenon DEF IInv, FInv, PipeRead
<1>2. PICK i \in Pipe : i = op[p].pipe
  BY <1>1, IoFacts, SMTT(60) DEF Io
<1>3. PICK k, s : k = Least(op[p].n, Held(pipe[i])) /\ s = Taken(pipe[i], k)
  BY Zenon
<1>4. /\ Unlocked(i)
      /\ \/ /\ pipe[i].nread = pipe[i].nwrite /\ "write" \in pipe[i].open
            /\ \/ pc' = [pc EXCEPT ![p] = "user"] /\ op' = [op EXCEPT ![p] = NoOp]
               \/ pc' = [pc EXCEPT ![p] = "tosleep"] /\ op' = op
            /\ UNCHANGED <<pipe, quiet>>
         \/ /\ ~ (pipe[i].nread = pipe[i].nwrite /\ "write" \in pipe[i].open)
            /\ pipe' = [pipe EXCEPT ![i] = s]
            /\ quiet' = IF k < Held(pipe[i]) THEN quiet ELSE quiet \ {i}
            /\ op' = [op EXCEPT ![p] = NoOp]
            /\ Wakeup(i, "write", p, "user")
  <2> DEFINE j == op[p].pipe
             l == Least(op[p].n, Held(pipe[j]))
  <2>1. /\ Unlocked(j)
        /\ IF pipe[j].nread = pipe[j].nwrite /\ "write" \in pipe[j].open
           THEN /\ Goto(p, IF p \in killed THEN "user" ELSE "tosleep")
                /\ op' = IF p \in killed THEN [op EXCEPT ![p] = NoOp] ELSE op
                /\ UNCHANGED <<pipe, quiet>>
           ELSE /\ pipe' = [pipe EXCEPT ![j] = Taken(@, l)]
                /\ quiet' = IF l < Held(pipe[j]) THEN quiet ELSE quiet \ {j}
                /\ op' = [op EXCEPT ![p] = NoOp]
                /\ Wakeup(j, "write", p, "user")
    BY Zenon DEF PipeRead
  <2>2. j = i /\ l = k
    BY <1>2, <1>3, Zenon
  <2> HIDE DEF j, l
  <2>3. CASE pipe[j].nread = pipe[j].nwrite /\ "write" \in pipe[j].open
    BY <2>1, <2>2, <2>3, Zenon DEF Goto
  <2>4. CASE ~ (pipe[j].nread = pipe[j].nwrite /\ "write" \in pipe[j].open)
    BY <1>3, <2>1, <2>2, <2>4
  <2> QED
    BY <2>3, <2>4, Zenon
<1>5. /\ pipe \in [Pipe -> RingType] /\ op \in [Proc -> OpType] /\ pc \in [Proc -> Label]
      /\ quiet \subseteq Pipe /\ pipe[i] \in RingType /\ op[p] \in OpType
      /\ NoOp \in OpType /\ NoOp.pipe = NoPipe
  BY <1>1, Operations, Zenon DEF TypeInv
<1>6. Ordered(pipe[i]) /\ Held(pipe[i]) \in Nat
  BY <1>1, <1>5, InOrderIs, HeldIs, SMTT(60)
<1>7. k \in Nat /\ k <= Held(pipe[i])
  <2>1. op[p].n \in Nat
    BY <1>5, Operations, Zenon
  <2> QED
    BY <1>3, <1>6, <2>1 DEF Least
<1>8. s \in RingType /\ s.open = pipe[i].open /\ Ordered(s) /\ Held(s) = Held(pipe[i]) - k
  BY <1>3, <1>5, <1>6, <1>7, TakenOrdered, SMTT(60)
<1>9. CASE /\ pipe[i].nread = pipe[i].nwrite /\ "write" \in pipe[i].open
           /\ \/ pc' = [pc EXCEPT ![p] = "user"] /\ op' = [op EXCEPT ![p] = NoOp]
              \/ pc' = [pc EXCEPT ![p] = "tosleep"] /\ op' = op
           /\ UNCHANGED <<pipe, quiet>>
  <2>1. /\ pc' \in [Proc -> Label] /\ op' \in [Proc -> OpType]
        /\ \A q \in Proc \ {p} : pc'[q] = pc[q] /\ op'[q] = op[q]
        /\ \/ pc'[p] = "user" /\ op'[p].pipe = NoPipe
           \/ pc'[p] = "tosleep" /\ op'[p] = op[p]
    BY <1>5, <1>9, SMTT(60) DEF Label, Io
  <2>2. TypeInv'
    BY <1>1, <1>9, <2>1, SMTT(60) DEF TypeInv
  <2>3. FInv'
    BY <1>1, <1>9, <2>1, <2>2, IoFInv, SMTT(60)
  <2>4. InOrder'
    BY <1>1, <1>9, Zenon DEF InOrder
  <2>5. ASSUME NEW q \in Proc, pc'[q] \in Asleep PROVE Reason(q)'
    <3>1. CASE q = p
      <4>1. op'[p] = op[p]
        BY <2>1, <2>5, <3>1, Zenon DEF Asleep
      <4> QED
        BY <1>1, <1>2, <1>9, <3>1, <4>1, SMTT(60) DEF Reason
    <3>2. CASE q # p
      <4>1. pc[q] \in Asleep /\ op'[q] = op[q]
        BY <2>1, <2>5, <3>2, Zenon
      <4> QED
        BY <1>1, <1>9, <4>1, OtherReason, SMTT(60)
    <3> QED
      BY <3>1, <3>2, Zenon
  <2>6. SleepInv'
    BY <2>5, Zenon DEF Asleep, Reason, SleepInv
  <2> QED
    BY <2>3, <2>4, <2>6, Zenon DEF IInv
<1>10. CASE /\ ~ (pipe[i].nread = pipe[i].nwrite /\ "write" \in pipe[i].open)
            /\ pipe' = [pipe EXCEPT ![i] = s]
            /\ quiet' = IF k < Held(pipe[i]) THEN quiet ELSE quiet \ {i}
            /\ op' = [op EXCEPT ![p] = NoOp]
            /\ Wakeup(i, "write", p, "user")
  <2>1. /\ pc' \in [Proc -> Label] /\ op' \in [Proc -> OpType]
        /\ \A q \in Proc \ {p} : pc'[q] = pc[q] \/ (pc[q] = "sleep" /\ pc'[q] = "io")
        /\ \A q \in Proc \ {p} : op'[q] = op[q]
        /\ pc'[p] = "user" /\ op'[p].pipe = NoPipe
    <3>1. op' \in [Proc -> OpType] /\ op'[p] = NoOp /\ \A q \in Proc \ {p} : op'[q] = op[q]
      BY <1>5, <1>10, Zenon
    <3>2. /\ pc' \in [Proc -> Label] /\ pc'[p] = "user"
          /\ \A q \in Proc \ {p} : pc'[q] = pc[q] \/ (pc[q] = "sleep" /\ pc'[q] = "io")
      BY <1>5, <1>10, SMTT(60) DEF Wakeup, Label, Io
    <3> QED
      BY <1>5, <3>1, <3>2, SMTT(60)
  <2>2. \A j \in Pipe : pipe'[j] = IF j = i THEN s ELSE pipe[j]
    BY <1>5, <1>10, Zenon
  <2>3. FInv'
    <3>1. pipe' \in [Pipe -> RingType] /\ quiet' \subseteq Pipe
      BY <1>5, <1>8, <1>10, SMTT(60)
    <3>2. TypeInv'
      BY <1>1, <2>1, <3>1 DEF TypeInv
    <3>3. \A j \in Pipe : pipe'[j].open = pipe[j].open
      BY <1>8, <2>2, SMTT(60)
    <3> QED
      BY <1>1, <2>1, <3>2, <3>3, IoFInv, SMTT(60)
  <2>4. InOrder'
    <3>1. \A j \in Pipe : Ordered(pipe'[j])
      BY <1>1, <1>8, <2>2, InOrderIs, SMTT(60)
    <3> QED
      BY <3>1, Zenon DEF InOrder, Ordered
  <2>5. ASSUME NEW q \in Proc, pc'[q] \in Asleep PROVE Reason(q)'
    <3>1. q # p /\ pc[q] = pc'[q] /\ pc[q] \in Asleep /\ op'[q] = op[q]
      BY <2>1, <2>5, Zenon DEF Asleep
    <3>2. op[q].pipe \in Pipe /\ op[q].end \in End /\ Reason(q)
      BY <1>1, <3>1, IoFacts, SleepInvIs, Zenon DEF Asleep, Io
    <3>3. CASE op[q].pipe # i
      <4>1. pipe'[op[q].pipe] = pipe[op[q].pipe] /\ (op[q].pipe \in quiet' <=> op[q].pipe \in quiet)
        BY <1>10, <2>2, <3>2, <3>3, SMTT(60)
      <4> QED
        BY <1>1, <3>1, <4>1, OtherReason, Zenon
    <3>4. CASE op[q].pipe = i
      <4>1. pipe'[i] = s /\ pc[q] = "sleep"
        BY <1>4, <2>2, <3>1, <3>4, SMTT(60) DEF Unlocked, Asleep
      <4>2. op[q].end = "read"
        BY <1>10, <3>1, <3>2, <3>4, <4>1, Zenon DEF Wakeup, End
      <4>3. "write" \in pipe[i].open /\ i \in quiet
        BY <1>10, <3>2, <3>4, <4>2 DEF Reason
      <4>4. s.nread = s.nwrite \/ i \in quiet'
        <5>1. CASE k < Held(pipe[i])
          BY <1>10, <4>3, <5>1
        <5>2. CASE ~ (k < Held(pipe[i]))
          <6>1. Held(s) = 0
            BY <1>6, <1>7, <1>8, <5>2, SMTT(60)
          <6> QED
            BY <1>8, <6>1, HeldIs, Zenon
        <5> QED
          BY <5>1, <5>2, Zenon
      <4> QED
        BY <1>8, <3>1, <3>4, <4>1, <4>2, <4>3, <4>4, ZenonT(60) DEF Reason
    <3> QED
      BY <3>3, <3>4, Zenon
  <2>6. SleepInv'
    BY <2>5, Zenon DEF Asleep, Reason, SleepInv
  <2> QED
    BY <2>3, <2>4, <2>6, Zenon DEF IInv
<1> QED
  BY <1>4, <1>9, <1>10, SMTT(60)

(* The steps that leave the rings alone. *)
LEMMA QuietSteps ==
  ASSUME IInv, NEW p \in Proc,
         \/ \E fd \in Fd : SysDup(p, fd) \/ SysClose(p, fd)
         \/ \E fd \in Fd, n \in Sizes : SysReadWrite(p, fd, n)
         \/ \E q \in Proc : Fork(p, q)
         \/ \E k \in 1 .. 2 : FileAlloc(p, k)
         \/ CloseLocal(p) \/ Sleep(p) \/ Exit(p) \/ ExitClose(p) \/ Kill(p)
  PROVE  IInv'
<1>1. FInv /\ InOrder /\ SleepInv /\ pc \in [Proc -> Label] /\ op \in [Proc -> OpType]
  BY DEF IInv, FInv, TypeInv
<1>2. FInv'
  BY <1>1, DupFInv, CloseFInv, SysReadWriteFInv, ForkFInv, FileAllocFInv, CloseLocalFInv, SMTT(60),
     SleepFInv, ExitFInv, ExitCloseFInv, KillFInv
<1>3. pipe' = pipe /\ quiet' = quiet
  BY ZenonT(60) DEF SysDup, SysClose, SysReadWrite, Fork, FileAlloc, CloseLocal, FileClose, Sleep, Exit,
         ExitClose, Kill
<1>4. ASSUME NEW q \in Proc, pc'[q] \in Asleep PROVE pc[q] \in Asleep /\ op'[q] = op[q]
  <2>1. CASE \/ \E fd \in Fd : SysDup(p, fd) \/ SysClose(p, fd)
             \/ \E r \in Proc : Fork(p, r)
             \/ \E k \in 1 .. 2 : FileAlloc(p, k)
             \/ Sleep(p) \/ Exit(p) \/ Kill(p)
    <3>1. op' = op
      BY <2>1, ZenonT(60) DEF SysDup, SysClose, Fork, FileAlloc, Sleep, Exit, Kill
    <3>2. \/ pc' = pc
          \/ pc[p] = "tosleep" /\ pc' = [pc EXCEPT ![p] = "sleep"]
          \/ \E l \in Label \ Asleep : pc' = [pc EXCEPT ![p] = l]
          \/ pc' = [pc EXCEPT ![p] = IF pc[p] = "sleep" THEN "io" ELSE pc[p]]
      BY <2>1, ZenonT(60) DEF SysDup, SysClose, Fork, FileAlloc, Sleep, Exit, Kill, Goto, Label, Asleep, Io, Fresh
    <3> QED
      BY <1>1, <1>4, <3>1, <3>2, SMTT(60) DEF Asleep
  <2>2. CASE \E fd \in Fd, n \in Sizes : SysReadWrite(p, fd, n)
    BY <1>1, <1>4, <2>2, ZenonT(60) DEF SysReadWrite, Goto, Asleep
  <2>3. CASE CloseLocal(p) \/ ExitClose(p)
    <3>1. ASSUME NEW f, NEW return \in {"user", "exit", "fileclose"}, FileClose(p, f, return)
          PROVE  pc[q] \in Asleep /\ op'[q] = op[q]
      <4>1. \E l \in {"panic", "pipeclose", "user", "exit", "fileclose"} : pc' = [pc EXCEPT ![p] = l]
        <5> DEFINE l == CASE file[f].ref < 1 -> "panic"
                          [] LastClose(f) /\ file[f].type = "pipe" -> "pipeclose"
                          [] OTHER -> return
        <5>1. pc' = [pc EXCEPT ![p] = l]
          BY <3>1, Zenon DEF FileClose, Goto
        <5>2. l \in {"panic", "pipeclose", "user", "exit", "fileclose"}
          OBVIOUS
        <5> HIDE DEF l
        <5> QED
          BY <5>1, <5>2, ZenonT(60)
      <4>2. q # p
        BY <1>1, <1>4, <4>1, Zenon DEF Asleep
      <4>3. op' = op \/ \E o : op' = [op EXCEPT ![p] = o]
        BY <3>1 DEF FileClose
      <4> QED
        BY <1>1, <1>4, <4>1, <4>2, <4>3
    <3>2. CASE Goto(p, "user") /\ UNCHANGED op
      BY <1>1, <1>4, <3>2, Zenon DEF Goto, Asleep
    <3>3. \/ \E f, return : return \in {"user", "exit", "fileclose"} /\ FileClose(p, f, return)
          \/ Goto(p, "user") /\ UNCHANGED op
      BY <2>3 DEF CloseLocal, ExitClose
    <3> QED
      BY <3>1, <3>2, <3>3, ZenonT(60)
  <2> QED
    BY <2>1, <2>2, <2>3, Zenon
<1> QED
  BY <1>1, <1>2, <1>3, <1>4, RingFrame, Zenon DEF IInv


(* The invariant holds at the start. *)
LEMMA InitIInv == Init => IInv
<1> SUFFICES ASSUME Init PROVE IInv
  BY Zenon
<1>1. PICK p \in Proc : /\ live = {p}
                        /\ ofile = [q \in Proc |-> [fd \in Fd |-> IF q = p /\ fd = 0 THEN 1 ELSE NoFile]]
  BY Zenon DEF Init
<1>2. /\ killed = {} /\ page = {} /\ quiet = {}
      /\ pipe = [i \in Pipe |-> NoRing] /\ pc = [q \in Proc |-> "user"]
      /\ op = [q \in Proc |-> NoOp] /\ local = [q \in Proc |-> [k \in 1 .. 2 |-> NoFile]]
      /\ file = [f \in File |-> IF f = 1 THEN [Freed EXCEPT !.ref = 1, !.type = "inode"] ELSE Freed]
  BY DEF Init
<1>3. 1 \in File /\ 0 \in Fd /\ NoFile \notin File
  BY Constants, FinitePlaces DEF File, Fd
<1>4. PICK x : x = [Freed EXCEPT !.ref = 1, !.type = "inode"]
  BY Zenon
<1>5. /\ x \in FileType /\ x.ref = 1 /\ x.type = "inode" /\ x.pipe = NoPipe
      /\ Freed \in FileType /\ Freed.ref = 0 /\ Freed.type = "none" /\ Freed.pipe = NoPipe
  BY <1>4, Zenon DEF Freed, FileType
<1>6. file = [f \in File |-> IF f = 1 THEN x ELSE Freed]
  BY <1>2, <1>4, Zenon
<1>7. NoOp \in OpType /\ NoOp.pipe = NoPipe
  BY DEF NoOp, OpType
<1>8. TypeInv
  <2>1. ofile \in [Proc -> [Fd -> File \cup {NoFile}]]
    BY <1>1, <1>3
  <2>2. file \in [File -> FileType]
    BY <1>5, <1>6, Zenon
  <2>3. local \in [Proc -> [1 .. 2 -> File \cup {NoFile}]]
    BY <1>2
  <2>4. pipe \in [Pipe -> RingType] /\ op \in [Proc -> OpType] /\ pc \in [Proc -> Label]
    BY <1>2, <1>7, NoRingType DEF Label
  <2> QED
    BY <1>1, <1>2, <2>1, <2>2, <2>3, <2>4, SMTT(60) DEF TypeInv
<1>9. RefInv
  <2>1. ASSUME NEW f \in File PROVE file[f].ref = Total(ofile, local, f)
    <3>1. Refs(local, 1 .. 2, f) = {}
      BY <1>2, <1>3 DEF Refs
    <3>2. CASE f = 1
      <4>1. Refs(ofile, Fd, f) = {<<p, 0>>}
        <5>1. ASSUME NEW z \in Proc \X Fd PROVE ofile[z[1]][z[2]] = f <=> z = <<p, 0>>
          BY <1>1, <1>3, <3>2
        <5>2. <<p, 0>> \in Proc \X Fd
          BY <1>3, Zenon
        <5> QED
          BY <5>1, <5>2, Zenon DEF Refs
      <4>2. Cardinality(Refs(ofile, Fd, f)) = 1 /\ Cardinality(Refs(local, 1 .. 2, f)) = 0
        BY <3>1, <4>1, FS_Singleton, FS_EmptySet, ZenonT(60)
      <4> QED
        BY <1>5, <1>6, <3>2, <4>2, SMTT(60) DEF Total
    <3>3. CASE f # 1
      <4>1. Refs(ofile, Fd, f) = {}
        BY <1>1, <1>3, <3>3 DEF Refs
      <4>2. Cardinality(Refs(ofile, Fd, f)) = 0 /\ Cardinality(Refs(local, 1 .. 2, f)) = 0
        BY <3>1, <4>1, FS_EmptySet
      <4> QED
        BY <1>5, <1>6, <3>3, <4>2 DEF Total
    <3> QED
      BY <3>2, <3>3, Zenon
  <2> QED
    BY <2>1 DEF RefInv
<1>10. KindInv
  BY <1>5, <1>6, Zenon DEF KindInv
<1>11. PlaceInv
  <2>1. ASSUME NEW q \in Proc PROVE Place(q)
    <3>1. /\ pc[q] = "user" /\ op[q].pipe = NoPipe /\ \A k \in 1 .. 2 : local[q][k] = NoFile
          /\ q \notin live => \A fd \in Fd : ofile[q][fd] = NoFile
      BY <1>1, <1>2, <1>7
    <3> QED
      BY <3>1, Zenon DEF Place, Io, Fresh
  <2> QED
    BY <2>1, SMTT(60) DEF PlaceInv
<1>12. EndInv
  <2>1. \A f \in File, i \in Pipe, end \in End : ~ Has(f, i, end)
    BY <1>5, <1>6 DEF Has
  <2>2. \A q \in Proc, i \in Pipe, end \in End : ~ Closes(q, i, end)
    BY <1>2, Zenon DEF Closes
  <2>3. \A i \in Pipe : pipe[i].open = {}
    BY <1>2, NoRingType
  <2> QED
    BY <1>2, <2>1, <2>2, <2>3 DEF EndInv
<1>13. InOrder
  BY <1>2, NoRingOrdered, InOrderIs, Zenon
<1>14. SleepInv
  BY <1>2 DEF SleepInv
<1> QED
  BY <1>8, <1>9, <1>10, <1>11, <1>12, <1>13, <1>14, SMTT(60) DEF IInv, FInv

(* The invariant is inductive. *)
LEMMA NextIInv == IInv /\ [Next]_vars => IInv'
<1> SUFFICES ASSUME IInv, [Next]_vars PROVE IInv'
  BY SMTT(60)
<1>1. CASE UNCHANGED vars
  <2>1. TypeInv' /\ RefInv' /\ KindInv'
    BY <1>1, Zenon DEF vars, IInv, FInv, TypeInv, RefInv, KindInv
  <2>2. PlaceInv'
    <3>1. PlaceInv /\ UNCHANGED <<live, ofile, file, pc, op, local>>
      BY <1>1, Zenon DEF vars, IInv, FInv
    <3>2. ASSUME NEW q \in Proc PROVE Place(q)'
      <4>1. Place(q)
        BY <3>1, Zenon DEF PlaceInv
      <4> QED
        BY <3>1, <4>1, Zenon DEF Place
    <3> QED
      BY <3>2, Zenon DEF PlaceInv
  <2>3. EndInv'
    <3>1. EndInv /\ UNCHANGED <<page, pipe, file, pc, op>>
      BY <1>1, Zenon DEF vars, IInv, FInv
    <3>2. \A g \in File, i \in Pipe, end \in End : Has(g, i, end)' <=> Has(g, i, end)
      BY <3>1, Zenon DEF Has
    <3>3. \A q \in Proc, i \in Pipe, end \in End : Closes(q, i, end)' <=> Closes(q, i, end)
      BY <3>1, Zenon DEF Closes
    <3> QED
      BY <3>1, <3>2, <3>3, EndFrame, Zenon
  <2>4. InOrder' /\ SleepInv'
    BY <1>1, Zenon DEF vars, IInv, InOrder, SleepInv
  <2> QED
    BY <2>1, <2>2, <2>3, <2>4, Zenon DEF IInv, FInv
<1>2. ASSUME NEW p \in Proc, PipeAlloc(p) PROVE IInv'
  BY <1>2, PipeAllocFInv, PipeAllocRings, Zenon DEF IInv
<1>3. ASSUME NEW p \in Proc, PipeClose(p) PROVE IInv'
  BY <1>3, PipeCloseFInv, PipeCloseRings DEF IInv
<1>4. ASSUME NEW p \in Proc, PipeRead(p) \/ PipeWrite(p) PROVE IInv'
  BY <1>4, PipeReadIInv, PipeWriteIInv, Zenon
<1> QED
  BY <1>1, <1>2, <1>3, <1>4, QuietSteps DEF Next

--------------------------------------------------------------------------------
(* The inductive invariant holds of every behaviour of file.c and pipe.c. *)
THEOREM Invariance == Spec => []IInv
  BY InitIInv, NextIInv, PTL DEF Spec

(* References are exact and a pipe's page outlives its users, through any   *)
(* interleaving of dup, fork, exit, close and failed pipe() (file.c:56-80,  *)
(* pipe.c:59-75).                                                           *)
THEOREM FilesAlwaysSound == Spec => []FilesSound
<1>1. IInv => FilesSound
  <2> SUFFICES ASSUME IInv PROVE FilesSound
    BY Zenon
  <2>1. FInv /\ TypeInv /\ RefInv /\ KindInv /\ PlaceInv /\ EndInv
    BY Zenon DEF IInv, FInv
  <2>2. \A f \in File :
          file[f].ref = Cardinality(Refs(ofile, Fd, f)) + Cardinality(Refs(local, 1 .. 2, f))
    BY <2>1, Zenon DEF RefInv, Total
  <2>3. ASSUME NEW i \in Pipe
        PROVE  pipe[i].open = {end \in End : EndOpen(i, end)} /\ (i \in page <=> pipe[i].open # {})
    <3>1. pipe[i].open \subseteq End
      BY <2>1, RingFields, Zenon DEF TypeInv
    <3>2. ASSUME NEW end \in End PROVE end \in pipe[i].open <=> EndOpen(i, end)
      <4>1. \A f \in File : Has(f, i, end) <=>
              file[f].ref > 0 /\ file[f].pipe = i /\ file[f].end = end
        BY <2>1, Constants, Zenon DEF Has, KindInv
      <4>2. \A p \in Proc : Closes(p, i, end) <=>
              pc[p] = "pipeclose" /\ op[p].pipe = i /\ op[p].end = end
        BY SMTT(60) DEF Closes
      <4>3. end \in pipe[i].open <=> \/ \E f \in File : Has(f, i, end)
                                     \/ \E p \in Proc : Closes(p, i, end)
        BY <2>1, Zenon DEF EndInv
      <4> QED
        BY <4>1, <4>2, <4>3, SMTT(60) DEF EndOpen
    <3> QED
      BY <2>1, <3>1, <3>2, Zenon DEF EndInv
  <2>4. ASSUME NEW p \in Proc PROVE pc[p] # "panic" /\ (op[p].pipe # NoPipe => op[p].pipe \in page)
    <3>1. pc[p] # "panic"
      BY <2>1, Zenon DEF TypeInv, Label, Io, Fresh
    <3>2. CASE pc[p] \in Io
      BY <2>1, <3>1, <3>2, IoFacts, Zenon
    <3>3. CASE pc[p] = "pipeclose"
      <4>1. Closes(p, op[p].pipe, op[p].end) /\ op[p].pipe \in Pipe /\ op[p].end \in End
        BY <2>1, <3>3, Zenon DEF Closes, PlaceInv, Place
      <4> QED
        BY <2>1, <3>1, <4>1, Zenon DEF EndInv
    <3>4. CASE pc[p] \notin Io \cup {"pipeclose"}
      BY <2>1, <3>1, <3>4, Zenon DEF PlaceInv, Place
    <3> QED
      BY <3>2, <3>3, <3>4, Zenon
  <2> QED
    BY <2>2, <2>3, <2>4, Zenon DEF FilesSound
<1> QED
  BY <1>1, Invariance, PTL

(* Bytes come out of a pipe in the order they went in, none lost and none   *)
(* twice, for every size of the ring and through wrap-around (pipe.c:93,    *)
(* 116).                                                                    *)
THEOREM BytesAlwaysInOrder == Spec => []InOrder
<1>1. IInv => InOrder
  BY SMTT(60) DEF IInv
<1> QED
  BY <1>1, Invariance, PTL

(* Whoever sleeps in piperead() or pipewrite() has a reason to (pipe.c:85,  *)
(* 106): no wakeup is lost.                                                 *)
THEOREM SleepAlwaysJustified == Spec => []SleepJustified
<1>1. IInv => SleepJustified
  BY Zenon DEF IInv, SleepInv, SleepJustified
<1> QED
  BY <1>1, Invariance, PTL
================================================================================
