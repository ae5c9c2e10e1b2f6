--------------------------- MODULE ByteArrayProofs ---------------------------
(***************************************************************************)
(* Proofs about ByteArray for every size of the blocks, width of a byte,   *)
(* byte order of the host, and program.  The loops of the code are         *)
(* recursive functions; what they compute is proved by looking at the      *)
(* least argument for which it would be wrong (LeastElement).              *)
(***************************************************************************)
EXTENDS ByteArray, TLAPS, WellFoundedInduction, SequenceTheorems

-----------------------------------------------------------------------------
(* Numbers and sequences. *)

(* A set of naturals that is not empty has a least element. *)
LEMMA LeastElement ==
  ASSUME NEW T, T \subseteq Nat, T # {}
  PROVE  \E n \in T : \A m \in T : n <= m
<1>1. PICK R : R = OpToRel(<, Nat)
  OBVIOUS
<1>2. IsWellFoundedOn(R, Nat)
  BY <1>1, NatLessThanWellFounded
<1>3. \E n \in T : \A m \in T : ~(<<m, n>> \in R)
  BY <1>2, WFMin
<1>4. \A m, k \in Nat : m < k => <<m, k>> \in R
  BY <1>1 DEF OpToRel
<1>5. PICK n \in T : \A m \in T : ~(<<m, n>> \in R)
  BY <1>3
<1>6. \A m \in T : ~(m < n)
  BY <1>4, <1>5
<1> QED
  BY <1>6

(* Products are monotonic. *)
LEMMA TimesMono ==
  ASSUME NEW a \in Nat, NEW m \in Nat, NEW n \in Nat, m <= n
  PROVE  a * m <= a * n /\ a * m \in Nat /\ a * n \in Nat
<1>1. PICK d \in Nat : n = m + d
  <2>1. n - m \in Nat /\ n = m + (n - m)
    OBVIOUS
  <2> QED
    BY <2>1
<1>2. a * n = a * m + a * d /\ a * d \in Nat
  BY <1>1
<1> QED
  BY <1>2

(* Division with remainder, *)
LEMMA DivMod ==
  ASSUME NEW p \in Nat, NEW b \in Nat \ {0}
  PROVE  p \div b \in Nat /\ p % b \in 0..b-1 /\ p = (p \div b) * b + (p % b)
<1>1. p \div b \in Int /\ p % b \in 0..b-1
  OBVIOUS
<1>2. p = (p \div b) * b + (p % b)
  OBVIOUS
<1>3. PICK q \in Int, r \in 0..b-1 : q = p \div b /\ r = p % b
  BY <1>1
<1>4. q >= 0
  <2>1. q <= -1 => q * b <= (-1) * b
    OBVIOUS
  <2> QED
    BY <1>2, <1>3, <2>1
<1>5. p \div b \in Nat
  BY <1>3, <1>4
<1> QED
  BY <1>1, <1>2, <1>5

(* as names for quotient and remainder, *)
LEMMA Divided ==
  ASSUME NEW p \in Nat, NEW b \in Nat \ {0}
  PROVE  \E q \in Nat, r \in 0..b-1 : q = p \div b /\ r = p % b /\ p = q * b + r
<1>1. p \div b \in Nat /\ p % b \in 0..b-1 /\ p = (p \div b) * b + (p % b)
  BY DivMod
<1> WITNESS p \div b \in Nat, p % b \in 0..b-1
<1> QED
  BY <1>1

(* which is unique. *)
LEMMA DivModUnique ==
  ASSUME NEW b \in Nat \ {0}, NEW q \in Nat, NEW r \in 0..b-1
  PROVE  (q * b + r) \div b = q /\ (q * b + r) % b = r
<1>1. q * b \in Nat
  OBVIOUS
<1>2. PICK p \in Nat : p = q * b + r
  BY <1>1
<1>3. PICK x \in Nat, y \in 0..b-1 : x = p \div b /\ y = p % b /\ p = x * b + y
  BY DivMod
<1>4. x = q
  <2>1. CASE x + 1 <= q
    <3>1. (x + 1) * b <= q * b
      BY <2>1
    <3> QED
      BY <1>2, <1>3, <3>1
  <2>2. CASE q + 1 <= x
    <3>1. (q + 1) * b <= x * b
      BY <2>2
    <3> QED
      BY <1>2, <1>3, <3>1
  <2> QED
    BY <2>1, <2>2
<1> QED
  BY <1>2, <1>3, <1>4

(* The same a block further on. *)
LEMMA DivModNext ==
  ASSUME NEW b \in Nat \ {0}, NEW x \in Nat
  PROVE  (b + x) \div b = (x \div b) + 1 /\ (b + x) % b = x % b
<1>1. PICK q \in Nat, r \in 0..b-1 : q = x \div b /\ r = x % b /\ x = q * b + r
  BY DivMod
<1>2. PICK n \in Nat : n = q + 1
  OBVIOUS
<1>3. b + x = n * b + r
  BY <1>1, <1>2
<1>4. (n * b + r) \div b = n /\ (n * b + r) % b = r
  BY DivModUnique
<1> QED
  BY <1>1, <1>2, <1>3, <1>4

(* A function on 1..n is a sequence. *)
LEMMA SeqOfFn ==
  ASSUME NEW S, NEW n \in Nat, NEW s \in [1..n -> S]
  PROVE  s \in Seq(S) /\ Len(s) = n
OBVIOUS

(* A sequence that is put together from two. *)
LEMMA ConcatIs ==
  ASSUME NEW S, NEW s \in Seq(S), NEW t \in Seq(S), NEW r \in Seq(S),
         Len(r) = Len(s) + Len(t),
         \A i \in 1..Len(s) : r[i] = s[i],
         \A i \in 1..Len(t) : r[Len(s) + i] = t[i]
  PROVE  s \o t = r
<1>1. /\ s \o t \in Seq(S) /\ Len(s \o t) = Len(s) + Len(t)
      /\ \A i \in 1..Len(s) + Len(t) : (s \o t)[i] = IF i <= Len(s) THEN s[i] ELSE t[i - Len(s)]
  BY ConcatProperties
<1>2. PICK c \in Seq(S) : c = s \o t
  BY <1>1
<1>3. Len(s) \in Nat /\ Len(t) \in Nat /\ Len(c) = Len(r)
  BY <1>1, <1>2, LenProperties
<1>4. ASSUME NEW i \in 1..Len(c) PROVE c[i] = r[i]
  <2>1. CASE i <= Len(s)
    BY <1>1, <1>2, <1>3, <2>1
  <2>2. CASE ~(i <= Len(s))
    <3>1. i - Len(s) \in 1..Len(t) /\ i = Len(s) + (i - Len(s))
      BY <1>1, <1>2, <1>3, <2>2
    <3> QED
      BY <1>1, <1>2, <1>3, <2>2, <3>1
  <2> QED
    BY <2>1, <2>2
<1> QED
  BY <1>2, <1>3, <1>4, SeqEqual

-----------------------------------------------------------------------------
(* The loop over the blocks. *)

Where == Nat \X Nat \X (0..BaseSize-1) \X Nat

(* The block j blocks behind cur, *)
BlockAfter(last, cur, j) == IF j = 0 THEN cur ELSE IF cur # Null /\ cur + j <= last THEN cur + j ELSE Null

(* and the cells of len bytes, without a loop. *)
FlatCells(last, cur, npos, len) ==
    [k \in 1..len |-> <<BlockAfter(last, cur, (npos + k - 1) \div BaseSize), (npos + k - 1) % BaseSize>>]

(* One round of the loop. *)
Round(f, last, cur, npos, len) ==
    LET ncap == BaseSize - npos
        piece(n) == [k \in 1..n |-> <<cur, npos + k - 1>>]
    IN  IF ncap >= len THEN piece(len)
        ELSE piece(ncap) \o f[<<last, NextOf(last, cur), 0, len - ncap>>]

(* The next round, if there is one, gives the cells behind this block. *)
Continues(f, last, cur, npos, len) ==
    len > BaseSize - npos =>
        f[<<last, NextOf(last, cur), 0, len - (BaseSize - npos)>>] =
            FlatCells(last, NextOf(last, cur), 0, len - (BaseSize - npos))

(* The blocks behind the next one. *)
LEMMA NextBlock ==
  ASSUME NEW last \in Nat, NEW cur \in Nat, NEW j \in Nat
  PROVE  /\ NextOf(last, cur) \in Nat /\ BlockAfter(last, cur, j) \in Nat
         /\ BlockAfter(last, NextOf(last, cur), j) = BlockAfter(last, cur, j + 1)
BY DEF NextOf, BlockAfter, Null

(* The cells of the next block on are those of the loop's next round. *)
LEMMA FlatRound ==
  ASSUME NEW f, NEW last \in Nat, NEW cur \in Nat, NEW npos \in 0..BaseSize-1, NEW len \in Nat,
         Continues(f, last, cur, npos, len)
  PROVE  /\ Round(f, last, cur, npos, len) = FlatCells(last, cur, npos, len)
         /\ FlatCells(last, cur, npos, len) \in Seq(Nat \X Nat) /\ Len(FlatCells(last, cur, npos, len)) = len
<1> USE BaseSizeAssumption
<1> DEFINE at(k) == <<BlockAfter(last, cur, (npos + k - 1) \div BaseSize), (npos + k - 1) % BaseSize>>
           ncap == BaseSize - npos
<1>1. \A k \in 1..len : at(k) \in Nat \X Nat
  <2> SUFFICES ASSUME NEW k \in 1..len PROVE at(k) \in Nat \X Nat
    OBVIOUS
  <2>1. PICK x \in Nat : x = npos + k - 1
    OBVIOUS
  <2>2. PICK q \in Nat, r \in 0..BaseSize-1 : q = x \div BaseSize /\ r = x % BaseSize
    BY DivMod
  <2>3. at(k) = <<BlockAfter(last, cur, q), r>> /\ r \in Nat
    BY <2>1, <2>2
  <2> QED
    BY <2>3, NextBlock
<1>2. FlatCells(last, cur, npos, len) = [k \in 1..len |-> at(k)]
  BY DEF FlatCells
<1>3. ASSUME NEW k \in 1..len, k <= ncap PROVE at(k) = <<cur, npos + k - 1>>
  <2>1. PICK r \in 0..BaseSize-1 : r = npos + k - 1
    BY <1>3
  <2>2. (0 * BaseSize + r) \div BaseSize = 0 /\ (0 * BaseSize + r) % BaseSize = r
    BY DivModUnique
  <2>3. 0 * BaseSize + r = r
    OBVIOUS
  <2>4. (npos + k - 1) \div BaseSize = 0 /\ (npos + k - 1) % BaseSize = npos + k - 1
    BY <2>1, <2>2, <2>3
  <2> QED
    BY <2>4 DEF BlockAfter
<1>4. ASSUME NEW k \in 1..len, k > ncap
      PROVE  at(k) = <<BlockAfter(last, NextOf(last, cur), (k - ncap - 1) \div BaseSize), (k - ncap - 1) % BaseSize>>
  <2>1. PICK x \in Nat : x = k - ncap - 1
    BY <1>4
  <2>2. npos + k - 1 = BaseSize + x
    BY <2>1
  <2>3. (npos + k - 1) \div BaseSize = (x \div BaseSize) + 1 /\ (npos + k - 1) % BaseSize = x % BaseSize
    BY <2>2, DivModNext
  <2>4. PICK q \in Nat : q = x \div BaseSize
    BY DivMod
  <2>5. BlockAfter(last, NextOf(last, cur), q) = BlockAfter(last, cur, q + 1)
    BY NextBlock
  <2>6. at(k) = <<BlockAfter(last, NextOf(last, cur), x \div BaseSize), x % BaseSize>>
    BY <2>3, <2>4, <2>5
  <2> QED
    BY <2>1, <2>6
<1> HIDE DEF at
<1>5. PICK c : c = [k \in 1..len |-> at(k)]
  OBVIOUS
<1>6. c \in Seq(Nat \X Nat) /\ Len(c) = len /\ \A k \in 1..len : c[k] = at(k)
  BY <1>1, <1>5
<1>7. CASE ncap >= len
  <2>1. [k \in 1..len |-> <<cur, npos + k - 1>>] = c
    BY <1>3, <1>5, <1>7
  <2> QED
    BY <1>2, <1>5, <1>6, <1>7, <2>1 DEF Round
<1>8. CASE ncap < len
  <2>1. PICK n \in Nat, m \in Nat : n = ncap /\ m = len - ncap
    BY <1>8
  <2>2. PICK s : s = [k \in 1..n |-> <<cur, npos + k - 1>>]
    OBVIOUS
  <2>3. s \in Seq(Nat \X Nat) /\ Len(s) = n /\ \A k \in 1..n : s[k] = <<cur, npos + k - 1>>
    BY <2>2
  <2>4. PICK t : t = FlatCells(last, NextOf(last, cur), 0, m)
    OBVIOUS
  <2>5. ASSUME NEW k \in 1..m
        PROVE  n + k \in 1..len /\ c[n + k] = <<BlockAfter(last, NextOf(last, cur), (0 + k - 1) \div BaseSize), (0 + k - 1) % BaseSize>>
    <3>1. PICK i \in 1..len : i = n + k
      BY <2>1
    <3>2. i > ncap /\ i - ncap - 1 = 0 + k - 1
      BY <2>1, <3>1
    <3>3. at(i) = <<BlockAfter(last, NextOf(last, cur), (i - ncap - 1) \div BaseSize), (i - ncap - 1) % BaseSize>>
      BY <1>4, <3>2
    <3> QED
      BY <1>6, <3>1, <3>2, <3>3
  <2>6. t = [k \in 1..m |-> c[n + k]]
    <3>1. t = [k \in 1..m |-> <<BlockAfter(last, NextOf(last, cur), (0 + k - 1) \div BaseSize), (0 + k - 1) % BaseSize>>]
      BY <2>4 DEF FlatCells
    <3> QED
      BY <2>5, <3>1
  <2>7. \A k \in 1..m : c[n + k] \in Nat \X Nat
    BY <1>6, <2>5, ElementOfSeq
  <2>8. t \in Seq(Nat \X Nat) /\ Len(t) = m /\ \A k \in 1..m : t[k] = c[n + k]
    <3>1. t \in [1..m -> Nat \X Nat] /\ \A k \in 1..m : t[k] = c[n + k]
      BY <2>6, <2>7
    <3> QED
      BY <3>1, SeqOfFn
  <2>9. s \o t = c
    <3>1. Len(c) = Len(s) + Len(t)
      BY <1>6, <2>1, <2>3, <2>8
    <3>2. ASSUME NEW k \in 1..Len(s) PROVE c[k] = s[k]
      <4>1. k \in 1..len /\ k <= ncap /\ k \in 1..n
        BY <2>1, <2>3
      <4> QED
        BY <1>3, <1>6, <2>3, <4>1
    <3>3. \A k \in 1..Len(t) : c[Len(s) + k] = t[k]
      BY <2>3, <2>8
    <3> QED
      BY <1>6, <2>3, <2>8, <3>1, <3>2, <3>3, ConcatIs
  <2>10. Round(f, last, cur, npos, len) = s \o f[<<last, NextOf(last, cur), 0, m>>]
    <3>1. ~(BaseSize - npos >= len)
      BY <1>8
    <3>2. Round(f, last, cur, npos, len) = [k \in 1..BaseSize - npos |-> <<cur, npos + k - 1>>] \o f[<<last, NextOf(last, cur), 0, len - (BaseSize - npos)>>]
      BY <3>1, Zenon DEF Round
    <3> QED
      BY <2>1, <2>2, <3>2
  <2>11. f[<<last, NextOf(last, cur), 0, m>>] = t
    <3>1. m = len - (BaseSize - npos) /\ len > BaseSize - npos
      BY <1>8, <2>1
    <3> QED
      BY <2>4, <3>1 DEF Continues
  <2> QED
    BY <1>2, <1>5, <1>6, <2>9, <2>10, <2>11
<1> QED
  BY <1>7, <1>8

(* The function that Cells defines exists: it satisfies its equation. *)
LEMMA CellsEquation == Cells = [w \in Where |-> Round(Cells, w[1], w[2], w[3], w[4])]
<1>1. PICK f : f = [w \in Where |-> FlatCells(w[1], w[2], w[3], w[4])]
  OBVIOUS
<1>2. ASSUME NEW w \in Where PROVE f[w] = Round(f, w[1], w[2], w[3], w[4])
  <2>1. PICK last \in Nat, cur \in Nat, npos \in 0..BaseSize-1, len \in Nat : w = <<last, cur, npos, len>>
    BY DEF Where
  <2>2. ASSUME len > BaseSize - npos
        PROVE  f[<<last, NextOf(last, cur), 0, len - (BaseSize - npos)>>] =
                  FlatCells(last, NextOf(last, cur), 0, len - (BaseSize - npos))
    <3>1. PICK n \in Nat, m \in Nat, z \in 0..BaseSize-1 : n = NextOf(last, cur) /\ m = len - (BaseSize - npos) /\ z = 0
      BY <2>2, NextBlock, BaseSizeAssumption
    <3>2. <<last, n, z, m>> \in Where
      BY DEF Where
    <3>3. f[<<last, n, z, m>>] = FlatCells(last, n, z, m)
      BY <1>1, <3>2
    <3> QED
      BY <3>1, <3>3
  <2>3. Continues(f, last, cur, npos, len)
    BY <2>2 DEF Continues
  <2>4. Round(f, last, cur, npos, len) = FlatCells(last, cur, npos, len)
    BY <2>3, FlatRound
  <2> QED
    BY <1>1, <2>1, <2>4
<1>3. f = [w \in Where |-> Round(f, w[1], w[2], w[3], w[4])]
  BY <1>1, <1>2
<1> QED
  BY <1>3 DEF Cells, Round, Where

(* The loop gives these cells, for every argument. *)
LEMMA CellsAre ==
  ASSUME NEW last \in Nat, NEW cur \in Nat, NEW npos \in 0..BaseSize-1, NEW len \in Nat
  PROVE  /\ Cells[<<last, cur, npos, len>>] = FlatCells(last, cur, npos, len)
         /\ FlatCells(last, cur, npos, len) \in Seq(Nat \X Nat) /\ Len(FlatCells(last, cur, npos, len)) = len
<1> DEFINE Wrong(n) == \E w \in Where : w[4] = n /\ Cells[w] # FlatCells(w[1], w[2], w[3], w[4])
<1>1. ASSUME NEW l \in Nat, NEW c \in Nat, NEW p \in 0..BaseSize-1, NEW n \in Nat,
             \A m \in Nat : m < n => ~Wrong(m)
      PROVE  Continues(Cells, l, c, p, n) /\ Cells[<<l, c, p, n>>] = Round(Cells, l, c, p, n)
  <2>1. ASSUME n > BaseSize - p
        PROVE  Cells[<<l, NextOf(l, c), 0, n - (BaseSize - p)>>] = FlatCells(l, NextOf(l, c), 0, n - (BaseSize - p))
    <3>1. PICK x \in Nat, m \in Nat, z \in 0..BaseSize-1 : x = NextOf(l, c) /\ m = n - (BaseSize - p) /\ z = 0
      BY <2>1, NextBlock, BaseSizeAssumption
    <3>2. PICK w \in Where : w = <<l, x, z, m>>
      BY DEF Where
    <3>3. m < n
      BY <2>1, <3>1, BaseSizeAssumption
    <3>4. w[1] = l /\ w[2] = x /\ w[3] = z /\ w[4] = m
      BY <3>2
    <3>5. Cells[w] = FlatCells(l, x, z, m)
      BY <1>1, <3>3, <3>4
    <3> QED
      BY <3>1, <3>2, <3>5
  <2>2. PICK w \in Where : w = <<l, c, p, n>>
    BY DEF Where
  <2>3. w[1] = l /\ w[2] = c /\ w[3] = p /\ w[4] = n
    BY <2>2
  <2>4. Cells[w] = Round(Cells, l, c, p, n)
    BY <2>3, CellsEquation
  <2> QED
    BY <2>1, <2>2, <2>4 DEF Continues
<1>2. \A n \in Nat : ~Wrong(n)
  <2> SUFFICES ASSUME {n \in Nat : Wrong(n)} # {} PROVE FALSE
    OBVIOUS
  <2>1. PICK n \in {i \in Nat : Wrong(i)} : \A m \in {i \in Nat : Wrong(i)} : n <= m
    BY LeastElement
  <2>2. n \in Nat /\ Wrong(n) /\ \A m \in Nat : m < n => ~Wrong(m)
    BY <2>1
  <2>3. PICK w \in Where : w[4] = n /\ Cells[w] # FlatCells(w[1], w[2], w[3], w[4])
    BY <2>2
  <2>4. PICK l \in Nat, c \in Nat, p \in 0..BaseSize-1 : w = <<l, c, p, n>>
    BY <2>3 DEF Where
  <2>5. Continues(Cells, l, c, p, n) /\ Cells[<<l, c, p, n>>] = Round(Cells, l, c, p, n)
    BY <1>1, <2>2
  <2>6. Round(Cells, l, c, p, n) = FlatCells(l, c, p, n)
    BY <2>2, <2>5, FlatRound
  <2> QED
    BY <2>3, <2>4, <2>5, <2>6
<1>3. Continues(Cells, last, cur, npos, len) /\ Cells[<<last, cur, npos, len>>] = Round(Cells, last, cur, npos, len)
  BY <1>1, <1>2
<1> QED
  BY <1>3, FlatRound

(* What the lemma says of the cells alone, *)
Flattened(last, cur, npos, len) == Cells[<<last, cur, npos, len>>] = FlatCells(last, cur, npos, len)

(* which is how it is used. *)
LEMMA CellsFlattened ==
  ASSUME NEW last \in Nat, NEW cur \in Nat, NEW npos \in 0..BaseSize-1, NEW len \in Nat
  PROVE  Flattened(last, cur, npos, len)
BY CellsAre DEF Flattened

-----------------------------------------------------------------------------
(* The cells of the array. *)

(* Where byte i of the stream is. *)
CellOf(i) == <<(i \div BaseSize) + 1, i % BaseSize>>

(* Byte i = q * BaseSize + o is at offset o of block q + 1. *)
LEMMA CellParts ==
  ASSUME NEW i \in Nat
  PROVE  \E q \in Nat, o \in 0..BaseSize-1 :
            /\ i = q * BaseSize + o /\ i \div BaseSize = q /\ i % BaseSize = o
            /\ CellOf(i) = <<q + 1, o>>
BY DivMod, BaseSizeAssumption DEF CellOf

(* A byte below the capacity of n blocks is in one of them. *)
LEMMA CellWithin ==
  ASSUME NEW i \in Nat, NEW n \in Nat, i < BaseSize * n
  PROVE  (i \div BaseSize) + 1 \in 1..n
<1>1. PICK q \in Nat, o \in 0..BaseSize-1 : i = q * BaseSize + o /\ i \div BaseSize = q
  BY CellParts
<1>2. q >= n => q * BaseSize >= n * BaseSize
  BY BaseSizeAssumption
<1>3. q < n
  BY <1>1, <1>2, BaseSizeAssumption
<1> QED
  BY <1>1, <1>3

(* Different bytes are in different cells. *)
LEMMA CellInjective ==
  ASSUME NEW i \in Nat, NEW j \in Nat, CellOf(i) = CellOf(j)
  PROVE  i = j
<1>1. PICK q \in Nat, o \in 0..BaseSize-1 : i = q * BaseSize + o /\ CellOf(i) = <<q + 1, o>>
  BY CellParts
<1>2. PICK x \in Nat, y \in 0..BaseSize-1 : j = x * BaseSize + y /\ CellOf(j) = <<x + 1, y>>
  BY CellParts
<1>3. q = x /\ o = y
  BY <1>1, <1>2
<1> QED
  BY <1>1, <1>2, <1>3

(* Bytes k further on. *)
LEMMA CellFurther ==
  ASSUME NEW p \in Nat, NEW k \in Nat
  PROVE  /\ (p + k) \div BaseSize = (p \div BaseSize) + (((p % BaseSize) + k) \div BaseSize)
         /\ (p + k) % BaseSize = ((p % BaseSize) + k) % BaseSize
<1> USE BaseSizeAssumption
<1>1. PICK q \in Nat, o \in 0..BaseSize-1 : p = q * BaseSize + o /\ p \div BaseSize = q /\ p % BaseSize = o
  BY CellParts
<1>2. PICK m \in Nat : m = o + k
  OBVIOUS
<1>3. PICK x \in Nat, y \in 0..BaseSize-1 : m = x * BaseSize + y /\ m \div BaseSize = x /\ m % BaseSize = y
  BY CellParts
<1>4. PICK z \in Nat : z = q + x
  OBVIOUS
<1>5. p + k = z * BaseSize + y
  BY <1>1, <1>2, <1>3, <1>4
<1>6. (z * BaseSize + y) \div BaseSize = z /\ (z * BaseSize + y) % BaseSize = y
  BY DivModUnique
<1> QED
  BY <1>1, <1>2, <1>3, <1>4, <1>5, <1>6

(* m_cur at position p of n blocks. *)
CurAt(p, n) == IF p = BaseSize * n THEN Null ELSE (p \div BaseSize) + 1

(* It moves past a block whose last byte was used. *)
LEMMA CurMoves ==
  ASSUME NEW i \in Nat, NEW n \in Nat, i < BaseSize * n
  PROVE  CurAt(i + 1, n) = IF (i % BaseSize) + 1 = BaseSize THEN NextOf(n, (i \div BaseSize) + 1) ELSE (i \div BaseSize) + 1
<1> USE BaseSizeAssumption
<1>1. PICK q \in Nat, o \in 0..BaseSize-1 : i = q * BaseSize + o /\ i \div BaseSize = q /\ i % BaseSize = o
  BY CellParts
<1>2. q + 1 \in 1..n
  BY <1>1, CellWithin
<1>3. CASE o + 1 = BaseSize
  <2>1. PICK x \in Nat : x = q + 1
    OBVIOUS
  <2>2. i + 1 = x * BaseSize + 0
    BY <1>1, <1>3, <2>1
  <2>3. (x * BaseSize + 0) \div BaseSize = x
    BY DivModUnique
  <2>4. CASE x = n
    <3>1. i + 1 = BaseSize * n
      BY <2>2, <2>4
    <3> QED
      BY <1>1, <1>3, <2>1, <2>4, <3>1 DEF CurAt, NextOf
  <2>5. CASE x < n
    <3>1. (x + 1) * BaseSize <= n * BaseSize
      BY <2>5
    <3>2. i + 1 # BaseSize * n
      BY <2>2, <3>1
    <3>3. x \in 1..n-1
      BY <2>1, <2>5
    <3>4. CurAt(i + 1, n) = x + 1
      BY <2>2, <2>3, <3>2 DEF CurAt
    <3> QED
      BY <1>1, <1>3, <2>1, <3>3, <3>4 DEF NextOf
  <2> QED
    BY <1>2, <2>1, <2>4, <2>5
<1>4. CASE o + 1 # BaseSize
  <2>1. PICK r \in 0..BaseSize-1 : r = o + 1
    BY <1>4
  <2>2. i + 1 = q * BaseSize + r
    BY <1>1, <2>1
  <2>3. (q * BaseSize + r) \div BaseSize = q /\ (q * BaseSize + r) % BaseSize = r
    BY DivModUnique
  <2>4. (n * BaseSize + 0) % BaseSize = 0
    BY DivModUnique
  <2>5. i + 1 # BaseSize * n
    BY <2>1, <2>2, <2>3, <2>4
  <2> QED
    BY <1>1, <1>4, <2>2, <2>3, <2>5 DEF CurAt
<1> QED
  BY <1>3, <1>4

-----------------------------------------------------------------------------
(* The array. *)

Nodes == [0..BaseSize-1 -> Byte]

Rec(p, cap, size, endian, ns, cur, w) ==
    [m_position |-> p, m_capacity |-> cap, m_size |-> size, m_endian |-> endian,
     nodes |-> ns, m_cur |-> cur, wild |-> w]

(* A ByteArray with the given fields; the blocks ns hold all of it. *)
Array(p, size, endian, ns, w) == Rec(p, BaseSize * Len(ns), size, endian, ns, CurAt(p, Len(ns)), w)

Fields(p, size, endian, ns, w) ==
    /\ p \in Nat /\ size \in Nat /\ endian \in {LITTLE, BIG} /\ ns \in Seq(Nodes) /\ w \in BOOLEAN
    /\ Len(ns) \in Nat \ {0} /\ p <= size /\ size <= BaseSize * Len(ns)

(* Its fields fit together: what CurExact says, and the types. *)
Good(b) == /\ b = Array(b.m_position, b.m_size, b.m_endian, b.nodes, b.wild)
           /\ Fields(b.m_position, b.m_size, b.m_endian, b.nodes, b.wild)

(* The fields of a record. *)
LEMMA RecFields ==
  ASSUME NEW p, NEW cap, NEW size, NEW endian, NEW ns, NEW cur, NEW w,
         NEW b, b = Rec(p, cap, size, endian, ns, cur, w)
  PROVE  /\ b.m_position = p /\ b.m_capacity = cap /\ b.m_size = size /\ b.m_endian = endian
         /\ b.nodes = ns /\ b.m_cur = cur /\ b.wild = w
BY DEF Rec

(* An array of fields that fit is good, *)
LEMMA GoodArray ==
  ASSUME NEW p, NEW size, NEW endian, NEW ns, NEW w, Fields(p, size, endian, ns, w),
         NEW b, b = Array(p, size, endian, ns, w)
  PROVE  /\ Good(b) /\ b.m_position = p /\ b.m_size = size /\ b.m_endian = endian /\ b.nodes = ns /\ b.wild = w
         /\ b.m_capacity = BaseSize * Len(ns) /\ b.m_cur = CurAt(p, Len(ns))
<1>1. /\ b.m_position = p /\ b.m_size = size /\ b.m_endian = endian /\ b.nodes = ns /\ b.wild = w
      /\ b.m_capacity = BaseSize * Len(ns) /\ b.m_cur = CurAt(p, Len(ns))
  BY RecFields DEF Array
<1> QED
  BY <1>1 DEF Good

(* and a good one has such fields. *)
LEMMA GoodFields ==
  ASSUME NEW b, Good(b)
  PROVE  /\ b.m_position \in Nat /\ b.m_size \in Nat /\ b.m_endian \in {LITTLE, BIG} /\ b.nodes \in Seq(Nodes)
         /\ b.wild \in BOOLEAN /\ Len(b.nodes) \in Nat \ {0} /\ b.m_position <= b.m_size /\ b.m_size <= b.m_capacity
         /\ b.m_capacity = BaseSize * Len(b.nodes) /\ b.m_cur = CurAt(b.m_position, Len(b.nodes))
         /\ b.m_capacity \in Nat
<1>1. /\ b.m_position \in Nat /\ b.m_size \in Nat /\ b.m_endian \in {LITTLE, BIG} /\ b.nodes \in Seq(Nodes)
      /\ b.wild \in BOOLEAN /\ Len(b.nodes) \in Nat \ {0} /\ b.m_position <= b.m_size
      /\ b.m_size <= BaseSize * Len(b.nodes)
  BY DEF Good, Fields
<1>2. b = Array(b.m_position, b.m_size, b.m_endian, b.nodes, b.wild)
  BY DEF Good
<1>3. b.m_capacity = BaseSize * Len(b.nodes) /\ b.m_cur = CurAt(b.m_position, Len(b.nodes))
  BY <1>2, RecFields DEF Array
<1> QED
  BY <1>1, <1>3, BaseSizeAssumption

(* Blocks that are added. *)
LEMMA MoreBlocks ==
  ASSUME NEW ns \in Seq(Nodes), NEW n \in Nat
  PROVE  LET s == ns \o [i \in 1..n |-> NewNode]
         IN  /\ s \in Seq(Nodes) /\ Len(s) = Len(ns) + n
             /\ \A i \in 1..Len(ns) : s[i] = ns[i]
             /\ \A i \in 1..n : s[Len(ns) + i] = NewNode
<1>1. NewNode \in Nodes
  BY OrderAssumption DEF NewNode, Nodes
<1>2. PICK t : t = [i \in 1..n |-> NewNode]
  OBVIOUS
<1>3. t \in [1..n -> Nodes] /\ \A i \in 1..n : t[i] = NewNode
  BY <1>1, <1>2
<1>4. t \in Seq(Nodes) /\ Len(t) = n
  BY <1>3, SeqOfFn
<1>5. PICK s : s = ns \o t
  OBVIOUS
<1>6. Len(ns) \in Nat /\ s \in Seq(Nodes) /\ Len(s) = Len(ns) + n
  BY <1>4, <1>5, ConcatProperties, LenProperties
<1>7. \A i \in 1..Len(ns) + n : s[i] = IF i <= Len(ns) THEN ns[i] ELSE t[i - Len(ns)]
  BY <1>4, <1>5, ConcatProperties
<1>8. \A i \in 1..Len(ns) : s[i] = ns[i]
  BY <1>6, <1>7
<1>9. ASSUME NEW i \in 1..n PROVE s[Len(ns) + i] = NewNode
  <2>1. Len(ns) + i \in 1..Len(ns) + n /\ ~(Len(ns) + i <= Len(ns)) /\ (Len(ns) + i) - Len(ns) = i
    BY <1>6
  <2> QED
    BY <1>3, <1>7, <2>1
<1> QED
  BY <1>2, <1>5, <1>6, <1>8, <1>9

(* The number of blocks addCapacity adds is enough. *)
LEMMA EnoughBlocks ==
  ASSUME NEW lack \in Nat \ {0}
  PROVE  /\ (lack + BaseSize - 1) \div BaseSize \in Nat \ {0}
         /\ ((lack + BaseSize - 1) \div BaseSize) * BaseSize >= lack
<1> USE BaseSizeAssumption
<1>1. PICK m \in Nat : m = lack + BaseSize - 1
  OBVIOUS
<1>2. PICK q \in Nat, o \in 0..BaseSize-1 : m = q * BaseSize + o /\ m \div BaseSize = q
  BY CellParts
<1>3. q * BaseSize >= lack
  BY <1>1, <1>2
<1>4. q # 0
  BY <1>3
<1> QED
  BY <1>1, <1>2, <1>3, <1>4

(* addCapacity makes room for size bytes at the cursor, and moves nothing. *)
LEMMA AddCapacity ==
  ASSUME NEW b, Good(b), NEW size \in Nat
  PROVE  \E ns \in Seq(Nodes) :
            /\ addCapacity(b, size) = Array(b.m_position, b.m_size, b.m_endian, ns, b.wild)
            /\ Fields(b.m_position, b.m_size, b.m_endian, ns, b.wild)
            /\ Len(ns) >= Len(b.nodes) /\ \A i \in 1..Len(b.nodes) : ns[i] = b.nodes[i]
            /\ b.m_position + size <= BaseSize * Len(ns)
<1> USE BaseSizeAssumption
<1>1. PICK p, sz, e, ns, w : Fields(p, sz, e, ns, w) /\ b = Array(p, sz, e, ns, w)
  BY DEF Good
<1>2. /\ b.m_position = p /\ b.m_size = sz /\ b.m_endian = e /\ b.nodes = ns /\ b.wild = w
      /\ b.m_capacity = BaseSize * Len(ns) /\ b.m_cur = CurAt(p, Len(ns))
  BY <1>1, GoodArray
<1>3. p \in Nat /\ sz \in Nat /\ ns \in Seq(Nodes) /\ Len(ns) \in Nat \ {0} /\ p <= sz /\ sz <= BaseSize * Len(ns)
  BY <1>1 DEF Fields
<1>4. PICK cap \in Nat, old \in Nat : cap = BaseSize * Len(ns) /\ old = cap - p
  BY <1>3
<1>5. getCapacity(b) = old
  BY <1>2, <1>4 DEF getCapacity
<1>6. CASE size = 0 \/ old >= size
  <2>1. addCapacity(b, size) = b
    BY <1>5, <1>6 DEF addCapacity
  <2>2. p + size <= BaseSize * Len(ns)
    BY <1>3, <1>4, <1>6
  <2> QED
    BY <1>1, <1>2, <1>3, <2>1, <2>2
<1>7. CASE ~(size = 0 \/ old >= size)
  <2>1. PICK lack \in Nat \ {0} : lack = size - old
    BY <1>7
  <2>2. PICK n \in Nat \ {0} : n = (lack + BaseSize - 1) \div BaseSize /\ n * BaseSize >= lack
    BY EnoughBlocks
  <2>3. PICK t : t = ns \o [i \in 1..n |-> NewNode]
    OBVIOUS
  <2>4. t \in Seq(Nodes) /\ Len(t) = Len(ns) + n /\ \A i \in 1..Len(ns) : t[i] = ns[i]
    BY <1>3, <2>3, MoreBlocks
  <2>5. cap + n * BaseSize = BaseSize * Len(t)
    BY <1>3, <1>4, <2>4
  <2>6. p + size <= BaseSize * Len(t) /\ p < BaseSize * Len(t) /\ sz <= BaseSize * Len(t)
    BY <1>3, <1>4, <2>1, <2>2, <2>5
  <2>7. (IF old = 0 THEN Len(ns) + 1 ELSE CurAt(p, Len(ns))) = CurAt(p, Len(t))
    <3>1. CASE old = 0
      <4>1. p = Len(ns) * BaseSize + 0
        BY <1>3, <1>4, <3>1
      <4>2. (Len(ns) * BaseSize + 0) \div BaseSize = Len(ns)
        BY <1>3, DivModUnique
      <4> QED
        BY <2>6, <3>1, <4>1, <4>2 DEF CurAt
    <3>2. CASE old # 0
      BY <1>3, <1>4, <2>6, <3>2 DEF CurAt
    <3> QED
      BY <3>1, <3>2
  <2>8. addCapacity(b, size) = [b EXCEPT !.nodes = t, !.m_capacity = cap + n * BaseSize,
                                         !.m_cur = IF old = 0 THEN Len(ns) + 1 ELSE CurAt(p, Len(ns))]
    <3>1. size - old + BaseSize - 1 = lack + BaseSize - 1
      BY <2>1
    <3> QED
      BY <1>2, <1>4, <1>5, <1>7, <2>2, <2>3, <3>1 DEF addCapacity
  <2>9. PICK x, y : x = cap + n * BaseSize /\ y = (IF old = 0 THEN Len(ns) + 1 ELSE CurAt(p, Len(ns)))
    OBVIOUS
  <2>10. [b EXCEPT !.nodes = t, !.m_capacity = x, !.m_cur = y] = Rec(p, x, sz, e, t, y, w)
    <3>1. PICK c, cur : b = Rec(p, c, sz, e, ns, cur, w)
      BY <1>1 DEF Array
    <3>2. PICK b1 : b1 = [b EXCEPT !.nodes = t]
      OBVIOUS
    <3>3. b1 = Rec(p, c, sz, e, t, cur, w)
      BY <3>1, <3>2 DEF Rec
    <3>4. PICK b2 : b2 = [b1 EXCEPT !.m_capacity = x]
      OBVIOUS
    <3>5. b2 = Rec(p, x, sz, e, t, cur, w)
      BY <3>3, <3>4 DEF Rec
    <3>6. [b2 EXCEPT !.m_cur = y] = Rec(p, x, sz, e, t, y, w)
      BY <3>5 DEF Rec
    <3> QED
      BY <3>2, <3>4, <3>6, Zenon
  <2>11. addCapacity(b, size) = Array(p, sz, e, t, w)
    <3>1. addCapacity(b, size) = Rec(p, x, sz, e, t, y, w)
      BY <2>8, <2>9, <2>10, Zenon
    <3>2. x = BaseSize * Len(t) /\ y = CurAt(p, Len(t))
      BY <2>5, <2>7, <2>9
    <3> QED
      BY <3>1, <3>2 DEF Array
  <2>12. Fields(p, sz, e, t, w)
    BY <1>1, <1>3, <2>4, <2>6 DEF Fields
  <2>13. /\ addCapacity(b, size) = Array(b.m_position, b.m_size, b.m_endian, t, b.wild)
         /\ Fields(b.m_position, b.m_size, b.m_endian, t, b.wild)
    BY <1>2, <2>11, <2>12
  <2>14. Len(t) >= Len(b.nodes) /\ \A i \in 1..Len(b.nodes) : t[i] = b.nodes[i]
    BY <1>2, <1>3, <2>4
  <2>15. b.m_position + size <= BaseSize * Len(t)
    BY <1>2, <2>6
  <2> QED
    BY <2>4, <2>13, <2>14, <2>15
<1> QED
  BY <1>6, <1>7

-----------------------------------------------------------------------------
(* Bytes of the array. *)

(* The cells of len bytes from position p on, *)
Run(p, len) == [k \in 1..len |-> CellOf(p + k - 1)]

(* and the byte at position i of the blocks ns. *)
At(ns, i) == ns[(i \div BaseSize) + 1][i % BaseSize]

(* A run of cells is a sequence of cells. *)
LEMMA RunSeq ==
  ASSUME NEW p \in Nat, NEW len \in Nat
  PROVE  /\ Run(p, len) \in Seq(Nat \X Nat) /\ Len(Run(p, len)) = len
         /\ \A k \in 1..len : Run(p, len)[k] = CellOf(p + k - 1)
<1>1. ASSUME NEW k \in 1..len PROVE CellOf(p + k - 1) \in Nat \X Nat
  <2>1. PICK i \in Nat : i = p + k - 1
    OBVIOUS
  <2>2. PICK q \in Nat, o \in 0..BaseSize-1 : CellOf(i) = <<q + 1, o>>
    BY CellParts
  <2> QED
    BY <2>1, <2>2, BaseSizeAssumption
<1>2. PICK s : s = Run(p, len)
  OBVIOUS
<1>3. s \in [1..len -> Nat \X Nat] /\ \A k \in 1..len : s[k] = CellOf(p + k - 1)
  BY <1>1, <1>2 DEF Run
<1> QED
  BY <1>2, <1>3, SeqOfFn

(* The loop that starts in the block of p walks the run. *)
LEMMA CellsFrom ==
  ASSUME NEW last \in Nat, NEW p \in Nat, NEW len \in Nat, p + len <= BaseSize * last
  PROVE  Cells[<<last, (p \div BaseSize) + 1, p % BaseSize, len>>] = Run(p, len)
<1> USE BaseSizeAssumption
<1>1. PICK q \in Nat, o \in 0..BaseSize-1 : p = q * BaseSize + o /\ p \div BaseSize = q /\ p % BaseSize = o
  BY CellParts
<1>2. PICK cur \in Nat : cur = q + 1
  OBVIOUS
<1>3. Cells[<<last, cur, o, len>>] = FlatCells(last, cur, o, len)
  BY CellsAre
<1>4. ASSUME NEW k \in 1..len
      PROVE  <<BlockAfter(last, cur, (o + k - 1) \div BaseSize), (o + k - 1) % BaseSize>> = CellOf(p + k - 1)
  <2>1. PICK x \in Nat, m \in Nat : x = k - 1 /\ m = o + x
    OBVIOUS
  <2>2. (p + x) \div BaseSize = q + (m \div BaseSize) /\ (p + x) % BaseSize = m % BaseSize
    <3>1. /\ (p + x) \div BaseSize = (p \div BaseSize) + (((p % BaseSize) + x) \div BaseSize)
          /\ (p + x) % BaseSize = ((p % BaseSize) + x) % BaseSize
      BY CellFurther
    <3> QED
      BY <1>1, <2>1, <3>1
  <2>3. PICK j \in Nat : j = m \div BaseSize
    BY DivMod
  <2>4. p + x < BaseSize * last
    BY <2>1
  <2>5. ((p + x) \div BaseSize) + 1 \in 1..last
    BY <2>1, <2>4, CellWithin
  <2>6. BlockAfter(last, cur, j) = cur + j
    BY <1>2, <2>2, <2>3, <2>5 DEF BlockAfter, Null
  <2>7. CellOf(p + x) = <<cur + j, m % BaseSize>>
    BY <1>2, <2>2, <2>3 DEF CellOf
  <2>8. p + k - 1 = p + x /\ o + k - 1 = m
    BY <2>1
  <2> QED
    BY <2>3, <2>6, <2>7, <2>8
<1>5. FlatCells(last, cur, o, len) = Run(p, len)
  BY <1>4 DEF FlatCells, Run
<1> QED
  BY <1>1, <1>2, <1>3, <1>5

(* None of its cells is at a null block. *)
LEMMA RunWithin ==
  ASSUME NEW last \in Nat, NEW p \in Nat, NEW len \in Nat, p + len <= BaseSize * last
  PROVE  ~MeetsNull(Run(p, len))
<1> SUFFICES ASSUME NEW k \in 1..len PROVE Run(p, len)[k][1] # Null
  BY RunSeq DEF MeetsNull
<1>1. PICK i \in Nat : i = p + k - 1
  OBVIOUS
<1>2. PICK q \in Nat, o \in 0..BaseSize-1 : CellOf(i) = <<q + 1, o>>
  BY CellParts
<1>3. Run(p, len)[k] = <<q + 1, o>>
  BY <1>1, <1>2, RunSeq
<1> QED
  BY <1>3 DEF Null

(* Every loop of a good array from the cursor on. *)
LEMMA WalkIs ==
  ASSUME NEW b, Good(b), NEW len \in Nat, b.m_position + len <= b.m_capacity
  PROVE  /\ Walk(b, len) = Run(b.m_position, len) /\ ~MeetsNull(Walk(b, len))
         /\ len > 0 => b.m_cur # Null /\ b.m_cur = (b.m_position \div BaseSize) + 1
<1> USE BaseSizeAssumption
<1>1. PICK p \in Nat, n \in Nat : p = b.m_position /\ n = Len(b.nodes)
  BY GoodFields
<1>2. b.m_capacity = BaseSize * n /\ b.m_cur = CurAt(p, n)
  BY <1>1, GoodFields
<1>3. PICK q \in Nat, o \in 0..BaseSize-1 : p \div BaseSize = q /\ p % BaseSize = o
  BY CellParts
<1>4. p + len <= BaseSize * n /\ ~MeetsNull(Run(p, len))
  <2>1. p + len <= BaseSize * n
    BY <1>1, <1>2
  <2> QED
    BY <2>1, RunWithin
<1>5. CASE len > 0
  <2>1. b.m_cur = q + 1
    BY <1>1, <1>2, <1>3, <1>5 DEF CurAt
  <2>2. Walk(b, len) = Run(p, len)
    <3>1. Cells[<<n, (p \div BaseSize) + 1, p % BaseSize, len>>] = Run(p, len)
      BY <1>4, CellsFrom
    <3>2. Walk(b, len) = Cells[<<n, b.m_cur, p % BaseSize, len>>]
      BY <1>1 DEF Walk
    <3> QED
      BY <1>3, <2>1, <3>1, <3>2
  <2> QED
    BY <1>1, <1>3, <1>4, <2>1, <2>2 DEF Null
<1>6. CASE len = 0
  <2>1. PICK c \in Nat : c = b.m_cur
    BY <1>2, <1>3 DEF CurAt, Null
  <2>2. Walk(b, len) = FlatCells(n, c, o, len)
    <3>1. Flattened(n, c, o, len)
      BY CellsFlattened
    <3>2. Walk(b, len) = Cells[<<n, c, p % BaseSize, len>>]
      BY <1>1, <2>1 DEF Walk
    <3> QED
      BY <1>3, <3>1, <3>2 DEF Flattened
  <2>3. FlatCells(n, c, o, len) = Run(p, len)
    BY <1>6 DEF FlatCells, Run
  <2> QED
    BY <1>1, <1>6, <1>4, <2>2, <2>3
<1> QED
  BY <1>5, <1>6

(* The byte of an array is that of its blocks. *)
LEMMA ByteAtIs ==
  ASSUME NEW b, NEW i
  PROVE  ByteAt(b, i) = At(b.nodes, i)
BY DEF ByteAt, At

(* The len bytes from position p on. *)
Piece(b, p, len) == [k \in 1..len |-> ByteAt(b, p + k - 1)]

(* What a run of cells holds. *)
LEMMA GatherIs ==
  ASSUME NEW b, Good(b), NEW p \in Nat, NEW len \in Nat, p + len <= b.m_capacity
  PROVE  /\ Gather(b, Run(p, len)) = Piece(b, p, len)
         /\ Piece(b, p, len) \in Seq(Byte) /\ Len(Piece(b, p, len)) = len
         /\ \A k \in 1..len : Piece(b, p, len)[k] = ByteAt(b, p + k - 1)
<1> USE BaseSizeAssumption
<1>1. PICK ns \in Seq(Nodes), n \in Nat : ns = b.nodes /\ n = Len(ns) /\ b.m_capacity = BaseSize * n
  BY GoodFields
<1>2. PICK c : c = Run(p, len)
  OBVIOUS
<1>3. Len(c) = len
  BY <1>2, RunSeq
<1>4. ASSUME NEW k \in 1..len PROVE ns[c[k][1]][c[k][2]] = At(ns, p + k - 1) /\ At(ns, p + k - 1) \in Byte
  <2>1. PICK i \in Nat : i = p + k - 1
    OBVIOUS
  <2>2. PICK q \in Nat, o \in 0..BaseSize-1 : i \div BaseSize = q /\ i % BaseSize = o /\ CellOf(i) = <<q + 1, o>>
    BY CellParts
  <2>3. q + 1 \in 1..n
    <3>1. i < BaseSize * n
      BY <1>1, <2>1
    <3> QED
      BY <2>2, <3>1, CellWithin
  <2>4. c[k] = <<q + 1, o>>
    BY <1>2, <2>1, <2>2, RunSeq
  <2>5. ns[q + 1] \in Nodes
    BY <1>1, <2>3, ElementOfSeq
  <2>6. ns[q + 1][o] \in Byte
    BY <2>5 DEF Nodes
  <2>7. At(ns, i) = ns[q + 1][o]
    BY <2>2 DEF At
  <2> QED
    BY <2>1, <2>4, <2>6, <2>7
<1>5. Gather(b, c) = [k \in 1..len |-> At(ns, p + k - 1)]
  BY <1>1, <1>3, <1>4 DEF Gather
<1>6. PICK g : g = [k \in 1..len |-> At(ns, p + k - 1)] /\ g = Piece(b, p, len)
  BY <1>1, ByteAtIs DEF Piece
<1>7. g \in [1..len -> Byte] /\ \A k \in 1..len : g[k] = At(ns, p + k - 1)
  BY <1>4, <1>6
<1>8. g \in Seq(Byte) /\ Len(g) = len
  BY <1>7, SeqOfFn
<1> QED
  BY <1>1, <1>2, <1>5, <1>6, <1>7, <1>8, ByteAtIs

(* The piece s of len bytes from position p on. *)
IsPiece(s, b, p, len) == s \in Seq(Byte) /\ Len(s) = len /\ \A k \in 1..len : s[k] = ByteAt(b, p + k - 1)

(* A piece is one. *)
LEMMA PieceIs ==
  ASSUME NEW b, Good(b), NEW p \in Nat, NEW len \in Nat, p + len <= b.m_capacity
  PROVE  IsPiece(Piece(b, p, len), b, p, len)
BY GatherIs DEF IsPiece

(* m_cur behind the last cell of a run. *)
LEMMA AfterIs ==
  ASSUME NEW b, Good(b), NEW p \in Nat, NEW len \in Nat \ {0}, p + len <= b.m_capacity
  PROVE  After(b, Run(p, len)) = CurAt(p + len, Len(b.nodes))
<1> USE BaseSizeAssumption
<1>1. PICK n \in Nat : n = Len(b.nodes) /\ b.m_capacity = BaseSize * n
  BY GoodFields
<1>2. PICK i \in Nat : i = p + len - 1
  OBVIOUS
<1>3. PICK q \in Nat, o \in 0..BaseSize-1 : i \div BaseSize = q /\ i % BaseSize = o /\ CellOf(i) = <<q + 1, o>>
  BY CellParts
<1>4. Last(Run(p, len)) = <<q + 1, o>>
  <2>1. len \in 1..len /\ Len(Run(p, len)) = len /\ Run(p, len)[len] = CellOf(p + len - 1)
    <3>1. len \in Nat /\ len \in 1..len
      OBVIOUS
    <3> QED
      BY <3>1, RunSeq
  <2>2. Last(Run(p, len)) = Run(p, len)[Len(Run(p, len))]
    BY DEF Last
  <2>3. CellOf(p + len - 1) = CellOf(i)
    BY <1>2
  <2> QED
    BY <1>3, <2>1, <2>2, <2>3
<1>5. CurAt(i + 1, n) = IF o + 1 = BaseSize THEN NextOf(n, q + 1) ELSE q + 1
  <2>1. i < BaseSize * n
    BY <1>1, <1>2
  <2> QED
    BY <1>3, <2>1, CurMoves
<1>6. i + 1 = p + len
  BY <1>2
<1> QED
  BY <1>1, <1>4, <1>5, <1>6 DEF After

(* The array with other blocks. *)
WithNodes(b, ns) == [b EXCEPT !.nodes = ns]

(* The blocks ns are those of b with bytes stored at position p. *)
Stored(b, p, bytes, ns) ==
    /\ Len(ns) = Len(b.nodes)
    /\ \A i \in Nat : i < b.m_capacity =>
          At(ns, i) = IF i >= p /\ i < p + Len(bytes) THEN bytes[i - p + 1] ELSE At(b.nodes, i)

(* Bytes that are stored in a run of cells. *)
LEMMA ScatterIs ==
  ASSUME NEW b, Good(b), NEW p \in Nat, NEW len \in Nat, NEW bytes \in Seq(Byte),
         Len(bytes) <= len, p + len <= b.m_capacity
  PROVE  \E ns \in Seq(Nodes) :
            Scatter(b, Run(p, len), bytes) = WithNodes(b, ns) /\ Stored(b, p, bytes, ns)
<1> USE BaseSizeAssumption
<1>1. PICK old \in Seq(Nodes), last \in Nat : old = b.nodes /\ last = Len(old) /\ b.m_capacity = BaseSize * last
  BY GoodFields
<1>2. PICK c : c = Run(p, len)
  OBVIOUS
<1>3. PICK m \in Nat : m = Len(bytes)
  BY LenProperties
<1>4. \A k \in 1..m : c[k] = CellOf(p + k - 1) /\ bytes[k] \in Byte
  <2>1. \A k \in 1..m : bytes[k] \in Byte
    BY <1>3, ElementOfSeq
  <2>2. \A k \in 1..m : k \in 1..len
    BY <1>3
  <2> QED
    BY <1>2, <2>1, <2>2, RunSeq
<1> DEFINE at(n, o) == {k \in 1..Len(bytes) : c[k] = <<n, o>>}
           in(n, o) == IF at(n, o) = {} THEN (b.nodes)[n][o] ELSE bytes[CHOOSE k \in at(n, o) : TRUE]
<1>5. PICK ns : ns = [n \in 1..Len(b.nodes) |-> [o \in 0..BaseSize-1 |-> in(n, o)]]
  OBVIOUS
<1>6. Scatter(b, c, bytes) = WithNodes(b, ns)
  BY <1>5, Zenon DEF Scatter, WithNodes
<1>7. ASSUME NEW n \in 1..last, NEW o \in 0..BaseSize-1 PROVE in(n, o) \in Byte
  <2>1. old[n] \in Nodes
    BY <1>1, ElementOfSeq
  <2>2. old[n][o] \in Byte
    BY <2>1 DEF Nodes
  <2>3. at(n, o) # {} => (CHOOSE k \in at(n, o) : TRUE) \in 1..m
    BY <1>3
  <2> QED
    BY <1>1, <1>3, <1>4, <2>2, <2>3
<1>8. ASSUME NEW i \in Nat, i < b.m_capacity
      PROVE  At(ns, i) = IF i >= p /\ i < p + m THEN bytes[i - p + 1] ELSE At(old, i)
  <2>1. PICK q \in Nat, o \in 0..BaseSize-1 : i \div BaseSize = q /\ i % BaseSize = o /\ CellOf(i) = <<q + 1, o>>
    BY CellParts
  <2>2. q + 1 \in 1..last
    <3>1. i < BaseSize * last
      BY <1>1, <1>8
    <3> QED
      BY <2>1, <3>1, CellWithin
  <2>3. At(ns, i) = in(q + 1, o) /\ At(old, i) = old[q + 1][o]
    <3> HIDE DEF in
    <3> QED
      BY <1>1, <1>5, <2>1, <2>2 DEF At
  <2>4. ASSUME NEW k \in 1..m PROVE k \in at(q + 1, o) <=> p + k - 1 = i
    <3>1. PICK j \in Nat : j = p + k - 1
      OBVIOUS
    <3>2. c[k] = CellOf(j)
      BY <1>4, <3>1
    <3>3. CellOf(j) = CellOf(i) <=> j = i
      BY CellInjective
    <3> QED
      BY <1>3, <2>1, <3>1, <3>2, <3>3
  <2>5. CASE i >= p /\ i < p + m
    <3>1. PICK k \in 1..m : k = i - p + 1
      BY <2>5
    <3>2. k \in at(q + 1, o)
      BY <1>3, <2>4, <3>1
    <3>3. ASSUME NEW l \in at(q + 1, o) PROVE l = k
      <4>1. l \in 1..m
        BY <1>3
      <4> HIDE DEF at
      <4>2. p + l - 1 = i
        BY <2>4, <4>1
      <4> QED
        BY <3>1, <4>1, <4>2
    <3>4. (CHOOSE l \in at(q + 1, o) : TRUE) = k
      BY <3>2, <3>3
    <3>5. in(q + 1, o) = bytes[k]
      BY <3>2, <3>4
    <3> QED
      BY <2>3, <2>5, <3>1, <3>5
  <2>6. CASE ~(i >= p /\ i < p + m)
    <3>1. at(q + 1, o) = {}
      BY <1>3, <2>4, <2>6
    <3> HIDE DEF at
    <3> QED
      BY <1>1, <2>3, <2>6, <3>1
  <2> QED
    BY <2>5, <2>6
<1> HIDE DEF in
<1>9. ns \in [1..last -> Nodes]
  BY <1>1, <1>5, <1>7 DEF Nodes
<1>10. ns \in Seq(Nodes) /\ Len(ns) = last
  BY <1>9, SeqOfFn
<1>11. Stored(b, p, bytes, ns)
  BY <1>1, <1>3, <1>8, <1>10 DEF Stored
<1> QED
  BY <1>2, <1>6, <1>10, <1>11

(* The greater of two. *)
Greater(x, y) == IF x >= y THEN x ELSE y
(* The smaller of two. *)
Smaller(x, y) == IF x <= y THEN x ELSE y

(* The library's operators on pairs. *)
LEMMA MaxMin ==
  ASSUME NEW x \in Int, NEW y \in Int
  PROVE  Max({x, y}) = Greater(x, y) /\ Min({x, y}) = Smaller(x, y)
<1>1. PICK m : m = Greater(x, y) /\ m \in {x, y} /\ \A z \in {x, y} : m >= z
  BY DEF Greater
<1>2. Max({x, y}) = m
  <2>1. ASSUME NEW u \in {x, y}, \A z \in {x, y} : u >= z PROVE u = m
    BY <1>1, <2>1
  <2> QED
    BY <1>1, <2>1 DEF Max
<1>3. PICK n : n = Smaller(x, y) /\ n \in {x, y} /\ \A z \in {x, y} : n <= z
  BY DEF Smaller
<1>4. Min({x, y}) = n
  <2>1. ASSUME NEW u \in {x, y}, \A z \in {x, y} : u <= z PROVE u = n
    BY <1>3, <2>1
  <2> QED
    BY <1>3, <2>1 DEF Min
<1> QED
  BY <1>1, <1>2, <1>3, <1>4

-----------------------------------------------------------------------------
(* The operations. *)

(* Two good arrays with the same cursor, size, order and blocks are the same. *)
LEMMA GoodEqual ==
  ASSUME NEW b, Good(b), NEW c, Good(c), b.m_position = c.m_position, b.m_size = c.m_size,
         b.m_endian = c.m_endian, b.nodes = c.nodes, b.wild = c.wild
  PROVE  b = c
BY DEF Good

(* c is b with the cursor at p and the size sz. *)
Shifted(b, c, p, sz) ==
    /\ Good(c) /\ c.m_position = p /\ c.m_size = sz
    /\ c.m_endian = b.m_endian /\ c.nodes = b.nodes /\ c.wild = b.wild

(* c is b with bytes written at the cursor, and nothing else changed. *)
Wrote(b, c, bytes) ==
    /\ Good(c) /\ c.m_position = b.m_position + Len(bytes) /\ c.m_size = Greater(c.m_position, b.m_size)
    /\ c.m_endian = b.m_endian /\ c.wild = b.wild /\ c.m_capacity >= b.m_capacity
    /\ \A i \in Nat : i < b.m_capacity /\ (i < b.m_position \/ i >= c.m_position) => ByteAt(c, i) = ByteAt(b, i)
    /\ \A k \in 1..Len(bytes) : ByteAt(c, b.m_position + k - 1) = bytes[k]

(* write() stores the bytes at the cursor, wherever the blocks end. *)
LEMMA WriteIs ==
  ASSUME NEW b, Good(b), NEW bytes \in Seq(Byte)
  PROVE  Wrote(b, write(b, bytes), bytes)
<1> USE BaseSizeAssumption
<1>1. PICK n \in Nat : n = Len(bytes)
  BY LenProperties
<1>2. PICK p \in Nat, sz \in Nat : p = b.m_position /\ sz = b.m_size /\ p <= sz /\ sz <= b.m_capacity
  BY GoodFields
<1>3. CASE n = 0
  <2>1. bytes = <<>>
    BY <1>1, <1>3, EmptySeq
  <2>2. write(b, bytes) = b
    BY <2>1 DEF write
  <2>3. p + n = p /\ Greater(p, sz) = sz
    BY <1>2, <1>3 DEF Greater
  <2> QED
    BY <1>1, <1>2, <1>3, <2>2, <2>3, GoodFields DEF Wrote
<1>4. CASE n > 0
  <2>1. bytes # <<>>
    BY <1>1, <1>4, EmptySeq
  <2>2. PICK c : c = addCapacity(b, n)
    OBVIOUS
  <2>3. PICK ns \in Seq(Nodes) :
            /\ c = Array(p, sz, b.m_endian, ns, b.wild) /\ Fields(p, sz, b.m_endian, ns, b.wild)
            /\ Len(ns) >= Len(b.nodes) /\ \A i \in 1..Len(b.nodes) : ns[i] = b.nodes[i]
            /\ p + n <= BaseSize * Len(ns)
    BY <1>2, <2>2, AddCapacity
  <2>4. /\ Good(c) /\ c.m_position = p /\ c.m_size = sz /\ c.m_endian = b.m_endian /\ c.nodes = ns /\ c.wild = b.wild
        /\ c.m_capacity = BaseSize * Len(ns)
    BY <2>3, GoodArray
  <2>5. PICK w : w = Walk(c, n)
    OBVIOUS
  <2>6. w = Run(p, n) /\ ~MeetsNull(w)
    BY <2>3, <2>4, <2>5, WalkIs
  <2>7. After(c, w) = CurAt(p + n, Len(ns))
    BY <1>4, <2>3, <2>4, <2>6, AfterIs
  <2>8. PICK ms \in Seq(Nodes) :
            /\ Scatter(c, w, bytes) = WithNodes(c, ms) /\ Len(ms) = Len(ns)
            /\ \A i \in Nat : i < c.m_capacity =>
                  At(ms, i) = IF i >= p /\ i < p + n THEN bytes[i - p + 1] ELSE At(ns, i)
    <3>1. p + n <= c.m_capacity /\ Len(bytes) <= n
      BY <1>1, <2>3, <2>4
    <3>2. \E ms \in Seq(Nodes) :
            Scatter(c, Run(p, n), bytes) = WithNodes(c, ms) /\ Stored(c, p, bytes, ms)
      BY <2>4, <3>1, ScatterIs
    <3> QED
      BY <1>1, <2>4, <2>6, <3>2 DEF Stored
  <2>9. write(b, bytes) = [WithNodes(c, ms) EXCEPT !.m_position = p + n, !.m_cur = CurAt(p + n, Len(ns)),
                                                          !.m_size = Max({p + n, @})]
    BY <1>1, <1>2, <2>1, <2>2, <2>5, <2>6, <2>7, <2>8, Zenon DEF write
  <2>10. PICK d, s, cur : d = p + n /\ s = Greater(p + n, sz) /\ cur = CurAt(p + n, Len(ms))
    OBVIOUS
  <2>11. write(b, bytes) = Rec(d, BaseSize * Len(ms), s, b.m_endian, ms, cur, b.wild)
    <3>1. PICK cap, old : c = Rec(p, cap, sz, b.m_endian, ns, old, b.wild) /\ cap = BaseSize * Len(ms)
      BY <2>3, <2>8 DEF Array
    <3>2. PICK c1 : c1 = WithNodes(c, ms)
      OBVIOUS
    <3>3. c1 = Rec(p, cap, sz, b.m_endian, ms, old, b.wild)
      BY <3>1, <3>2 DEF Rec, WithNodes
    <3>4. c1.m_size = sz /\ Max({p + n, sz}) = s
      BY <2>10, <3>3, RecFields, MaxMin
    <3>5. PICK c2 : c2 = [c1 EXCEPT !.m_position = d]
      OBVIOUS
    <3>6. c2 = Rec(d, cap, sz, b.m_endian, ms, old, b.wild)
      BY <3>3, <3>5 DEF Rec
    <3>7. PICK c3 : c3 = [c2 EXCEPT !.m_cur = cur]
      OBVIOUS
    <3>8. c3 = Rec(d, cap, sz, b.m_endian, ms, cur, b.wild)
      BY <3>6, <3>7 DEF Rec
    <3>9. [c3 EXCEPT !.m_size = s] = Rec(d, cap, s, b.m_endian, ms, cur, b.wild)
      BY <3>8 DEF Rec
    <3>10. write(b, bytes) = [c1 EXCEPT !.m_position = d, !.m_cur = cur, !.m_size = Max({p + n, c1.m_size})]
      BY <2>8, <2>9, <2>10, <3>2, Zenon
    <3> QED
      BY <3>1, <3>4, <3>5, <3>7, <3>9, <3>10, Zenon
  <2>12. PICK x : x = write(b, bytes)
    OBVIOUS
  <2>13. x = Array(d, s, b.m_endian, ms, b.wild)
    BY <2>10, <2>11, <2>12 DEF Array
  <2>14. Fields(d, s, b.m_endian, ms, b.wild)
    <3>1. s \in Nat /\ d \in Nat /\ d <= s /\ s <= BaseSize * Len(ms)
      BY <2>3, <2>8, <2>10 DEF Greater, Fields
    <3> QED
      BY <2>3, <2>8, <3>1 DEF Fields
  <2>15. /\ Good(x) /\ x.m_position = d /\ x.m_size = s /\ x.m_endian = b.m_endian /\ x.nodes = ms /\ x.wild = b.wild
         /\ x.m_capacity = BaseSize * Len(ms)
    BY <2>13, <2>14, GoodArray
  <2>16. b.m_capacity = BaseSize * Len(b.nodes) /\ Len(b.nodes) \in Nat
    BY GoodFields
  <2>17. BaseSize * Len(ms) >= BaseSize * Len(b.nodes) /\ BaseSize * Len(ms) \in Nat
    <3>1. PICK u \in Nat, v \in Nat : u = Len(ms) /\ v = Len(b.nodes) /\ u >= v
      BY <2>3, <2>8, <2>16, LenProperties
    <3>2. BaseSize * u >= BaseSize * v /\ BaseSize * u \in Nat
      BY <3>1, TimesMono
    <3> QED
      BY <3>1, <3>2
  <2>18. ASSUME NEW i \in Nat, i < b.m_capacity, i < p \/ i >= d PROVE ByteAt(x, i) = ByteAt(b, i)
    <3>1. At(ms, i) = At(ns, i)
      <4>1. c.m_capacity = BaseSize * Len(ms)
        BY <2>4, <2>8
      <4>2. PICK u \in Nat, v \in Nat : u = BaseSize * Len(ms) /\ v = b.m_capacity /\ u >= v
        BY <2>16, <2>17, GoodFields
      <4>3. i < c.m_capacity
        BY <2>18, <4>1, <4>2
      <4>4. ~(i >= p /\ i < p + n)
        BY <2>10, <2>18
      <4> QED
        BY <2>8, <4>3, <4>4
    <3>2. PICK q \in Nat, o \in 0..BaseSize-1 : i \div BaseSize = q /\ i % BaseSize = o
      BY DivMod
    <3>3. q + 1 \in 1..Len(b.nodes)
      BY <2>16, <2>18, <3>2, CellWithin
    <3>4. At(ns, i) = At(b.nodes, i)
      BY <2>3, <3>2, <3>3 DEF At
    <3> QED
      BY <2>15, <3>1, <3>4, ByteAtIs
  <2>19. ASSUME NEW k \in 1..n PROVE ByteAt(x, p + k - 1) = bytes[k]
    <3>1. PICK i \in Nat : i = p + k - 1
      OBVIOUS
    <3>2. i >= p /\ i < p + n /\ i - p + 1 = k /\ i < c.m_capacity
      BY <2>3, <2>4, <3>1
    <3>3. At(ms, i) = bytes[k]
      BY <2>8, <3>2
    <3> QED
      BY <2>15, <3>1, <3>3, ByteAtIs
  <2> QED
    BY <1>1, <1>2, <2>10, <2>12, <2>15, <2>16, <2>17, <2>18, <2>19 DEF Wrote
<1> QED
  BY <1>1, <1>3, <1>4

(* c is b with the cursor at q. *)
Goes(b, c, q) ==
    /\ Good(c) /\ c.m_position = q /\ c.m_size = b.m_size
    /\ c.m_endian = b.m_endian /\ c.nodes = b.nodes

(* What a read gives: the bytes the cursor moved over, or the exception. *)
Taken(b, r) ==
    \E q \in Nat : /\ b.m_position <= q /\ q <= b.m_size /\ Goes(b, r.ba, q)
                   /\ r.out \in {OutOfRange, Piece(b, b.m_position, q - b.m_position)}

(* The array in which a null pointer was followed. *)
Wild(b) == [b EXCEPT !.wild = TRUE]

(* Nothing else of it changes. *)
LEMMA WildIs ==
  ASSUME NEW b, Good(b)
  PROVE  Goes(b, Wild(b), b.m_position) /\ Wild(b).wild = TRUE
<1>1. PICK p, sz, e, ns, w : Fields(p, sz, e, ns, w) /\ b = Array(p, sz, e, ns, w)
  BY DEF Good
<1>2. b.m_position = p /\ b.m_size = sz /\ b.m_endian = e /\ b.nodes = ns
  BY <1>1, GoodArray
<1>0. PICK t : t = TRUE
  OBVIOUS
<1>3. Wild(b) = Array(p, sz, e, ns, t)
  <2>1. PICK cap, cur : b = Rec(p, cap, sz, e, ns, cur, w) /\ cap = BaseSize * Len(ns) /\ cur = CurAt(p, Len(ns))
    BY <1>1 DEF Array
  <2>2. Wild(b) = Rec(p, cap, sz, e, ns, cur, t)
    <3>1. [b EXCEPT !.wild = t] = Rec(p, cap, sz, e, ns, cur, t)
      BY <2>1 DEF Rec
    <3> QED
      BY <1>0, <3>1, Zenon DEF Wild
  <2> QED
    BY <2>1, <2>2 DEF Array
<1>4. Fields(p, sz, e, ns, t)
  <2>1. t \in BOOLEAN
    BY <1>0, Zenon
  <2> QED
    BY <1>1, <2>1 DEF Fields
<1>5. PICK c : c = Wild(b)
  OBVIOUS
<1>6. Good(c) /\ c.m_position = p /\ c.m_size = sz /\ c.m_endian = e /\ c.nodes = ns /\ c.wild = t
  BY <1>3, <1>4, <1>5, GoodArray
<1> QED
  BY <1>0, <1>2, <1>5, <1>6, Zenon DEF Goes

(* The fields of what an operation gives. *)
LEMMA ReadParts ==
  ASSUME NEW b, NEW x
  PROVE  Read(b, x).ba = b /\ Read(b, x).out = x
BY DEF Read

(* b with the cursor at q and the size s, *)
Shift(b, q, s) == [b EXCEPT !.m_position = q, !.m_size = s, !.m_cur = CurAt(q, Len(b.nodes))]

(* is good. *)
LEMMA ShiftedIs ==
  ASSUME NEW b, Good(b), NEW q \in Nat, NEW s \in Nat, q <= s, s <= b.m_capacity
  PROVE  Shifted(b, Shift(b, q, s), q, s)
<1>0. PICK c : c = Shift(b, q, s)
  OBVIOUS
<1>1. PICK p, sz, e, ns, w : Fields(p, sz, e, ns, w) /\ b = Array(p, sz, e, ns, w)
  BY DEF Good
<1>2. b.m_position = p /\ b.m_size = sz /\ b.m_endian = e /\ b.nodes = ns /\ b.wild = w /\ b.m_capacity = BaseSize * Len(ns)
  BY <1>1, GoodArray
<1>3. PICK cur, cap, old : cur = CurAt(q, Len(ns)) /\ cap = BaseSize * Len(ns) /\ b = Rec(p, cap, sz, e, ns, old, w)
  BY <1>1 DEF Array
<1>4. PICK b1 : b1 = [b EXCEPT !.m_position = q]
  OBVIOUS
<1>5. b1 = Rec(q, cap, sz, e, ns, old, w)
  BY <1>3, <1>4 DEF Rec
<1>6. PICK b2 : b2 = [b1 EXCEPT !.m_size = s]
  OBVIOUS
<1>7. b2 = Rec(q, cap, s, e, ns, old, w)
  BY <1>5, <1>6 DEF Rec
<1>8. [b2 EXCEPT !.m_cur = cur] = Rec(q, cap, s, e, ns, cur, w)
  BY <1>7 DEF Rec
<1>9. c = Rec(q, cap, s, e, ns, cur, w)
  BY <1>0, <1>2, <1>3, <1>4, <1>6, <1>8, Zenon DEF Shift
<1>10. c = Array(q, s, e, ns, w)
  BY <1>3, <1>9 DEF Array
<1>11. Fields(q, s, e, ns, w)
  BY <1>1, <1>2 DEF Fields
<1> QED
  BY <1>0, <1>2, <1>10, <1>11, GoodArray DEF Shifted

(* read() takes the bytes from the cursor on, if there are enough. *)
LEMMA ReadIs ==
  ASSUME NEW b, Good(b), NEW size \in Nat
  PROVE  /\ size > getReadSize(b) => read(b, size) = Read(b, OutOfRange)
         /\ size <= getReadSize(b) /\ size > 0 =>
               /\ Shifted(b, read(b, size).ba, b.m_position + size, b.m_size)
               /\ read(b, size).out = Piece(b, b.m_position, size)
         /\ size = 0 /\ b.m_position < b.m_capacity => read(b, size) = Read(b, <<>>)
         /\ size = 0 /\ b.m_position = b.m_capacity => read(b, size) = Read(Wild(b), <<>>)
<1> USE BaseSizeAssumption
<1>1. PICK p \in Nat, sz \in Nat, cap \in Nat :
          p = b.m_position /\ sz = b.m_size /\ cap = b.m_capacity /\ p <= sz /\ sz <= cap
  BY GoodFields
<1>2. getReadSize(b) = sz - p
  BY <1>1 DEF getReadSize
<1>3. CASE size > sz - p
  BY <1>1, <1>2, <1>3 DEF read
<1>4. CASE size <= sz - p /\ size > 0
  <2>1. p + size <= cap
    BY <1>1, <1>4
  <2>2. PICK w : w = Walk(b, size)
    OBVIOUS
  <2>3. w = Run(p, size) /\ ~MeetsNull(w) /\ b.m_cur # Null
    BY <1>1, <1>4, <2>1, <2>2, WalkIs
  <2>4. After(b, w) = CurAt(p + size, Len(b.nodes))
    BY <1>1, <1>4, <2>1, <2>3, AfterIs
  <2>5. Gather(b, w) = Piece(b, p, size)
    BY <1>1, <2>1, <2>3, GatherIs
  <2>6. read(b, size) = Read([b EXCEPT !.m_position = @ + size, !.m_cur = After(b, w)], Gather(b, w))
    BY <1>2, <1>4, <2>2, <2>3 DEF read
  <2>7. PICK c : c = [b EXCEPT !.m_position = p + size, !.m_cur = CurAt(p + size, Len(b.nodes))]
    OBVIOUS
  <2>8. c = [b EXCEPT !.m_position = @ + size, !.m_cur = After(b, w)]
    BY <1>1, <2>4, <2>7
  <2>9. c = Shift(b, p + size, sz)
    <3>1. PICK x, cur, e, ns, old, v : cur = CurAt(p + size, Len(b.nodes)) /\ b = Rec(p, x, sz, e, ns, old, v)
      BY <1>1, RecFields DEF Good, Array
    <3>2. c = Rec(p + size, x, sz, e, ns, cur, v)
      BY <2>7, <3>1 DEF Rec
    <3>3. PICK b1 : b1 = [b EXCEPT !.m_position = p + size]
      OBVIOUS
    <3>4. b1 = Rec(p + size, x, sz, e, ns, old, v)
      BY <3>1, <3>3 DEF Rec
    <3>5. PICK b2 : b2 = [b1 EXCEPT !.m_size = sz]
      OBVIOUS
    <3>6. b2 = Rec(p + size, x, sz, e, ns, old, v)
      BY <3>4, <3>5 DEF Rec
    <3>7. [b2 EXCEPT !.m_cur = cur] = Rec(p + size, x, sz, e, ns, cur, v)
      BY <3>6 DEF Rec
    <3> QED
      BY <3>1, <3>2, <3>3, <3>5, <3>7, Zenon DEF Shift
  <2>10. Shifted(b, c, p + size, sz)
    BY <1>1, <1>4, <2>9, ShiftedIs
  <2>11. read(b, size).ba = c /\ read(b, size).out = Piece(b, p, size)
    BY <2>5, <2>6, <2>8, ReadParts
  <2> QED
    BY <1>1, <1>2, <1>4, <2>10, <2>11
<1>5. CASE size = 0
  <2>1. Walk(b, size) = Run(p, size) /\ ~MeetsNull(Walk(b, size))
    BY <1>1, <1>5, WalkIs
  <2>2. b.m_cur = CurAt(p, Len(b.nodes)) /\ cap = BaseSize * Len(b.nodes)
    BY <1>1, GoodFields
  <2>3. p \div BaseSize \in Nat
    BY DivMod
  <2>4. b.m_cur = Null <=> p = cap
    BY <2>2, <2>3 DEF CurAt, Null
  <2>5. size <= getReadSize(b)
    BY <1>1, <1>2, <1>5
  <2>6. CASE p = cap
    <3>1. read(b, size) = Read(Wild(b), <<>>)
      BY <2>4, <2>5, <2>6 DEF read, Wild
    <3> QED
      BY <1>1, <1>2, <1>5, <2>5, <2>6, <3>1
  <2>7. CASE p < cap
    <3>1. read(b, size) = Read(b, <<>>)
      BY <1>5, <2>1, <2>4, <2>5, <2>7 DEF read
    <3> QED
      BY <1>1, <1>2, <1>5, <2>5, <2>7, <3>1
  <2> QED
    BY <1>1, <2>6, <2>7
<1> QED
  BY <1>1, <1>2, <1>3, <1>4, <1>5

(* A block that ends at v is full: m_cur moves on. *)
LEMMA FullBlocks ==
  ASSUME NEW v \in Nat, NEW n \in Nat, v <= BaseSize * n
  PROVE  (IF v \div BaseSize = n THEN Null ELSE (v \div BaseSize) + 1) = CurAt(v, n)
<1> USE BaseSizeAssumption
<1>1. PICK q \in Nat, o \in 0..BaseSize-1 : v = q * BaseSize + o /\ v \div BaseSize = q
  BY CellParts
<1>2. CASE v = BaseSize * n
  <2>1. (n * BaseSize + 0) \div BaseSize = n
    BY DivModUnique
  <2>2. v = n * BaseSize + 0
    BY <1>2
  <2> QED
    BY <1>2, <2>1, <2>2 DEF CurAt
<1>3. CASE v # BaseSize * n
  <2>1. q # n
    BY <1>1, <1>3
  <2> QED
    BY <1>1, <1>3, <2>1 DEF CurAt
<1> QED
  BY <1>2, <1>3

(* setPosition() moves the cursor within the capacity. *)
LEMMA SetPositionIs ==
  ASSUME NEW b, Good(b), NEW v \in Nat
  PROVE  /\ v > b.m_capacity => setPosition(b, v) = Read(b, OutOfRange)
         /\ v <= b.m_capacity => /\ Shifted(b, setPosition(b, v).ba, v, Greater(v, b.m_size))
                                 /\ setPosition(b, v).out = <<>>
<1>1. PICK sz \in Nat, cap \in Nat, n \in Nat :
          sz = b.m_size /\ cap = b.m_capacity /\ n = Len(b.nodes) /\ sz <= cap /\ cap = BaseSize * n
  BY GoodFields
<1>2. CASE v > cap
  BY <1>1, <1>2 DEF setPosition, Read
<1>3. CASE v <= cap
  <2>1. PICK s \in Nat : s = Greater(v, sz) /\ s = Max({v, sz}) /\ v <= s /\ s <= cap
    <3>1. Max({v, sz}) = Greater(v, sz)
      BY MaxMin
    <3> QED
      BY <1>1, <1>3, <3>1 DEF Greater
  <2>2. (IF v \div BaseSize = n THEN Null ELSE (v \div BaseSize) + 1) = CurAt(v, n)
    BY <1>1, <1>3, FullBlocks
  <2>3. ~(v > b.m_capacity)
    BY <1>1, <1>3
  <2>4. setPosition(b, v) = [ba |-> [b EXCEPT !.m_position = v, !.m_size = Max({v, @}),
                               !.m_cur = IF v \div BaseSize = Len(b.nodes) THEN Null ELSE (v \div BaseSize) + 1],
                             out |-> <<>>]
    BY <2>3, Zenon DEF setPosition
  <2>5. setPosition(b, v) = [ba |-> Shift(b, v, s), out |-> <<>>]
    BY <1>1, <2>1, <2>2, <2>4, Zenon DEF Shift
  <2>6. Shifted(b, Shift(b, v, s), v, s)
    BY <1>1, <2>1, ShiftedIs
  <2> QED
    BY <1>1, <1>3, <2>1, <2>5, <2>6
<1> QED
  BY <1>1, <1>2, <1>3

(* clear() leaves an empty array of one block. *)
LEMMA ClearIs ==
  ASSUME NEW b, Good(b)
  PROVE  /\ Good(clear(b)) /\ clear(b).m_position = 0 /\ clear(b).m_size = 0
<1> USE BaseSizeAssumption
<1>1. PICK p, sz, e, ns, w : Fields(p, sz, e, ns, w) /\ b = Array(p, sz, e, ns, w)
  BY DEF Good
<1>2. b.nodes = ns /\ ns \in Seq(Nodes) /\ Len(ns) \in Nat \ {0} /\ e \in {LITTLE, BIG} /\ w \in BOOLEAN
  BY <1>1, GoodArray DEF Fields
<1>3. PICK hs : hs = <<Head(ns)>>
  OBVIOUS
<1>4. hs \in Seq(Nodes) /\ Len(hs) = 1
  BY <1>2, <1>3
<1>5. PICK cap, cur : b = Rec(p, cap, sz, e, ns, cur, w)
  BY <1>1 DEF Array
<1>6. PICK b1 : b1 = [b EXCEPT !.m_position = 0]
  OBVIOUS
<1>7. b1 = Rec(0, cap, sz, e, ns, cur, w)
  BY <1>5, <1>6 DEF Rec
<1>8. PICK b2 : b2 = [b1 EXCEPT !.m_size = 0]
  OBVIOUS
<1>9. b2 = Rec(0, cap, 0, e, ns, cur, w)
  BY <1>7, <1>8 DEF Rec
<1>10. PICK b3 : b3 = [b2 EXCEPT !.m_capacity = BaseSize]
  OBVIOUS
<1>11. b3 = Rec(0, BaseSize, 0, e, ns, cur, w)
  BY <1>9, <1>10 DEF Rec
<1>12. PICK b4 : b4 = [b3 EXCEPT !.nodes = hs]
  OBVIOUS
<1>13. b4 = Rec(0, BaseSize, 0, e, hs, cur, w)
  BY <1>11, <1>12 DEF Rec
<1>14. [b4 EXCEPT !.m_cur = 1] = Rec(0, BaseSize, 0, e, hs, 1, w)
  BY <1>13 DEF Rec
<1>15. clear(b) = [b EXCEPT !.m_position = 0, !.m_size = 0, !.m_capacity = BaseSize, !.nodes = hs, !.m_cur = 1]
  BY <1>2, <1>3, Zenon DEF clear
<1>16. PICK c : c = clear(b)
  OBVIOUS
<1>17. c = Rec(0, BaseSize, 0, e, hs, 1, w)
  BY <1>6, <1>8, <1>10, <1>12, <1>14, <1>15, <1>16, Zenon
<1>18. c = Array(0, 0, e, hs, w)
  <2>1. (0 * BaseSize + 0) \div BaseSize = 0
    BY DivModUnique
  <2>2. BaseSize * Len(hs) = BaseSize /\ CurAt(0, Len(hs)) = 1
    BY <1>4, <2>1 DEF CurAt
  <2> QED
    BY <1>17, <2>2 DEF Array
<1>19. Fields(0, 0, e, hs, w)
  BY <1>2, <1>4 DEF Fields
<1>20. Good(c) /\ c.m_position = 0 /\ c.m_size = 0
  BY <1>18, <1>19, GoodArray
<1> QED
  BY <1>16, <1>20

(* Another byte order changes nothing else. *)
LEMMA EndianIs ==
  ASSUME NEW b, Good(b), NEW x \in {LITTLE, BIG}
  PROVE  /\ Good([b EXCEPT !.m_endian = x]) /\ [b EXCEPT !.m_endian = x].m_position = b.m_position
         /\ [b EXCEPT !.m_endian = x].m_size = b.m_size /\ [b EXCEPT !.m_endian = x].nodes = b.nodes
<1>1. PICK p, sz, e, ns, w : Fields(p, sz, e, ns, w) /\ b = Array(p, sz, e, ns, w)
  BY DEF Good
<1>2. b.m_position = p /\ b.m_size = sz /\ b.nodes = ns
  BY <1>1, GoodArray
<1>3. PICK c : c = [b EXCEPT !.m_endian = x]
  OBVIOUS
<1>4. PICK cap, cur : b = Rec(p, cap, sz, e, ns, cur, w) /\ cap = BaseSize * Len(ns) /\ cur = CurAt(p, Len(ns))
  BY <1>1 DEF Array
<1>5. c = Rec(p, cap, sz, x, ns, cur, w)
  BY <1>3, <1>4 DEF Rec
<1>6. c = Array(p, sz, x, ns, w) /\ Fields(p, sz, x, ns, w)
  BY <1>1, <1>4, <1>5 DEF Array, Fields
<1>7. Good(c) /\ c.m_position = p /\ c.m_size = sz /\ c.nodes = ns
  BY <1>6, GoodArray
<1> QED
  BY <1>2, <1>3, <1>7

(* toString() shows what is left to read. *)
LEMMA ToStringIs ==
  ASSUME NEW b, Good(b)
  PROVE  /\ toString(b) = Piece(b, b.m_position, b.m_size - b.m_position)
         /\ toString(b) \in Seq(Byte) /\ Len(toString(b)) = b.m_size - b.m_position
<1>1. PICK p \in Nat, sz \in Nat, n \in Nat :
          p = b.m_position /\ sz = b.m_size /\ n = sz - p /\ p + n <= b.m_capacity
  BY GoodFields
<1>2. getReadSize(b) = n
  BY <1>1 DEF getReadSize
<1>3. Piece(b, p, n) \in Seq(Byte) /\ Len(Piece(b, p, n)) = n
  BY <1>1, GatherIs
<1>4. CASE n = 0
  <2>1. toString(b) = <<>>
    BY <1>2, <1>4 DEF toString
  <2>2. Piece(b, p, n) = <<>>
    BY <1>3, <1>4, EmptySeq
  <2> QED
    BY <1>1, <1>3, <2>1, <2>2
<1>5. CASE n > 0
  <2>1. toString(b) = read(b, n).out
    BY <1>2, <1>5 DEF toString
  <2>2. read(b, n).out = Piece(b, p, n)
    BY <1>1, <1>2, <1>5, ReadIs
  <2> QED
    BY <1>1, <1>3, <2>1, <2>2
<1> QED
  BY <1>1, <1>4, <1>5

(* What read() gives is taken from the cursor on. *)
LEMMA ReadTakes ==
  ASSUME NEW b, Good(b), NEW size \in Nat
  PROVE  Taken(b, read(b, size))
<1>1. PICK p \in Nat, sz \in Nat, cap \in Nat :
          p = b.m_position /\ sz = b.m_size /\ cap = b.m_capacity /\ p <= sz /\ sz <= cap
  BY GoodFields
<1>2. getReadSize(b) = sz - p
  BY <1>1 DEF getReadSize
<1>3. Goes(b, b, p)
  BY <1>1 DEF Goes
<1>4. Piece(b, p, 0) = <<>>
  BY DEF Piece
<1>5. PICK r : r = read(b, size)
  OBVIOUS
<1>6. CASE size > sz - p
  <2>1. r.ba = b /\ r.out = OutOfRange
    BY <1>2, <1>5, <1>6, ReadIs, ReadParts
  <2> QED
    BY <1>1, <1>3, <1>5, <2>1 DEF Taken
<1>7. CASE size <= sz - p /\ size > 0
  <2>1. Shifted(b, r.ba, p + size, sz) /\ r.out = Piece(b, p, size)
    BY <1>1, <1>2, <1>5, <1>7, ReadIs
  <2>2. PICK q \in Nat : q = p + size /\ p <= q /\ q <= sz /\ q - p = size
    BY <1>7
  <2>3. Goes(b, r.ba, q)
    BY <1>1, <2>1, <2>2 DEF Goes, Shifted
  <2> QED
    BY <1>1, <1>5, <2>1, <2>2, <2>3 DEF Taken
<1>8. CASE size = 0
  <2>1. r.out = <<>> /\ r.ba \in {b, Wild(b)}
    BY <1>1, <1>5, <1>8, ReadIs, ReadParts
  <2>2. Goes(b, r.ba, p)
    BY <1>1, <1>3, <2>1, WildIs
  <2>3. p - p = 0
    OBVIOUS
  <2> QED
    BY <1>1, <1>4, <1>5, <2>1, <2>2, <2>3 DEF Taken
<1> QED
  BY <1>1, <1>6, <1>7, <1>8

-----------------------------------------------------------------------------
(* Recursive functions. *)

(* What a function on 0..n by recursion is. *)
Recurs(f, n, a, g) == f[0] = a /\ \A i \in 1..n : f[i] = g[<<i, f[i - 1]>>]

(* It exists. *)
LEMMA Recursion ==
  ASSUME NEW S, NEW n \in Nat, NEW a \in S, NEW g \in [(1..n) \X S -> S]
  PROVE  \E f \in [0..n -> S] : Recurs(f, n, a, g)
<1> DEFINE Bad == {m \in 0..n : ~\E f \in [0..m -> S] : Recurs(f, m, a, g)}
<1> SUFFICES ASSUME Bad # {} PROVE FALSE
  OBVIOUS
<1>0. Bad \subseteq Nat
  OBVIOUS
<1>1. PICK m \in Bad : \A k \in Bad : m <= k
  <2> HIDE DEF Bad
  <2> QED
    BY <1>0, LeastElement
<1>2. m \in 0..n /\ ~\E f \in [0..m -> S] : Recurs(f, m, a, g)
  BY <1>1
<1>3. CASE m = 0
  <2>1. [i \in 0..0 |-> a] \in [0..0 -> S] /\ Recurs([i \in 0..0 |-> a], 0, a, g)
    BY DEF Recurs
  <2> QED
    BY <1>2, <1>3, <2>1
<1>4. CASE m > 0
  <2>1. PICK l \in 0..n : l = m - 1
    BY <1>2, <1>4
  <2>2. l \notin Bad
    BY <1>1, <1>2, <2>1
  <2>3. PICK f \in [0..l -> S] : Recurs(f, l, a, g)
    BY <2>2
  <2>4. m \in 1..n /\ f[l] \in S
    BY <1>2, <1>4, <2>1
  <2>5. g[<<m, f[l]>>] \in S
    BY <2>4
  <2>6. PICK h : h = [i \in 0..m |-> IF i <= l THEN f[i] ELSE g[<<m, f[l]>>]]
    OBVIOUS
  <2>7. h \in [0..m -> S]
    BY <1>2, <2>1, <2>5, <2>6
  <2>8. h[0] = a
    BY <1>2, <2>1, <2>3, <2>6 DEF Recurs
  <2>9. ASSUME NEW i \in 1..m PROVE h[i] = g[<<i, h[i - 1]>>]
    <3>1. CASE i <= l
      <4>1. h[i] = f[i] /\ h[i - 1] = f[i - 1] /\ i \in 1..l
        BY <1>2, <2>1, <2>6, <3>1
      <4> QED
        BY <2>3, <4>1 DEF Recurs
    <3>2. CASE i = m
      <4>1. h[i] = g[<<m, f[l]>>] /\ h[i - 1] = f[l]
        BY <1>2, <1>4, <2>1, <2>6, <3>2
      <4> QED
        BY <3>2, <4>1
    <3> QED
      BY <1>2, <2>1, <3>1, <3>2
  <2>10. Recurs(h, m, a, g)
    BY <2>8, <2>9 DEF Recurs
  <2> QED
    BY <1>2, <2>7, <2>10
<1> QED
  BY <1>2, <1>3, <1>4

(* The same for a function on the naturals. *)
RecursNat(f, a, g) == f[0] = a /\ \A i \in Nat \ {0} : f[i] = g[f[i - 1]]

(* It exists, too. *)
LEMMA RecursionNat ==
  ASSUME NEW S, NEW a \in S, NEW g \in [S -> S]
  PROVE  \E f \in [Nat -> S] : RecursNat(f, a, g)
<1> DEFINE step(n) == [x \in (1..n) \X S |-> g[x[2]]]
           Up(n) == {f \in [0..n -> S] : f[0] = a /\ \A i \in 1..n : f[i] = g[f[i - 1]]}
<1>1. ASSUME NEW n \in Nat PROVE Up(n) # {}
  <2>1. PICK s : s = step(n)
    OBVIOUS
  <2>2. s \in [(1..n) \X S -> S] /\ \A i \in 1..n, y \in S : s[<<i, y>>] = g[y]
    BY <2>1
  <2>3. PICK f \in [0..n -> S] : Recurs(f, n, a, s)
    BY <2>2, Recursion
  <2>4. ASSUME NEW i \in 1..n PROVE f[i] = g[f[i - 1]]
    <3>1. f[i - 1] \in S
      OBVIOUS
    <3> QED
      BY <2>2, <2>3, <3>1 DEF Recurs
  <2>5. f[0] = a
    BY <2>3 DEF Recurs
  <2> QED
    BY <2>4, <2>5
<1>2. ASSUME NEW n \in Nat, NEW m \in Nat, NEW f \in Up(n), NEW h \in Up(m), NEW i \in Nat, i <= n, i <= m
      PROVE  f[i] = h[i]
  <2> DEFINE Bad == {k \in Nat : k <= n /\ k <= m /\ f[k] # h[k]}
  <2> SUFFICES ASSUME Bad # {} PROVE FALSE
    BY <1>2
  <2>1. PICK k \in Bad : \A j \in Bad : k <= j
    BY LeastElement
  <2>2. k \in Nat /\ k <= m /\ k <= n /\ f[k] # h[k]
    BY <2>1
  <2>3. k # 0
    BY <2>2
  <2>4. PICK j \in Nat : j = k - 1 /\ k \in 1..m /\ k \in 1..n
    BY <2>2, <2>3
  <2>5. f[j] = h[j]
    BY <2>1, <2>2, <2>4
  <2>6. f[k] = g[f[k - 1]] /\ h[k] = g[h[k - 1]]
    BY <2>4
  <2> QED
    BY <2>2, <2>4, <2>5, <2>6
<1> DEFINE up(n) == CHOOSE f \in Up(n) : TRUE
<1>3. ASSUME NEW n \in Nat PROVE up(n) \in Up(n)
  <2> HIDE DEF Up
  <2> QED
    BY <1>1
<1>4. PICK f : f = [n \in Nat |-> up(n)[n]]
  OBVIOUS
<1>5. ASSUME NEW n \in Nat PROVE f[n] \in S /\ f[n] = up(n)[n]
  <2>1. up(n) \in [0..n -> S]
    BY <1>3
  <2> HIDE DEF up
  <2> QED
    BY <1>4, <2>1
<1>6. f \in [Nat -> S]
  <2> HIDE DEF up
  <2> QED
    BY <1>4, <1>5
<1>7. f[0] = a
  <2>1. up(0)[0] = a
    BY <1>3
  <2> HIDE DEF up
  <2> QED
    BY <1>5, <2>1
<1>8. ASSUME NEW n \in Nat \ {0} PROVE f[n] = g[f[n - 1]]
  <2>1. PICK m \in Nat : m = n - 1
    OBVIOUS
  <2>2. up(n) \in Up(n) /\ up(m) \in Up(m) /\ f[n] = up(n)[n] /\ f[m] = up(m)[m]
    BY <1>3, <1>5
  <2>3. up(n)[n] = g[up(n)[n - 1]]
    <3>1. n \in 1..n
      OBVIOUS
    <3> HIDE DEF up
    <3> QED
      BY <2>2, <3>1
  <2> HIDE DEF up, Up
  <2>4. up(n)[m] = up(m)[m]
    BY <1>2, <2>1, <2>2
  <2> QED
    BY <2>1, <2>2, <2>3, <2>4
<1> QED
  BY <1>6, <1>7, <1>8 DEF RecursNat

-----------------------------------------------------------------------------
(* Powers of two, and numbers in digits. *)

(* TwoTo satisfies its equation. *)
LEMMA TwoToIs ==
  /\ TwoTo \in [Nat -> Nat \ {0}] /\ TwoTo[0] = 1
  /\ \A n \in Nat \ {0} : TwoTo[n] = 2 * TwoTo[n - 1]
<1>1. PICK S : S = Nat \ {0}
  OBVIOUS
<1>2. PICK g : g = [x \in S |-> 2 * x]
  OBVIOUS
<1>3. g \in [S -> S] /\ 1 \in S /\ \A x \in S : g[x] = 2 * x
  BY <1>1, <1>2
<1>4. PICK f \in [Nat -> S] : f[0] = 1 /\ \A i \in Nat \ {0} : f[i] = g[f[i - 1]]
  <2>1. \E f \in [Nat -> S] : RecursNat(f, 1, g)
    BY <1>3, RecursionNat
  <2> QED
    BY <2>1 DEF RecursNat
<1>5. ASSUME NEW n \in Nat PROVE f[n] = IF n = 0 THEN 1 ELSE 2 * f[n - 1]
  <2>1. CASE n = 0
    BY <1>4, <2>1
  <2>2. CASE n # 0
    <3>1. f[n - 1] \in S
      BY <1>4, <2>2
    <3> QED
      BY <1>3, <1>4, <2>2, <3>1
  <2> QED
    BY <2>1, <2>2
<1>6. f = [n \in Nat |-> IF n = 0 THEN 1 ELSE 2 * f[n - 1]]
  BY <1>4, <1>5
<1>7. TwoTo = [n \in Nat |-> IF n = 0 THEN 1 ELSE 2 * TwoTo[n - 1]]
  BY <1>6 DEF TwoTo
<1> DEFINE Bad == {n \in Nat : TwoTo[n] # f[n]}
<1>8. Bad = {}
  <2> SUFFICES ASSUME Bad # {} PROVE FALSE
    OBVIOUS
  <2>1. PICK k \in Bad : \A j \in Bad : k <= j
    BY LeastElement
  <2>2. k \in Nat /\ TwoTo[k] # f[k] /\ \A j \in Nat : j < k => TwoTo[j] = f[j]
    BY <2>1
  <2>3. CASE k = 0
    BY <1>4, <1>7, <2>2, <2>3
  <2>4. CASE k # 0
    <3>1. PICK j \in Nat : j = k - 1 /\ j < k
      BY <2>2, <2>4
    <3>2. TwoTo[k] = 2 * TwoTo[j]
      BY <1>7, <2>2, <2>4, <3>1
    <3>3. f[k] = 2 * f[j]
      BY <1>5, <2>2, <2>4, <3>1
    <3> QED
      BY <2>2, <3>1, <3>2, <3>3
  <2> QED
    BY <2>3, <2>4
<1>9. \A n \in Nat : TwoTo[n] = f[n]
  BY <1>8
<1>10. TwoTo \in [Nat -> Nat \ {0}]
  <2>1. \A n \in Nat : f[n] \in Nat \ {0}
    BY <1>1, <1>4
  <2> QED
    BY <1>7, <1>9, <2>1
<1>11. TwoTo[0] = 1 /\ \A n \in Nat \ {0} : TwoTo[n] = 2 * TwoTo[n - 1]
  BY <1>7
<1> QED
  BY <1>10, <1>11

(* Powers add up, *)
LEMMA TwoToPlus ==
  ASSUME NEW m \in Nat, NEW n \in Nat
  PROVE  TwoTo[m + n] = TwoTo[m] * TwoTo[n]
<1> DEFINE Bad == {k \in Nat : TwoTo[m + k] # TwoTo[m] * TwoTo[k]}
<1> SUFFICES ASSUME Bad # {} PROVE FALSE
  OBVIOUS
<1>1. PICK k \in Bad : \A j \in Bad : k <= j
  BY LeastElement
<1>2. k \in Nat /\ TwoTo[m + k] # TwoTo[m] * TwoTo[k] /\ \A j \in Nat : j < k => TwoTo[m + j] = TwoTo[m] * TwoTo[j]
  BY <1>1
<1>3. PICK a \in Nat : a = TwoTo[m]
  BY TwoToIs
<1>4. CASE k = 0
  <2>1. m + k = m /\ TwoTo[k] = 1 /\ a * 1 = a
    BY <1>4, TwoToIs
  <2> QED
    BY <1>2, <1>3, <2>1
<1>5. CASE k # 0
  <2>1. PICK j \in Nat : j = k - 1 /\ j < k
    BY <1>2, <1>5
  <2>2. PICK b \in Nat, c \in Nat : b = TwoTo[j] /\ c = TwoTo[m + j]
    BY TwoToIs
  <2>3. c = a * b
    BY <1>2, <1>3, <2>1, <2>2
  <2>4. TwoTo[k] = 2 * b
    BY <1>2, <1>5, <2>1, <2>2, TwoToIs
  <2>5. TwoTo[m + k] = 2 * c
    <3>1. PICK l \in Nat \ {0} : l = m + k /\ l - 1 = m + j
      BY <1>2, <1>5, <2>1
    <3> QED
      BY <2>2, <3>1, TwoToIs
  <2>6. 2 * (a * b) = a * (2 * b)
    OBVIOUS
  <2> QED
    BY <1>2, <1>3, <2>3, <2>4, <2>5, <2>6
<1> QED
  BY <1>4, <1>5

(* and grow. *)
LEMMA TwoToMono ==
  ASSUME NEW m \in Nat, NEW n \in Nat, m <= n
  PROVE  TwoTo[m] <= TwoTo[n]
<1>1. PICK d \in Nat : d = n - m /\ n = m + d
  OBVIOUS
<1>2. PICK a \in Nat, b \in Nat \ {0} : a = TwoTo[m] /\ b = TwoTo[d]
  BY TwoToIs
<1>3. TwoTo[n] = a * b
  BY <1>1, <1>2, TwoToPlus
<1>4. a * 1 <= a * b
  BY <1>2, TimesMono
<1> QED
  BY <1>2, <1>3, <1>4

(* 2 ^ n is more than n. *)
LEMMA TwoToMore ==
  ASSUME NEW n \in Nat
  PROVE  n < TwoTo[n]
<1> DEFINE Bad == {k \in Nat : ~(k < TwoTo[k])}
<1> SUFFICES ASSUME Bad # {} PROVE FALSE
  OBVIOUS
<1>1. PICK k \in Bad : \A j \in Bad : k <= j
  BY LeastElement
<1>2. k \in Nat /\ ~(k < TwoTo[k]) /\ \A j \in Nat : j < k => j < TwoTo[j]
  BY <1>1
<1>3. k # 0
  BY <1>2, TwoToIs
<1>4. PICK j \in Nat : j = k - 1 /\ j < k
  BY <1>2, <1>3
<1>5. PICK b \in Nat : b = TwoTo[j] /\ j < b
  BY <1>2, <1>4, TwoToIs
<1>6. TwoTo[k] = 2 * b
  BY <1>2, <1>3, <1>4, <1>5, TwoToIs
<1> QED
  BY <1>2, <1>4, <1>5, <1>6

(* A byte has at least four values, a group of bits at least two. *)
LEMMA BaseIs ==
  /\ Base \in Nat \ {0, 1} /\ Group \in Nat \ {0, 1} /\ Base = 2 * Group
  /\ Values(0) = 1 /\ Values(1) = Base
  /\ \A n \in Nat : Values(n) \in Nat \ {0} /\ Values(n + 1) = Base * Values(n)
<1> USE ByteBitsAssumption
<1>1. PICK d \in Nat \ {0} : d = ByteBits - 1
  OBVIOUS
<1>2. PICK g \in Nat \ {0} : g = TwoTo[d] /\ d < g
  BY TwoToIs, TwoToMore
<1>3. Group = g /\ Base = 2 * g
  BY <1>1, <1>2, TwoToIs DEF Group, Base
<1>4. ASSUME NEW n \in Nat PROVE Values(n) \in Nat \ {0} /\ Values(n + 1) = Base * Values(n)
  <2>1. PICK m \in Nat : m = n * ByteBits
    OBVIOUS
  <2>2. (n + 1) * ByteBits = ByteBits + m
    BY <2>1
  <2>3. TwoTo[ByteBits + m] = TwoTo[ByteBits] * TwoTo[m]
    BY TwoToPlus
  <2> QED
    BY <2>1, <2>2, <2>3, TwoToIs DEF Values, Base
<1>5. Values(0) = 1
  <2>1. 0 * ByteBits = 0
    OBVIOUS
  <2> QED
    BY <2>1, TwoToIs DEF Values
<1>6. Values(1) = Base
  <2>1. 1 * ByteBits = ByteBits
    OBVIOUS
  <2> QED
    BY <2>1 DEF Values, Base
<1>7. g >= 2
  BY <1>1, <1>2
<1>8. Base \in Nat \ {0, 1} /\ Group \in Nat \ {0, 1} /\ Base = 2 * Group
  BY <1>3, <1>7
<1> QED
  BY <1>4, <1>5, <1>6, <1>8

(* The same without the powers. *)
LEMMA GroupIs == Base \in Nat \ {0, 1} /\ Group \in Nat \ {0, 1} /\ Base = 2 * Group
BY BaseIs

(* The function that adds up the digits from the last on. *)
Upper(base, digits) ==
    CHOOSE upper : upper = [i \in 0..Len(digits) |-> IF i = 0 THEN 0 ELSE digits[Len(digits) + 1 - i] + base * upper[i - 1]]

(* It exists, and Number is its last value. *)
LEMMA NumberIs ==
  ASSUME NEW base \in Nat, NEW digits \in Seq(Nat)
  PROVE  \E f \in [0..Len(digits) -> Nat] :
            /\ f[0] = 0 /\ \A i \in 1..Len(digits) : f[i] = digits[Len(digits) + 1 - i] + base * f[i - 1]
            /\ Number(base, digits) = f[Len(digits)]
<1>1. PICK n \in Nat : n = Len(digits)
  BY LenProperties
<1>2. PICK g : g = [x \in (1..n) \X Nat |-> digits[n + 1 - x[1]] + base * x[2]]
  OBVIOUS
<1>3. ASSUME NEW i \in 1..n, NEW y \in Nat
      PROVE  g[<<i, y>>] = digits[n + 1 - i] + base * y /\ digits[n + 1 - i] + base * y \in Nat
  <2>1. n + 1 - i \in 1..n
    OBVIOUS
  <2>2. digits[n + 1 - i] \in Nat
    BY <1>1, <2>1, ElementOfSeq
  <2>3. base * y \in Nat
    OBVIOUS
  <2>4. PICK x : x = <<i, y>>
    OBVIOUS
  <2>5. x[1] = i /\ x[2] = y /\ x \in (1..n) \X Nat
    BY <2>4
  <2>6. g[x] = digits[n + 1 - i] + base * y
    BY <1>2, <2>4, <2>5
  <2>7. digits[n + 1 - i] + base * y \in Nat
    <3>1. PICK u \in Nat, v \in Nat : u = digits[n + 1 - i] /\ v = base * y
      BY <2>2, <2>3
    <3>2. u + v \in Nat
      OBVIOUS
    <3> QED
      BY <3>1, <3>2
  <2> QED
    BY <2>4, <2>6, <2>7
<1>4. g \in [(1..n) \X Nat -> Nat]
  <2>1. ASSUME NEW x \in (1..n) \X Nat PROVE digits[n + 1 - x[1]] + base * x[2] \in Nat
    BY <1>3
  <2> QED
    BY <1>2, <2>1
<1>5. PICK f \in [0..n -> Nat] : Recurs(f, n, 0, g)
  BY <1>4, Recursion
<1>6. ASSUME NEW i \in 0..n
      PROVE  f[i] = IF i = 0 THEN 0 ELSE digits[n + 1 - i] + base * f[i - 1]
  <2>1. CASE i = 0
    BY <1>5, <2>1 DEF Recurs
  <2>2. CASE i # 0
    <3>1. i \in 1..n /\ f[i - 1] \in Nat
      BY <2>2
    <3> QED
      BY <1>3, <1>5, <2>2, <3>1 DEF Recurs
  <2> QED
    BY <2>1, <2>2
<1>7. f = [i \in 0..n |-> IF i = 0 THEN 0 ELSE digits[n + 1 - i] + base * f[i - 1]]
  BY <1>6
<1>8. PICK u : u = Upper(base, digits)
  OBVIOUS
<1>9. u = [i \in 0..n |-> IF i = 0 THEN 0 ELSE digits[n + 1 - i] + base * u[i - 1]]
  BY <1>1, <1>7, <1>8 DEF Upper
<1>10. Number(base, digits) = u[n]
  BY <1>1, <1>8 DEF Number, Upper
<1> DEFINE Bad == {k \in Nat : k <= n /\ u[k] # f[k]}
<1>11. Bad = {}
  <2> SUFFICES ASSUME Bad # {} PROVE FALSE
    OBVIOUS
  <2>1. PICK k \in Bad : \A j \in Bad : k <= j
    BY LeastElement
  <2>2. k \in 0..n /\ u[k] # f[k] /\ \A j \in 0..n : j < k => u[j] = f[j]
    BY <2>1
  <2>3. k # 0
    BY <1>6, <1>9, <2>2
  <2>4. u[k] = digits[n + 1 - k] + base * u[k - 1] /\ f[k] = digits[n + 1 - k] + base * f[k - 1]
    BY <1>6, <1>9, <2>2, <2>3
  <2>5. u[k - 1] = f[k - 1]
    BY <2>2, <2>3
  <2> QED
    BY <2>2, <2>4, <2>5
<1>12. u[n] = f[n]
  BY <1>11
<1>13. f[0] = 0 /\ \A i \in 1..n : f[i] = digits[n + 1 - i] + base * f[i - 1]
  <2>1. f[0] = 0
    BY <1>6
  <2>2. ASSUME NEW i \in 1..n PROVE f[i] = digits[n + 1 - i] + base * f[i - 1]
    <3>1. i \in 0..n /\ i # 0
      OBVIOUS
    <3> QED
      BY <1>6, <3>1
  <2> QED
    BY <2>1, <2>2
<1> QED
  BY <1>1, <1>10, <1>12, <1>13

(* A product that is not null. *)
LEMMA TimesPos ==
  ASSUME NEW b \in Nat \ {0}, NEW c \in Nat \ {0}
  PROVE  b * c \in Nat \ {0}
<1>1. b * 1 <= b * c /\ b * c \in Nat
  BY TimesMono
<1> QED
  BY <1>1

(* The quotient, as a term of its own. *)
Quo(a, b) == a \div b

(* Dividing twice. *)
LEMMA DivDiv ==
  ASSUME NEW a \in Nat, NEW b \in Nat \ {0}, NEW c \in Nat \ {0}, NEW m \in Nat \ {0}, m = b * c
  PROVE  Quo(Quo(a, b), c) = Quo(a, m)
<1>1. PICK q \in Nat, r \in 0..b-1 : q = a \div b /\ a = q * b + r
  BY DivMod
<1>2. PICK x \in Nat, y \in 0..c-1 : x = q \div c /\ q = x * c + y
  BY DivMod
<1>3. PICK s \in Nat : s = y * b + r
  OBVIOUS
<1>4. s <= m - 1
  <2>1. PICK z \in Nat : z = c - 1 /\ y <= z
    OBVIOUS
  <2>2. b * y <= b * z
    BY <2>1, TimesMono
  <2>3. b * z = m - b
    BY <2>1
  <2> QED
    BY <1>3, <2>2, <2>3
<1>5. a = x * m + s
  <2>1. (x * c + y) * b = x * (b * c) + y * b
    OBVIOUS
  <2>2. PICK u \in Nat, w \in Nat : u = x * m /\ w = y * b
    OBVIOUS
  <2>3. q * b = u + w
    BY <1>2, <2>1, <2>2
  <2> QED
    BY <1>1, <1>3, <2>2, <2>3
<1>6. (x * m + s) \div m = x
  <2>1. s \in 0..m-1
    BY <1>4
  <2> QED
    BY <2>1, DivModUnique
<1>7. Quo(a, b) = q /\ Quo(q, c) = x /\ Quo(a, m) = x
  BY <1>1, <1>2, <1>5, <1>6 DEF Quo
<1> QED
  BY <1>7

(* p[i] is the i-th power of base. *)
Powers(p, base) == p \in [Nat -> Nat \ {0}] /\ p[0] = 1 /\ \A i \in Nat : p[i + 1] = base * p[i]

(* The digits of v. *)
DigitsOf(digits, v, base, p) ==
    digits \in Seq(Nat) /\ \A i \in 1..Len(digits) : digits[i] = (v \div p[i - 1]) % base

(* A number is the number of its digits. *)
LEMMA NumberOfDigits ==
  ASSUME NEW base \in Nat \ {0}, NEW p, Powers(p, base), NEW v \in Nat, NEW digits,
         DigitsOf(digits, v, base, p), v < p[Len(digits)]
  PROVE  Number(base, digits) = v
<1>1. PICK n \in Nat : n = Len(digits)
  BY LenProperties DEF DigitsOf
<1>2. digits \in Seq(Nat)
  BY DEF DigitsOf
<1>3. PICK f \in [0..n -> Nat] :
          /\ f[0] = 0 /\ \A i \in 1..n : f[i] = digits[n + 1 - i] + base * f[i - 1]
          /\ Number(base, digits) = f[n]
  BY <1>1, <1>2, NumberIs
<1> DEFINE Bad == {k \in Nat : k <= n /\ f[k] # v \div p[n - k]}
<1>4. Bad = {}
  <2> SUFFICES ASSUME Bad # {} PROVE FALSE
    OBVIOUS
  <2>1. PICK k \in Bad : \A j \in Bad : k <= j
    BY LeastElement
  <2>2. k \in Nat /\ k <= n /\ f[k] # v \div p[n - k] /\ \A j \in Nat : j <= n /\ j < k => f[j] = v \div p[n - j]
    BY <2>1
  <2>3. CASE k = 0
    <3>1. PICK b \in Nat \ {0} : b = p[n] /\ v < b
      BY <1>1 DEF Powers
    <3>2. (0 * b + v) \div b = 0
      <4>0. v < b
        BY <3>1
      <4>1. v \in 0..b-1
        BY <4>0
      <4> QED
        BY <4>1, DivModUnique
    <3>3. 0 * b + v = v /\ n - k = n
      BY <2>3
    <3> QED
      BY <1>3, <2>2, <2>3, <3>1, <3>2, <3>3
  <2>4. CASE k # 0
    <3>1. PICK j \in Nat, m \in Nat : j = k - 1 /\ m = n - k /\ n - j = m + 1 /\ j < k /\ j <= n /\ k \in 1..n
      BY <2>2, <2>4
    <3>2. PICK b \in Nat \ {0} : b = p[m] /\ p[m + 1] = base * b
      BY DEF Powers
    <3>3. f[j] = v \div p[m + 1]
      BY <2>2, <3>1
    <3>4. b * base = base * b
      OBVIOUS
    <3>5. f[j] = (v \div b) \div base
      <4>1. PICK l \in Nat \ {0} : l = b * base
        BY TimesPos
      <4>2. Quo(Quo(v, b), base) = Quo(v, l)
        BY <4>1, DivDiv
      <4>3. l = p[m + 1]
        BY <3>2, <3>4, <4>1
      <4> QED
        BY <3>3, <4>2, <4>3 DEF Quo
    <3>6. PICK q \in Nat : q = v \div b
      BY DivMod
    <3>7. digits[m + 1] = q % base
      <4>1. m + 1 \in 1..n /\ (m + 1) - 1 = m
        BY <3>1
      <4> QED
        BY <1>1, <3>2, <3>6, <4>1 DEF DigitsOf
    <3>8. f[k] = digits[m + 1] + base * f[j]
      <4>1. n + 1 - k = m + 1
        BY <3>1
      <4> QED
        BY <1>3, <3>1, <4>1
    <3>9. f[k] = (q % base) + base * (q \div base)
      BY <3>5, <3>6, <3>7, <3>8
    <3>10. PICK x \in Nat, y \in 0..base-1 : x = q \div base /\ y = q % base /\ q = x * base + y
      BY Divided
    <3>11. y + base * x = x * base + y
      OBVIOUS
    <3> QED
      BY <2>2, <3>1, <3>2, <3>6, <3>9, <3>10, <3>11
  <2> QED
    BY <2>3, <2>4
<1>5. f[n] = v \div p[n - n]
  <2>1. n \notin Bad
    <3> HIDE DEF Bad
    <3> QED
      BY <1>4
  <2>2. n <= n
    OBVIOUS
  <2> QED
    BY <2>1, <2>2, Zenon
<1>6. p[n - n] = 1
  BY DEF Powers
<1>7. (v * 1 + 0) \div 1 = v /\ v * 1 + 0 = v
  <2>1. 0 \in 0..1-1 /\ v * 1 + 0 = v
    OBVIOUS
  <2> QED
    BY <2>1, DivModUnique
<1> QED
  BY <1>3, <1>5, <1>6, <1>7

(* A sequence turned around twice. *)
LEMMA ReverseTwice ==
  ASSUME NEW S, NEW s \in Seq(S)
  PROVE  Reverse(s) \in Seq(S) /\ Len(Reverse(s)) = Len(s) /\ Reverse(Reverse(s)) = s
<1>1. PICK n \in Nat : n = Len(s)
  BY LenProperties
<1>2. PICK t : t = Reverse(s)
  OBVIOUS
<1>3. ASSUME NEW i \in 1..n PROVE (n - i) + 1 \in 1..n /\ s[(n - i) + 1] \in S /\ (n - ((n - i) + 1)) + 1 = i
  <2>1. (n - i) + 1 \in 1..n /\ (n - ((n - i) + 1)) + 1 = i
    OBVIOUS
  <2> QED
    BY <1>1, <2>1, ElementOfSeq
<1>4. t = [i \in 1..n |-> s[(n - i) + 1]]
  BY <1>1, <1>2 DEF Reverse
<1>5. t \in [1..n -> S]
  BY <1>3, <1>4
<1>6. t \in Seq(S) /\ Len(t) = n
  BY <1>5, SeqOfFn
<1>7. Reverse(t) = [i \in 1..n |-> t[(n - i) + 1]]
  BY <1>6 DEF Reverse
<1>8. Reverse(t) = [i \in 1..n |-> s[i]]
  <2>1. ASSUME NEW i \in 1..n PROVE t[(n - i) + 1] = s[i]
    BY <1>3, <1>4
  <2> QED
    BY <1>7, <2>1
<1>9. s = [i \in 1..n |-> s[i]]
  BY <1>1
<1> QED
  BY <1>1, <1>2, <1>6, <1>8, <1>9

-----------------------------------------------------------------------------
(* Numbers of a fixed length. *)

(* The n bytes of u, the least one first, *)
LittleBytes(u, n) == [i \in 1..n |-> (u \div Values(i - 1)) % Base]

(* are n bytes. *)
LEMMA LittleIs ==
  ASSUME NEW u \in Nat, NEW n \in Nat
  PROVE  /\ LittleBytes(u, n) \in Seq(Byte) /\ Len(LittleBytes(u, n)) = n
         /\ LittleBytes(u, n) \in Seq(Nat)
         /\ u < Values(n) => Number(Base, LittleBytes(u, n)) = u
<1>1. PICK s : s = LittleBytes(u, n)
  OBVIOUS
<1>2. ASSUME NEW i \in 1..n PROVE (u \div Values(i - 1)) % Base \in Byte
  <2>0. PICK j \in Nat : j = i - 1
    OBVIOUS
  <2>1. PICK b \in Nat \ {0} : b = Values(j)
    BY BaseIs
  <2>2. PICK q \in Nat : q = u \div b
    BY DivMod
  <2>3. q % Base \in 0..Base-1
    BY BaseIs, DivMod
  <2> QED
    BY <2>0, <2>1, <2>2, <2>3 DEF Byte
<1>3. s \in [1..n -> Byte] /\ \A i \in 1..n : s[i] = (u \div Values(i - 1)) % Base
  BY <1>1, <1>2 DEF LittleBytes
<1>4. s \in Seq(Byte) /\ Len(s) = n
  BY <1>3, SeqOfFn
<1>5. Byte \subseteq Nat
  BY BaseIs DEF Byte
<1>6. s \in Seq(Nat)
  BY <1>4, <1>5, SeqMonotonic
<1>7. PICK p : p = [i \in Nat |-> Values(i)]
  OBVIOUS
<1>8. Powers(p, Base)
  BY <1>7, BaseIs DEF Powers
<1>9. DigitsOf(s, u, Base, p)
  <2>1. ASSUME NEW i \in 1..n PROVE s[i] = (u \div p[i - 1]) % Base
    <3>1. p[i - 1] = Values(i - 1)
      BY <1>7
    <3> QED
      BY <1>3, <3>1
  <2> QED
    BY <1>4, <1>6, <2>1 DEF DigitsOf
<1>10. ASSUME u < Values(n) PROVE Number(Base, s) = u
  <2>1. u < p[Len(s)]
    BY <1>4, <1>7, <1>10
  <2> QED
    BY <1>8, <1>9, <2>1, BaseIs, NumberOfDigits
<1> QED
  BY <1>1, <1>4, <1>6, <1>10

(* The order the host has does not matter: the stream has the one asked for. *)
LEMMA FixedIs ==
  ASSUME NEW order \in {LITTLE, BIG}, NEW endian \in {LITTLE, BIG}
  PROVE  /\ \A v \in Int, n \in Nat : Unsigned(v, n) \in Nat =>
               EncodeFixed(order, endian, v, n) =
                  IF endian = LITTLE THEN LittleBytes(Unsigned(v, n), n) ELSE Reverse(LittleBytes(Unsigned(v, n), n))
         /\ \A bytes \in Seq(Byte) :
               DecodeFixed(order, endian, bytes) = Number(Base, IF endian = LITTLE THEN bytes ELSE Reverse(bytes))
<1>1. ASSUME NEW v \in Int, NEW n \in Nat, Unsigned(v, n) \in Nat
      PROVE  EncodeFixed(order, endian, v, n) =
                IF endian = LITTLE THEN LittleBytes(Unsigned(v, n), n) ELSE Reverse(LittleBytes(Unsigned(v, n), n))
  <2>1. PICK s \in Seq(Byte) : s = LittleBytes(Unsigned(v, n), n)
    BY <1>1, LittleIs
  <2>2. InMemory(order, Unsigned(v, n), n) = IF order = LITTLE THEN s ELSE Reverse(s)
    BY <2>1 DEF InMemory, LittleBytes
  <2>3. Reverse(Reverse(s)) = s
    BY ReverseTwice
  <2>4. EncodeFixed(order, endian, v, n) =
           IF endian # order THEN Reverse(IF order = LITTLE THEN s ELSE Reverse(s)) ELSE IF order = LITTLE THEN s ELSE Reverse(s)
    BY <2>2 DEF EncodeFixed, Byteswap
  <2> QED
    BY <2>1, <2>3, <2>4 DEF LITTLE, BIG
<1>2. ASSUME NEW bytes \in Seq(Byte)
      PROVE  DecodeFixed(order, endian, bytes) = Number(Base, IF endian = LITTLE THEN bytes ELSE Reverse(bytes))
  <2>1. Reverse(Reverse(bytes)) = bytes
    BY ReverseTwice
  <2>2. PICK m : m = IF endian = order THEN bytes ELSE Reverse(bytes)
    OBVIOUS
  <2>3. DecodeFixed(order, endian, bytes) = Number(Base, IF order = LITTLE THEN m ELSE Reverse(m))
    BY <2>2 DEF DecodeFixed, FromMemory, Byteswap
  <2>4. (IF order = LITTLE THEN m ELSE Reverse(m)) = IF endian = LITTLE THEN bytes ELSE Reverse(bytes)
    BY <2>1, <2>2 DEF LITTLE, BIG
  <2> QED
    BY <2>3, <2>4
<1> QED
  BY <1>1, <1>2

-----------------------------------------------------------------------------
(* Numbers of a variable length. *)

(* The values that i groups of bits hold. *)
Groups(i) == TwoTo[i * (ByteBits - 1)]

(* They are the powers of Group. *)
LEMMA GroupsIs ==
  /\ Groups(0) = 1 /\ Groups(1) = Group
  /\ \A i \in Nat : Groups(i) \in Nat \ {0} /\ Groups(i + 1) = Group * Groups(i)
  /\ \A i \in Nat : i < Groups(i)
<1> USE ByteBitsAssumption
<1>1. PICK d \in Nat \ {0} : d = ByteBits - 1
  OBVIOUS
<1>2. \A i \in Nat : Groups(i) = TwoTo[i * d] /\ Group = TwoTo[d]
  BY <1>1 DEF Groups, Group
<1>3. ASSUME NEW i \in Nat PROVE Groups(i) \in Nat \ {0} /\ Groups(i + 1) = Group * Groups(i) /\ i < Groups(i)
  <2>1. PICK m \in Nat : m = i * d /\ i <= m
    <3>1. i * 1 <= i * d /\ i * d \in Nat
      BY TimesMono
    <3> QED
      BY <3>1
  <2>2. (i + 1) * d = d + m
    BY <2>1
  <2>3. TwoTo[d + m] = TwoTo[d] * TwoTo[m]
    BY TwoToPlus
  <2>4. TwoTo[m] \in Nat \ {0} /\ m < TwoTo[m]
    BY TwoToIs, TwoToMore
  <2>5. Groups(i) = TwoTo[m] /\ Groups(i + 1) = TwoTo[d + m]
    BY <1>2, <2>1, <2>2
  <2> QED
    BY <1>2, <2>1, <2>3, <2>4, <2>5
<1>4. Groups(0) = 1
  <2>1. 0 * d = 0
    OBVIOUS
  <2> QED
    BY <1>2, <2>1, TwoToIs
<1>5. Groups(1) = Group
  <2>1. 1 * d = d
    OBVIOUS
  <2> QED
    BY <1>2, <2>1
<1> QED
  BY <1>3, <1>4, <1>5

(* They grow. *)
LEMMA GroupsMono ==
  ASSUME NEW i \in Nat, NEW j \in Nat, i <= j
  PROVE  Groups(i) <= Groups(j)
<1> USE ByteBitsAssumption
<1>1. PICK d \in Nat : d = ByteBits - 1
  OBVIOUS
<1>2. d * i <= d * j /\ d * i \in Nat /\ d * j \in Nat
  BY TimesMono
<1>3. PICK x \in Nat, y \in Nat : x = i * d /\ y = j * d /\ x <= y
  BY <1>2
<1>4. TwoTo[x] <= TwoTo[y]
  BY <1>3, TwoToMono
<1> QED
  BY <1>1, <1>3, <1>4 DEF Groups

(* n groups are as many as v needs. *)
Needs(v, n) == n \in Nat \ {0} /\ v < Groups(n) /\ (n > 1 => v >= Groups(n - 1))

(* There is one such number of groups, *)
LEMMA NeedsSome ==
  ASSUME NEW v \in Nat
  PROVE  \E n \in Nat \ {0} : Needs(v, n)
<1> DEFINE Enough == {n \in Nat \ {0} : v < Groups(n)}
<1>1. PICK m \in Nat \ {0} : m = v + 1
  OBVIOUS
<1>2. v < Groups(m)
  <2>1. Groups(m) \in Nat /\ m < Groups(m)
    BY GroupsIs
  <2> QED
    BY <1>1, <2>1
<1>3. Enough # {} /\ Enough \subseteq Nat
  BY <1>1, <1>2
<1>4. PICK n \in Enough : \A k \in Enough : n <= k
  <2> HIDE DEF Enough
  <2> QED
    BY <1>3, LeastElement
<1>5. ASSUME n > 1 PROVE v >= Groups(n - 1)
  <2>1. PICK k \in Nat \ {0} : k = n - 1
    BY <1>4, <1>5
  <2>2. k \notin Enough
    BY <1>4, <2>1
  <2>3. Groups(k) \in Nat
    BY GroupsIs
  <2> QED
    BY <2>1, <2>2, <2>3
<1>6. n \in Nat \ {0} /\ v < Groups(n)
  BY <1>4
<1> QED
  BY <1>5, <1>6 DEF Needs

(* and only one. *)
LEMMA NeedsOne ==
  ASSUME NEW v \in Nat, NEW m, Needs(v, m), NEW n, Needs(v, n)
  PROVE  m = n
<1>1. m \in Nat \ {0} /\ n \in Nat \ {0} /\ v < Groups(m) /\ v < Groups(n)
  BY DEF Needs
<1>2. CASE m < n
  <2>1. PICK k \in Nat : k = n - 1 /\ m <= k /\ n > 1
    BY <1>1, <1>2
  <2>2. Groups(m) <= Groups(k)
    BY <1>1, <2>1, GroupsMono
  <2>3. v >= Groups(k)
    BY <2>1 DEF Needs
  <2> QED
    BY <1>1, <2>2, <2>3, GroupsIs
<1>3. CASE n < m
  <2>1. PICK k \in Nat : k = m - 1 /\ n <= k /\ m > 1
    BY <1>1, <1>3
  <2>2. Groups(n) <= Groups(k)
    BY <1>1, <2>1, GroupsMono
  <2>3. v >= Groups(k)
    BY <2>1 DEF Needs
  <2> QED
    BY <1>1, <2>2, <2>3, GroupsIs
<1> QED
  BY <1>1, <1>2, <1>3

(* A quotient below a bound. *)
LEMMA DivBelow ==
  ASSUME NEW v \in Nat, NEW a \in Nat \ {0}, NEW b \in Nat
  PROVE  v \div a < b <=> v < a * b
<1>1. PICK q \in Nat, r \in 0..a-1 : q = v \div a /\ v = q * a + r
  BY DivMod
<1>2. CASE q < b
  <2>1. PICK x \in Nat : x = q + 1 /\ x <= b
    BY <1>2
  <2>2. a * x <= a * b
    BY <2>1, TimesMono
  <2>3. a * x = q * a + a
    BY <2>1
  <2> QED
    BY <1>1, <1>2, <2>2, <2>3
<1>3. CASE q >= b
  <2>1. a * b <= a * q
    BY <1>3, TimesMono
  <2>2. a * q = q * a
    OBVIOUS
  <2> QED
    BY <1>1, <1>3, <2>1, <2>2
<1> QED
  BY <1>2, <1>3

(* A number of more than one group needs one more than its quotient. *)
LEMMA NeedsNext ==
  ASSUME NEW v \in Nat, v >= Group, NEW n, Needs(v \div Group, n)
  PROVE  Needs(v, n + 1)
<1>1. PICK q \in Nat : q = v \div Group
  BY BaseIs, DivMod
<1>2. n \in Nat \ {0} /\ q < Groups(n) /\ (n > 1 => q >= Groups(n - 1))
  BY <1>1 DEF Needs
<1>3. PICK g \in Nat, h \in Nat : g = Groups(n) /\ h = Groups(n + 1) /\ h = Group * g
  BY <1>2, GroupsIs
<1>4. v < h
  <2>1. Group \in Nat \ {0}
    BY BaseIs
  <2>2. v \div Group < g <=> v < Group * g
    BY <2>1, DivBelow
  <2> QED
    BY <1>1, <1>2, <1>3, <2>2
<1>5. v >= g
  <2>1. CASE n = 1
    BY <1>3, <2>1, GroupsIs
  <2>2. CASE n > 1
    <3>1. PICK k \in Nat : k = n - 1 /\ n = k + 1
      BY <1>2, <2>2
    <3>2. PICK f \in Nat : f = Groups(k) /\ g = Group * f
      BY <1>3, <3>1, GroupsIs
    <3>3. ~(q < f)
      BY <1>2, <2>2, <3>1, <3>2
    <3>4. ~(v < Group * f)
      BY <1>1, <3>3, BaseIs, DivBelow
    <3> QED
      BY <3>2, <3>4
  <2> QED
    BY <1>2, <2>1, <2>2
<1>6. (n + 1) - 1 = n /\ n + 1 \in Nat \ {0}
  BY <1>2
<1> QED
  BY <1>3, <1>4, <1>5, <1>6 DEF Needs

(* The n groups of v, with the continuation bit in all but the last. *)
Varint(v, n) == [i \in 1..n |-> ((v \div Groups(i - 1)) % Group) + (IF i < n THEN Group ELSE 0)]

(* They are bytes. *)
LEMMA VarintSeq ==
  ASSUME NEW v \in Nat, NEW n \in Nat
  PROVE  /\ Varint(v, n) \in Seq(Byte) /\ Len(Varint(v, n)) = n
         /\ \A i \in 1..n : /\ Varint(v, n)[i] = ((v \div Groups(i - 1)) % Group) + (IF i < n THEN Group ELSE 0)
                            /\ (v \div Groups(i - 1)) % Group \in 0..Group-1
<1>1. PICK s : s = Varint(v, n)
  OBVIOUS
<1>2. ASSUME NEW i \in 1..n PROVE (v \div Groups(i - 1)) % Group \in 0..Group-1
  <2>1. PICK j \in Nat : j = i - 1
    OBVIOUS
  <2>2. PICK b \in Nat \ {0} : b = Groups(j)
    BY GroupsIs
  <2>3. PICK q \in Nat : q = v \div b
    BY DivMod
  <2>4. q % Group \in 0..Group-1
    BY BaseIs, DivMod
  <2> QED
    BY <2>1, <2>2, <2>3, <2>4
<1>3. ASSUME NEW i \in 1..n PROVE ((v \div Groups(i - 1)) % Group) + (IF i < n THEN Group ELSE 0) \in Byte
  <2>1. PICK x \in 0..Group-1 : x = (v \div Groups(i - 1)) % Group
    BY <1>2
  <2>2. x + (IF i < n THEN Group ELSE 0) \in Byte
    BY BaseIs DEF Byte
  <2> QED
    BY <2>1, <2>2
<1>4. s \in [1..n -> Byte] /\ \A i \in 1..n : s[i] = ((v \div Groups(i - 1)) % Group) + (IF i < n THEN Group ELSE 0)
  BY <1>1, <1>3 DEF Varint
<1> QED
  BY <1>1, <1>2, <1>4, SeqOfFn

(* The last round of the loop of writeUint32 and writeUint64, *)
LEMMA VarintLast ==
  ASSUME NEW v \in Nat, v < Group
  PROVE  Varint(v, 1) = <<v>> /\ Needs(v, 1)
<1>1. Needs(v, 1)
  BY GroupsIs DEF Needs
<1>2. Groups(1 - 1) = 1
  BY GroupsIs
<1>3. v \div 1 = v
  <2>1. 0 \in 0..1-1 /\ v * 1 + 0 = v
    OBVIOUS
  <2> QED
    BY <2>1, DivModUnique
<1>4. v % Group = v
  <2>1. Group \in Nat \ {0} /\ v \in 0..Group-1 /\ 0 * Group + v = v
    BY BaseIs
  <2>2. (0 * Group + v) % Group = v
    BY <2>1, DivModUnique
  <2> QED
    BY <2>1, <2>2
<1>5. ((v \div Groups(1 - 1)) % Group) + (IF 1 < 1 THEN Group ELSE 0) = v
  BY <1>2, <1>3, <1>4
<1>6. Varint(v, 1) = [i \in 1..1 |-> v]
  <2>1. \A i \in 1..1 : i = 1
    OBVIOUS
  <2> QED
    BY <1>5, <2>1 DEF Varint
<1> QED
  BY <1>1, <1>6

(* its quotient, *)
LEMMA GroupDiv ==
  ASSUME NEW v \in Nat, NEW g \in Nat \ {0}
  PROVE  (v \div Group) \div g = v \div (Group * g)
<1>1. PICK w \in Nat \ {0} : w = Group
  BY GroupIs
<1>2. PICK m \in Nat \ {0} : m = w * g
  BY TimesPos
<1>3. Quo(Quo(v, w), g) = Quo(v, m)
  BY <1>2, DivDiv
<1> QED
  BY <1>1, <1>2, <1>3 DEF Quo

(* and the others. *)
LEMMA VarintRound ==
  ASSUME NEW v \in Nat, v >= Group, NEW n, Needs(v \div Group, n)
  PROVE  <<(v % Group) + Group>> \o Varint(v \div Group, n) = Varint(v, n + 1)
<1>1. Group \in Nat \ {0, 1} /\ n \in Nat \ {0}
  BY BaseIs DEF Needs
<1>2. PICK q \in Nat, x \in 0..Group-1 : q = v \div Group /\ x = v % Group
  BY <1>1, DivMod
<1>3. PICK m \in Nat : m = n + 1
  BY <1>1
<1>4. x + Group \in Byte
  BY <1>1, BaseIs DEF Byte
<1>5. PICK s : s = <<x + Group>>
  OBVIOUS
<1>6. s \in Seq(Byte) /\ Len(s) = 1 /\ s[1] = x + Group
  BY <1>4, <1>5
<1>7. PICK t : t = Varint(q, n)
  OBVIOUS
<1>8. t \in Seq(Byte) /\ Len(t) = n /\ \A i \in 1..n : t[i] = ((q \div Groups(i - 1)) % Group) + (IF i < n THEN Group ELSE 0)
  BY <1>1, <1>7, VarintSeq
<1>9. PICK r : r = Varint(v, m)
  OBVIOUS
<1>10. r \in Seq(Byte) /\ Len(r) = m /\ \A i \in 1..m : r[i] = ((v \div Groups(i - 1)) % Group) + (IF i < m THEN Group ELSE 0)
  BY <1>9, VarintSeq
<1>11. r[1] = s[1]
  <2>1. Groups(1 - 1) = 1
    BY GroupsIs
  <2>2. v \div 1 = v
    <3>1. 0 \in 0..1-1 /\ v * 1 + 0 = v
      OBVIOUS
    <3> QED
      BY <3>1, DivModUnique
  <2>3. 1 \in 1..m /\ 1 < m
    BY <1>1, <1>3
  <2> QED
    BY <1>2, <1>6, <1>10, <2>1, <2>2, <2>3
<1>12. ASSUME NEW i \in 1..n PROVE r[1 + i] = t[i]
  <2>1. PICK j \in Nat, k \in Nat : j = i - 1 /\ k = 1 + i /\ k - 1 = j + 1 /\ k \in 1..m /\ (k < m <=> i < n)
    BY <1>1, <1>3
  <2>2. PICK g \in Nat \ {0} : g = Groups(j) /\ Groups(j + 1) = Group * g
    BY GroupsIs
  <2>3. (v \div Group) \div g = v \div (Group * g)
    BY GroupDiv
  <2>4. q \div Groups(i - 1) = v \div Groups(k - 1)
    BY <1>2, <2>1, <2>2, <2>3
  <2>5. r[k] = ((v \div Groups(k - 1)) % Group) + (IF k < m THEN Group ELSE 0)
    BY <1>10, <2>1
  <2>6. t[i] = ((q \div Groups(i - 1)) % Group) + (IF i < n THEN Group ELSE 0)
    BY <1>8
  <2> QED
    BY <2>1, <2>4, <2>5, <2>6
<1>13. s \o t = r
  <2>1. Len(r) = Len(s) + Len(t)
    BY <1>1, <1>3, <1>6, <1>8, <1>10
  <2>2. \A i \in 1..Len(s) : r[i] = s[i]
    BY <1>6, <1>11
  <2>3. \A i \in 1..Len(t) : r[Len(s) + i] = t[i]
    BY <1>6, <1>8, <1>12
  <2> QED
    BY <1>6, <1>8, <1>10, <2>1, <2>2, <2>3, ConcatIs
<1> QED
  BY <1>2, <1>3, <1>5, <1>7, <1>9, <1>13

(* The number of groups that v needs. *)
VLen(v) == CHOOSE n \in Nat \ {0} : Needs(v, n)

(* It is the one. *)
LEMMA VLenIs ==
  ASSUME NEW v \in Nat
  PROVE  Needs(v, VLen(v)) /\ \A n : Needs(v, n) => n = VLen(v)
<1>1. Needs(v, VLen(v))
  BY NeedsSome DEF VLen
<1> QED
  BY <1>1, NeedsOne

(* EncodeVarint gives these groups. *)
LEMMA VarintIs ==
  ASSUME NEW v \in Nat
  PROVE  EncodeVarint[v] = Varint(v, VLen(v))
<1> DEFINE enc(f, x) == IF x >= Group THEN <<(x % Group) + Group>> \o f[x \div Group] ELSE <<x>>
<1>1. PICK f : f = [x \in Nat |-> Varint(x, VLen(x))]
  OBVIOUS
<1>2. ASSUME NEW x \in Nat, x >= Group PROVE x \div Group \in Nat /\ x \div Group < x
  <2>1. PICK q \in Nat, r \in 0..Group-1 : q = x \div Group /\ r = x % Group /\ x = q * Group + r
    BY GroupIs, Divided
  <2>2. PICK g \in Nat : g = Group /\ g >= 2
    BY GroupIs
  <2>3. q * 2 <= q * g
    BY <2>2, TimesMono
  <2>4. q < x
    BY <1>2, <2>1, <2>2, <2>3
  <2> QED
    BY <2>1, <2>4
<1>3. ASSUME NEW x \in Nat PROVE f[x] = enc(f, x)
  <2>1. CASE x >= Group
    <3>1. PICK q \in Nat : q = x \div Group
      BY <1>2, <2>1
    <3>2. PICK n : n = VLen(q)
      OBVIOUS
    <3>3. Needs(x \div Group, n)
      BY <3>1, <3>2, VLenIs
    <3>4. VLen(x) = n + 1
      BY <2>1, <3>3, NeedsNext, VLenIs
    <3>5. <<(x % Group) + Group>> \o Varint(x \div Group, n) = Varint(x, n + 1)
      BY <2>1, <3>3, VarintRound
    <3>6. f[q] = Varint(q, n) /\ f[x] = Varint(x, n + 1)
      BY <1>1, <3>2, <3>4
    <3> QED
      BY <2>1, <3>1, <3>5, <3>6
  <2>2. CASE ~(x >= Group)
    <3>1. x < Group
      BY <2>2, BaseIs
    <3>2. Varint(x, 1) = <<x>> /\ VLen(x) = 1
      BY <3>1, VarintLast, VLenIs
    <3> QED
      BY <1>1, <2>2, <3>2
  <2> QED
    BY <2>1, <2>2
<1>4. f = [x \in Nat |-> enc(f, x)]
  <2> HIDE DEF enc
  <2> QED
    BY <1>1, <1>3
<1>5. EncodeVarint = [x \in Nat |-> enc(EncodeVarint, x)]
  BY <1>4 DEF EncodeVarint
<1> DEFINE Bad == {x \in Nat : EncodeVarint[x] # f[x]}
<1>6. Bad = {}
  <2> SUFFICES ASSUME Bad # {} PROVE FALSE
    OBVIOUS
  <2>1. PICK k \in Bad : \A j \in Bad : k <= j
    BY LeastElement
  <2>2. k \in Nat /\ EncodeVarint[k] # f[k] /\ \A j \in Nat : j < k => EncodeVarint[j] = f[j]
    BY <2>1
  <2>3. EncodeVarint[k] = enc(EncodeVarint, k) /\ f[k] = enc(f, k)
    <3> HIDE DEF enc
    <3> QED
      BY <1>3, <1>5, <2>2
  <2>4. k >= Group => EncodeVarint[k \div Group] = f[k \div Group]
    BY <1>2, <2>2
  <2> QED
    BY <2>2, <2>3, <2>4
<1>7. EncodeVarint[v] = f[v]
  BY <1>6
<1> QED
  BY <1>1, <1>7

(* The bound of readUint32 and readUint64 is enough for every value of n bytes. *)
LEMMA MaxGroupsIs ==
  ASSUME NEW n \in Nat
  PROVE  /\ MaxGroups(n) \in Nat /\ Values(n) <= Groups(MaxGroups(n))
         /\ n > 0 => MaxGroups(n) > 0
<1> USE ByteBitsAssumption
<1>1. PICK d \in Nat \ {0}, c \in Nat : d = ByteBits - 1 /\ c = n * ByteBits
  OBVIOUS
<1>2. PICK m \in Nat : m = c + d - 1
  OBVIOUS
<1>3. PICK q \in Nat, o \in 0..d-1 : q = m \div d /\ m = q * d + o
  BY DivMod
<1>4. c + ByteBits - 2 = m
  BY <1>1, <1>2
<1>5. MaxGroups(n) = q
  BY <1>1, <1>3, <1>4 DEF MaxGroups
<1>6. c <= q * d /\ q * d \in Nat
  BY <1>2, <1>3
<1>7. PICK e \in Nat : e = q * d /\ c <= e
  BY <1>6
<1>8. TwoTo[c] <= TwoTo[e]
  BY <1>7, TwoToMono
<1>9. Values(n) = TwoTo[c] /\ Groups(q) = TwoTo[e]
  BY <1>1, <1>7 DEF Values, Groups
<1>10. ASSUME n > 0 PROVE q > 0
  <2>1. ByteBits * 1 <= ByteBits * n
    BY <1>10, TimesMono
  <2>2. c > 0
    BY <1>1, <2>1
  <2>3. CASE q = 0
    BY <1>7, <2>2, <2>3
  <2> QED
    BY <2>3
<1> QED
  BY <1>5, <1>8, <1>9, <1>10

(* A value of n bytes needs no more groups. *)
LEMMA NeedsWithin ==
  ASSUME NEW v \in Nat, NEW n \in Nat \ {0}, v < Values(n)
  PROVE  VLen(v) \in Nat \ {0} /\ VLen(v) <= MaxGroups(n)
<1>1. PICK l \in Nat \ {0} : l = VLen(v) /\ v < Groups(l) /\ (l > 1 => v >= Groups(l - 1))
  BY VLenIs DEF Needs
<1>2. PICK m \in Nat \ {0} : m = MaxGroups(n) /\ Values(n) <= Groups(m)
  BY MaxGroupsIs
<1>3. ASSUME l > m PROVE FALSE
  <2>1. PICK k \in Nat : k = l - 1 /\ m <= k /\ l > 1
    BY <1>3
  <2>2. Groups(m) <= Groups(k)
    BY <2>1, GroupsMono
  <2>3. Groups(m) \in Nat /\ Groups(k) \in Nat /\ Values(n) \in Nat
    BY <2>1, GroupsIs, BaseIs
  <2> QED
    BY <1>1, <1>2, <2>1, <2>2, <2>3
<1> QED
  BY <1>1, <1>2, <1>3

(* How many bytes the loop takes is a number. *)
LEMMA VarintLenNat ==
  ASSUME NEW bytes \in Seq(Byte), NEW n \in Nat
  PROVE  VarintLen(bytes, n) \in Nat
<1>1. PICK l \in Nat, m \in Nat : l = Len(bytes) /\ m = MaxGroups(n)
  BY LenProperties, MaxGroupsIs
<1>2. PICK E : E = {i \in 1..Len(bytes) : i <= MaxGroups(n) /\ bytes[i] < Group}
  OBVIOUS
<1>3. VarintLen(bytes, n) = IF E = {} THEN MaxGroups(n) ELSE CHOOSE i \in E : \A j \in E : i <= j
  BY <1>2 DEF VarintLen
<1>4. CASE E = {}
  BY <1>1, <1>3, <1>4
<1>5. CASE E # {}
  <2>1. E \subseteq Nat
    BY <1>1, <1>2
  <2>2. \E i \in E : \A j \in E : i <= j
    BY <1>5, <2>1, LeastElement
  <2>3. (CHOOSE i \in E : \A j \in E : i <= j) \in E
    BY <2>2
  <2> QED
    BY <1>3, <1>5, <2>1, <2>3
<1> QED
  BY <1>4, <1>5

(* A varint is read as far as it was written, whatever follows, *)
LEMMA VarintLenIs ==
  ASSUME NEW v \in Nat, NEW n \in Nat \ {0}, v < Values(n), NEW rest \in Seq(Byte), Len(rest) >= VLen(v),
         \A i \in 1..VLen(v) : rest[i] = Varint(v, VLen(v))[i]
  PROVE  VarintLen(rest, n) = VLen(v)
<1>1. PICK l \in Nat \ {0} : l = VLen(v) /\ l <= MaxGroups(n)
  BY NeedsWithin
<1>2. PICK E : E = {i \in 1..Len(rest) : i <= MaxGroups(n) /\ rest[i] < Group}
  OBVIOUS
<1>3. VarintLen(rest, n) = IF E = {} THEN MaxGroups(n) ELSE CHOOSE i \in E : \A j \in E : i <= j
  BY <1>2 DEF VarintLen
<1>4. Len(rest) \in Nat /\ Len(rest) >= l
  BY <1>1, LenProperties
<1>5. \A i \in 1..l : /\ rest[i] = ((v \div Groups(i - 1)) % Group) + (IF i < l THEN Group ELSE 0)
                      /\ (v \div Groups(i - 1)) % Group \in 0..Group-1
  BY <1>1, VarintSeq
<1>6. l \in E
  <2>1. l \in 1..l /\ ~(l < l)
    OBVIOUS
  <2>2. rest[l] < Group
    <3>1. PICK x \in 0..Group-1 : x = (v \div Groups(l - 1)) % Group
      BY <1>5, <2>1
    <3>2. rest[l] = x
      BY <1>5, <2>1, <3>1
    <3> QED
      BY <3>2, GroupIs
  <2> QED
    BY <1>1, <1>2, <1>4, <2>2
<1>7. ASSUME NEW i \in E PROVE l <= i
  <2>1. i \in 1..Len(rest) /\ rest[i] < Group
    BY <1>2
  <2>2. ASSUME i < l PROVE FALSE
    <3>1. i \in 1..l
      BY <1>4, <2>1, <2>2
    <3>2. PICK x \in 0..Group-1 : x = (v \div Groups(i - 1)) % Group
      BY <1>5, <3>1
    <3>3. rest[i] = x + Group
      BY <1>5, <2>2, <3>1, <3>2
    <3> QED
      BY <2>1, <3>3, GroupIs
  <2> QED
    BY <1>4, <2>1, <2>2
<1>8. E \subseteq Nat
  BY <1>2, <1>4
<1>9. (CHOOSE i \in E : \A j \in E : i <= j) = l
  <2>1. ASSUME NEW i \in E, \A j \in E : i <= j PROVE i = l
    BY <1>6, <1>7, <1>8, <2>1
  <2> QED
    BY <1>6, <1>7, <2>1
<1> QED
  BY <1>1, <1>3, <1>6, <1>9

(* and decoded to what it was. *)
LEMMA DecodeVarintIs ==
  ASSUME NEW v \in Nat, NEW n \in Nat, v < Values(n)
  PROVE  DecodeVarint(Varint(v, VLen(v)), n) = v
<1>1. PICK l \in Nat : l = VLen(v) /\ v < Groups(l)
  BY VLenIs DEF Needs
<1>2. PICK s \in Seq(Byte) : s = Varint(v, l)
  BY VarintSeq
<1>3. Len(s) = l /\ \A i \in 1..l : /\ s[i] = ((v \div Groups(i - 1)) % Group) + (IF i < l THEN Group ELSE 0)
                                    /\ (v \div Groups(i - 1)) % Group \in 0..Group-1
  BY <1>2, VarintSeq
<1>4. ASSUME NEW i \in 1..l PROVE s[i] % Group = (v \div Groups(i - 1)) % Group /\ s[i] % Group \in Nat
  <2>1. Group \in Nat \ {0}
    BY BaseIs
  <2>2. PICK x \in 0..Group-1 : x = (v \div Groups(i - 1)) % Group
    BY <1>3
  <2>3. s[i] = x + (IF i < l THEN Group ELSE 0)
    BY <1>3, <2>2
  <2>4. CASE i < l
    <3>1. (1 * Group + x) % Group = x
      BY <2>1, DivModUnique
    <3>2. s[i] = 1 * Group + x
      BY <2>1, <2>3, <2>4
    <3> QED
      BY <2>1, <2>2, <3>1, <3>2
  <2>5. CASE ~(i < l)
    <3>1. (0 * Group + x) % Group = x
      BY <2>1, DivModUnique
    <3>2. s[i] = 0 * Group + x
      BY <2>1, <2>3, <2>5
    <3> QED
      BY <2>1, <2>2, <3>1, <3>2
  <2> QED
    BY <2>4, <2>5
<1>5. PICK t : t = [i \in 1..Len(s) |-> s[i] % Group]
  OBVIOUS
<1>6. t \in [1..l -> Nat] /\ \A i \in 1..l : t[i] = (v \div Groups(i - 1)) % Group
  BY <1>3, <1>4, <1>5
<1>7. t \in Seq(Nat) /\ Len(t) = l
  BY <1>6, SeqOfFn
<1>8. PICK p : p = [i \in Nat |-> Groups(i)]
  OBVIOUS
<1>9. Powers(p, Group)
  <2>1. \A i \in Nat : p[i] = Groups(i)
    BY <1>8
  <2>2. \A i \in Nat : i + 1 \in Nat
    OBVIOUS
  <2>3. p \in [Nat -> Nat \ {0}]
    BY <1>8, GroupsIs
  <2>4. \A i \in Nat : p[i + 1] = Group * p[i]
    BY <2>1, <2>2, GroupsIs
  <2> QED
    BY <2>1, <2>3, <2>4, GroupsIs DEF Powers
<1>10. DigitsOf(t, v, Group, p)
  <2>1. ASSUME NEW i \in 1..l PROVE t[i] = (v \div p[i - 1]) % Group
    <3>1. p[i - 1] = Groups(i - 1)
      BY <1>8
    <3> QED
      BY <1>6, <3>1
  <2> QED
    BY <1>7, <2>1 DEF DigitsOf
<1>11. Number(Group, t) = v
  <2>1. v < p[Len(t)]
    BY <1>1, <1>7, <1>8
  <2> QED
    BY <1>9, <1>10, <2>1, BaseIs, NumberOfDigits
<1>12. v % Values(n) = v
  <2>1. PICK b \in Nat \ {0} : b = Values(n) /\ v \in 0..b-1 /\ 0 * b + v = v
    <3>1. PICK b \in Nat \ {0} : b = Values(n)
      BY BaseIs
    <3>2. v \in 0..b-1 /\ 0 * b + v = v
      BY <3>1
    <3> QED
      BY <3>1, <3>2
  <2>2. (0 * b + v) % b = v
    BY <2>1, DivModUnique
  <2> QED
    BY <2>1, <2>2
<1> QED
  BY <1>1, <1>2, <1>5, <1>11, <1>12 DEF DecodeVarint

-----------------------------------------------------------------------------
(* Numbers and strings. *)

(* A number of one of the types that the code has. *)
Valid(x) == x.kind \in {"F", "S", "V", "Z"} /\ x.n \in Nat \ {0} /\ InRange(x)

(* The ranges of the types. *)
LEMMA Ranges ==
  ASSUME NEW x, Valid(x)
  PROVE  /\ x.v \in Int
         /\ x.kind \in {"F", "S"} => Unsigned(x.v, x.n) \in Nat /\ Unsigned(x.v, x.n) < Values(x.n)
         /\ x.kind \in {"F", "V"} => x.v \in Nat /\ x.v < Values(x.n) /\ Unsigned(x.v, x.n) = x.v
         /\ x.kind = "S" => Signed(Unsigned(x.v, x.n), x.n) = x.v
         /\ x.kind = "Z" => EncodeZigzag(x.v) \in Nat /\ EncodeZigzag(x.v) < Values(x.n) /\ DecodeZigzag(EncodeZigzag(x.v)) = x.v
<1>1. PICK c \in Nat \ {0} : c = Values(x.n)
  BY BaseIs DEF Valid
<1>2. PICK h \in Nat, r \in 0..1 : h = c \div 2 /\ c = h * 2 + r
  BY DivMod
<1>3. PICK v : v = x.v
  OBVIOUS
<1>4. v \in IF x.kind \in {"F", "V"} THEN 0 .. c - 1 ELSE -h .. h - 1
  BY <1>1, <1>2, <1>3 DEF Valid, InRange
<1>5. CASE x.kind \in {"F", "V"}
  <2>1. v \in 0 .. c - 1
    BY <1>4, <1>5
  <2>2. Unsigned(v, x.n) = v
    BY <2>1 DEF Unsigned
  <2>3. x.kind # "S" /\ x.kind # "Z"
    BY <1>5
  <2> QED
    BY <1>1, <1>3, <2>1, <2>2, <2>3
<1>6. CASE x.kind \notin {"F", "V"}
  <2>1. v \in -h .. h - 1
    BY <1>4, <1>6
  <2>2. PICK u : u = Unsigned(v, x.n)
    OBVIOUS
  <2>3. u = IF v < 0 THEN v + c ELSE v
    BY <1>1, <2>2 DEF Unsigned
  <2>4. u \in Nat /\ u < c
    BY <1>2, <2>1, <2>3
  <2>5. Signed(u, x.n) = v
    BY <1>1, <1>2, <2>1, <2>3, <2>4 DEF Signed
  <2>6. PICK z : z = EncodeZigzag(v)
    OBVIOUS
  <2>7. z = IF v < 0 THEN 2 * (-v) - 1 ELSE 2 * v
    BY <2>6 DEF EncodeZigzag
  <2>8. z \in Nat /\ z < c
    BY <1>2, <2>1, <2>7
  <2>9. DecodeZigzag(z) = v
    <3>1. CASE v < 0
      <4>1. PICK q \in Nat : q = -v - 1
        BY <2>1, <3>1
      <4>2. z = q * 2 + 1
        BY <2>1, <2>7, <3>1, <4>1
      <4>3. (q * 2 + 1) \div 2 = q /\ (q * 2 + 1) % 2 = 1
        BY DivModUnique
      <4>4. -q - 1 = v
        BY <2>1, <4>1
      <4> QED
        BY <4>2, <4>3, <4>4 DEF DecodeZigzag
    <3>2. CASE v >= 0
      <4>1. PICK q \in Nat : q = v
        BY <2>1, <3>2
      <4>2. z = q * 2 + 0
        BY <2>1, <2>7, <3>2, <4>1
      <4>3. (q * 2 + 0) \div 2 = q /\ (q * 2 + 0) % 2 = 0
        BY DivModUnique
      <4> QED
        BY <4>1, <4>2, <4>3 DEF DecodeZigzag
    <3> QED
      BY <2>1, <3>1, <3>2
  <2>10. v \in Int
    BY <2>1
  <2>11. x.kind # "F" /\ x.kind # "V"
    BY <1>6
  <2> QED
    BY <1>1, <1>3, <2>2, <2>4, <2>5, <2>6, <2>8, <2>9, <2>10, <2>11
<1> QED
  BY <1>5, <1>6

(* What is written of a number: n bytes, or the groups of a varint. *)
LEMMA NumberBytesIs ==
  ASSUME NEW b, Good(b), NEW x, Valid(x)
  PROVE  /\ NumberBytes(b, x) \in Seq(Byte)
         /\ x.kind \in {"F", "S"} =>
               /\ Len(NumberBytes(b, x)) = x.n
               /\ NumberBytes(b, x) = IF b.m_endian = LITTLE THEN LittleBytes(Unsigned(x.v, x.n), x.n)
                                      ELSE Reverse(LittleBytes(Unsigned(x.v, x.n), x.n))
         /\ x.kind = "V" => NumberBytes(b, x) = Varint(x.v, VLen(x.v))
         /\ x.kind = "Z" => NumberBytes(b, x) = Varint(EncodeZigzag(x.v), VLen(EncodeZigzag(x.v)))
<1>1. b.m_endian \in {LITTLE, BIG} /\ SYLAR_BYTE_ORDER \in {LITTLE, BIG}
  BY GoodFields, OrderAssumption
<1>2. x.n \in Nat /\ x.v \in Int /\ x.kind \in {"F", "S", "V", "Z"}
  BY Ranges DEF Valid
<1>3. CASE x.kind \in {"F", "S"}
  <2>1. PICK u \in Nat : u = Unsigned(x.v, x.n)
    BY <1>3, Ranges
  <2>2. PICK s : s = LittleBytes(u, x.n)
    OBVIOUS
  <2>3. s \in Seq(Byte) /\ Len(s) = x.n
    BY <1>2, <2>2, LittleIs
  <2>4. Reverse(s) \in Seq(Byte) /\ Len(Reverse(s)) = x.n
    BY <2>3, ReverseTwice
  <2>5. NumberBytes(b, x) = EncodeFixed(SYLAR_BYTE_ORDER, b.m_endian, x.v, x.n)
    BY <1>3 DEF NumberBytes
  <2>6. NumberBytes(b, x) = IF b.m_endian = LITTLE THEN s ELSE Reverse(s)
    BY <1>1, <1>2, <2>1, <2>2, <2>5, FixedIs
  <2> QED
    BY <1>3, <2>1, <2>2, <2>3, <2>4, <2>6
<1>4. CASE x.kind = "V"
  <2>1. PICK z \in Nat : z = x.v
    BY <1>4, Ranges
  <2>2. NumberBytes(b, x) = EncodeVarint[z]
    BY <1>4, <2>1 DEF NumberBytes
  <2>3. VLen(z) \in Nat
    BY <2>1, VLenIs DEF Needs
  <2>4. NumberBytes(b, x) = Varint(z, VLen(z)) /\ Varint(z, VLen(z)) \in Seq(Byte)
    BY <2>2, <2>3, VarintIs, VarintSeq
  <2> QED
    BY <1>4, <2>1, <2>4
<1>5. CASE x.kind = "Z"
  <2>1. PICK z \in Nat : z = EncodeZigzag(x.v)
    BY <1>5, Ranges
  <2>2. NumberBytes(b, x) = EncodeVarint[z]
    BY <1>5, <2>1 DEF NumberBytes
  <2>3. VLen(z) \in Nat
    BY <2>1, VLenIs DEF Needs
  <2>4. NumberBytes(b, x) = Varint(z, VLen(z)) /\ Varint(z, VLen(z)) \in Seq(Byte)
    BY <2>2, <2>3, VarintIs, VarintSeq
  <2> QED
    BY <1>5, <2>1, <2>4
<1> QED
  BY <1>2, <1>3, <1>4, <1>5

(* The length of a string is a natural number, whatever bytes it is read from. *)
LEMMA LengthIsNat ==
  ASSUME NEW b, Good(b), NEW k \in LengthKinds, NEW bytes \in Seq(Byte)
  PROVE  NumberOf(b, k[1], k[2], bytes) \in Nat
<1>1. b.m_endian \in {LITTLE, BIG} /\ SYLAR_BYTE_ORDER \in {LITTLE, BIG}
  BY GoodFields, OrderAssumption
<1>2. Byte \subseteq Nat
  BY GroupIs DEF Byte
<1>3. ASSUME NEW base \in Nat, NEW s \in Seq(Nat) PROVE Number(base, s) \in Nat
  <2>1. Len(s) \in 0..Len(s)
    BY LenProperties
  <2>2. PICK f \in [0..Len(s) -> Nat] : Number(base, s) = f[Len(s)]
    BY NumberIs
  <2> QED
    BY <2>1, <2>2
<1>4. CASE k[1] = "F"
  <2>1. NumberOf(b, k[1], k[2], bytes) = DecodeFixed(SYLAR_BYTE_ORDER, b.m_endian, bytes)
    BY <1>4 DEF NumberOf
  <2>2. PICK s \in Seq(Byte) : s = IF b.m_endian = LITTLE THEN bytes ELSE Reverse(bytes)
    BY ReverseTwice
  <2>3. s \in Seq(Nat)
    BY <1>2, SeqMonotonic
  <2>4. DecodeFixed(SYLAR_BYTE_ORDER, b.m_endian, bytes) = Number(Base, s)
    BY <1>1, <2>2, FixedIs
  <2> QED
    BY <1>3, <2>1, <2>3, <2>4, GroupIs
<1>5. CASE k[1] = "V"
  <2>1. NumberOf(b, k[1], k[2], bytes) = DecodeVarint(bytes, k[2])
    BY <1>5 DEF NumberOf
  <2>2. PICK l \in Nat : l = Len(bytes)
    BY LenProperties
  <2>3. PICK s : s = [i \in 1..Len(bytes) |-> bytes[i] % Group]
    OBVIOUS
  <2>4. ASSUME NEW i \in 1..l PROVE bytes[i] % Group \in Nat
    <3>1. PICK y \in Nat : y = bytes[i]
      BY <1>2, <2>2, ElementOfSeq
    <3>2. PICK g \in Nat \ {0} : g = Group
      BY GroupIs
    <3>3. y % g \in Nat
      BY DivMod
    <3> QED
      BY <3>1, <3>2, <3>3
  <2>5. s \in [1..l -> Nat]
    BY <2>2, <2>3, <2>4
  <2>6. s \in Seq(Nat)
    BY <2>5, SeqOfFn
  <2>7. PICK y \in Nat : y = Number(Group, s)
    BY <1>3, <2>6, GroupIs
  <2>8. k[2] \in Nat
    BY DEF LengthKinds
  <2>9. PICK g \in Nat \ {0} : g = Values(k[2])
    BY <2>8, BaseIs
  <2>10. y % g \in Nat
    BY DivMod
  <2> QED
    BY <2>1, <2>3, <2>7, <2>9, <2>10 DEF DecodeVarint
<1> QED
  BY <1>4, <1>5 DEF LengthKinds

(* Two writes, one after the other. *)
LEMMA WroteTwice ==
  ASSUME NEW b, Good(b), NEW s \in Seq(Byte), NEW t \in Seq(Byte), NEW c, Wrote(b, c, s), NEW d, Wrote(c, d, t)
  PROVE  Wrote(b, d, s \o t)
<1>1. PICK p \in Nat, sz \in Nat, cap \in Nat : p = b.m_position /\ sz = b.m_size /\ cap = b.m_capacity
  BY GoodFields
<1>2. PICK m \in Nat, n \in Nat : m = Len(s) /\ n = Len(t)
  BY LenProperties
<1>3. /\ Good(c) /\ c.m_position = p + m /\ c.m_size = Greater(p + m, sz)
      /\ c.m_endian = b.m_endian /\ c.wild = b.wild /\ c.m_capacity >= cap
      /\ \A i \in Nat : i < cap /\ (i < p \/ i >= p + m) => ByteAt(c, i) = ByteAt(b, i)
      /\ \A k \in 1..m : ByteAt(c, p + k - 1) = s[k]
  BY <1>1, <1>2 DEF Wrote
<1>4. PICK cc \in Nat : cc = c.m_capacity /\ cc >= cap /\ p + m <= cc
  BY <1>3, GoodFields
<1>5. /\ Good(d) /\ d.m_position = (p + m) + n /\ d.m_size = Greater((p + m) + n, Greater(p + m, sz))
      /\ d.m_endian = b.m_endian /\ d.wild = b.wild /\ d.m_capacity >= cc
      /\ \A i \in Nat : i < cc /\ (i < p + m \/ i >= (p + m) + n) => ByteAt(d, i) = ByteAt(c, i)
      /\ \A k \in 1..n : ByteAt(d, (p + m) + k - 1) = t[k]
  BY <1>2, <1>3, <1>4 DEF Wrote
<1>6. PICK r : r = s \o t
  OBVIOUS
<1>7. r \in Seq(Byte) /\ Len(r) = m + n /\ \A i \in 1..m + n : r[i] = IF i <= m THEN s[i] ELSE t[i - m]
  BY <1>2, <1>6, ConcatProperties
<1>8. PICK e \in Nat : e = d.m_position /\ e = p + (m + n)
  BY <1>5
<1>9. d.m_size = Greater(e, sz)
  BY <1>5, <1>8 DEF Greater
<1>10. d.m_capacity >= cap
  BY <1>4, <1>5, GoodFields
<1>11. ASSUME NEW i \in Nat, i < cap, i < p \/ i >= e PROVE ByteAt(d, i) = ByteAt(b, i)
  <2>1. i < cc /\ (i < p + m \/ i >= (p + m) + n) /\ (i < p \/ i >= p + m)
    BY <1>4, <1>8, <1>11
  <2> QED
    BY <1>3, <1>5, <1>11, <2>1
<1>12. ASSUME NEW k \in 1..m + n PROVE ByteAt(d, p + k - 1) = r[k]
  <2>1. PICK i \in Nat : i = p + k - 1
    OBVIOUS
  <2>2. CASE k <= m
    <3>1. i < cc /\ i < p + m /\ k \in 1..m
      BY <1>4, <2>1, <2>2
    <3>2. ByteAt(d, i) = ByteAt(c, i) /\ ByteAt(c, i) = s[k]
      BY <1>3, <1>5, <2>1, <3>1
    <3> QED
      BY <1>7, <2>1, <2>2, <3>2
  <2>3. CASE k > m
    <3>1. PICK l \in 1..n : l = k - m /\ (p + m) + l - 1 = i
      BY <2>1, <2>3
    <3>2. ByteAt(d, i) = t[l]
      BY <1>5, <3>1
    <3>3. k - m = l /\ ~(k <= m)
      BY <2>3, <3>1
    <3>4. r[k] = t[k - m]
      BY <1>7, <3>3
    <3> QED
      BY <2>1, <3>2, <3>3, <3>4
  <2> QED
    BY <2>2, <2>3
<1> QED
  BY <1>1, <1>5, <1>6, <1>7, <1>8, <1>9, <1>10, <1>11, <1>12 DEF Wrote

(* A length field is a number of its type. *)
LEMMA LengthFieldIs ==
  ASSUME NEW k \in LengthKinds, NEW str \in Seq(Byte)
  PROVE  Valid(LengthField(k, str))
<1>1. k[1] \in {"F", "V"} /\ k[2] \in Nat \ {0}
  BY DEF LengthKinds
<1>2. PICK l \in Nat : l = Len(str)
  BY LenProperties
<1>3. PICK c \in Nat \ {0} : c = Values(k[2])
  BY <1>1, BaseIs
<1>4. PICK y \in 0..c-1 : y = l % c
  BY DivMod
<1>5. PICK x : x = LengthField(k, str)
  OBVIOUS
<1>6. x.kind = k[1] /\ x.n = k[2] /\ x.v = y
  BY <1>2, <1>3, <1>4, <1>5 DEF LengthField
<1>7. InRange(x)
  BY <1>1, <1>3, <1>6 DEF InRange
<1> QED
  BY <1>1, <1>5, <1>6, <1>7 DEF Valid

(* A string is its length field and its bytes. *)
LEMMA WriteStringIs ==
  ASSUME NEW b, Good(b), NEW k \in LengthKinds, NEW str \in Seq(Byte)
  PROVE  /\ NumberBytes(b, LengthField(k, str)) \o str \in Seq(Byte)
         /\ Wrote(b, writeString(b, k, str), NumberBytes(b, LengthField(k, str)) \o str)
<1>1. PICK s : s = NumberBytes(b, LengthField(k, str))
  OBVIOUS
<1>2. s \in Seq(Byte)
  BY <1>1, LengthFieldIs, NumberBytesIs
<1>3. PICK c : c = write(b, s)
  OBVIOUS
<1>4. Wrote(b, c, s)
  BY <1>2, <1>3, WriteIs
<1>5. Good(c)
  BY <1>4 DEF Wrote
<1>6. Wrote(c, write(c, str), str)
  BY <1>5, WriteIs
<1>7. writeString(b, k, str) = write(c, str)
  BY <1>1, <1>3 DEF writeString, writeNumber
<1>8. Wrote(b, write(c, str), s \o str)
  BY <1>2, <1>4, <1>6, WroteTwice
<1>9. s \o str \in Seq(Byte)
  BY <1>2, ConcatProperties
<1> QED
  BY <1>1, <1>7, <1>8, <1>9

(* A varint is read a byte at a time. *)
LEMMA VarintTakes ==
  ASSUME NEW b, Good(b), NEW n \in Nat
  PROVE  Taken(b, readVarint(b, n))
<1>1. PICK rest : rest = toString(b)
  OBVIOUS
<1>2. rest \in Seq(Byte) /\ Len(rest) = b.m_size - b.m_position
  BY <1>1, ToStringIs
<1>3. PICK need \in Nat : need = VarintLen(rest, n)
  BY <1>2, VarintLenNat
<1>4. CASE need > Len(rest)
  <2>1. readVarint(b, n) = Read(IF rest = <<>> THEN b ELSE read(b, Len(rest)).ba, OutOfRange)
    BY <1>1, <1>3, <1>4 DEF readVarint
  <2>2. PICK c : c = IF rest = <<>> THEN b ELSE read(b, Len(rest)).ba
    OBVIOUS
  <2>3. \E q \in Nat : b.m_position <= q /\ q <= b.m_size /\ Goes(b, c, q)
    <3>1. CASE rest = <<>>
      <4>1. Goes(b, b, b.m_position) /\ b.m_position \in Nat /\ b.m_position <= b.m_size
        BY GoodFields DEF Goes
      <4> QED
        BY <2>2, <3>1, <4>1
    <3>2. CASE rest # <<>>
      <4>1. Len(rest) \in Nat
        BY <1>2, LenProperties
      <4>2. Taken(b, read(b, Len(rest)))
        BY <4>1, ReadTakes
      <4> QED
        BY <2>2, <3>2, <4>2 DEF Taken
    <3> QED
      BY <3>1, <3>2
  <2>4. PICK r : r = readVarint(b, n)
    OBVIOUS
  <2>5. r.ba = c /\ r.out = OutOfRange
    BY <2>1, <2>2, <2>4, ReadParts
  <2> QED
    BY <2>3, <2>4, <2>5 DEF Taken
<1>5. CASE need <= Len(rest)
  <2>1. ~(need > Len(rest))
    BY <1>2, <1>5, LenProperties
  <2>2. readVarint(b, n) = read(b, need)
    BY <1>1, <1>3, <2>1 DEF readVarint
  <2> QED
    BY <2>2, ReadTakes
<1> QED
  BY <1>2, <1>4, <1>5, LenProperties

(* A number of any kind is taken from the cursor on, *)
LEMMA NumberTakes ==
  ASSUME NEW b, Good(b), NEW kind, NEW n \in Nat
  PROVE  Taken(b, readNumber(b, kind, n))
BY ReadTakes, VarintTakes DEF readNumber

(* The pieces from p to q and from q to r make the one from p to r: *)
Adjoin(b, p, q, r) == Piece(b, p, q - p) \o Piece(b, q, r - q) = Piece(b, p, r - p)

(* Two pieces that follow each other. *)
LEMMA PiecesJoin ==
  ASSUME NEW b, Good(b), NEW p \in Nat, NEW q \in Nat, NEW r \in Nat, p <= q, q <= r, r <= b.m_capacity
  PROVE  Adjoin(b, p, q, r)
<1> USE DEF Adjoin
<1>1. PICK m \in Nat, n \in Nat : m = q - p /\ n = r - q /\ p + m = q /\ q + n = r /\ r - p = m + n
  OBVIOUS
<1>2. PICK s, t, u : s = Piece(b, p, m) /\ t = Piece(b, q, n) /\ u = Piece(b, p, m + n)
  OBVIOUS
<1>3. b.m_capacity \in Nat
  BY GoodFields
<1>4. s \in Seq(Byte) /\ Len(s) = m /\ \A k \in 1..m : s[k] = ByteAt(b, p + k - 1)
  <2>1. p + m <= b.m_capacity
    BY <1>1, <1>3
  <2> QED
    BY <1>2, <2>1, GatherIs
<1>5. t \in Seq(Byte) /\ Len(t) = n /\ \A k \in 1..n : t[k] = ByteAt(b, q + k - 1)
  <2>1. q + n <= b.m_capacity
    BY <1>1, <1>3
  <2> QED
    BY <1>2, <2>1, GatherIs
<1>6. u \in Seq(Byte) /\ Len(u) = m + n /\ \A k \in 1..m + n : u[k] = ByteAt(b, p + k - 1)
  <2>1. p + (m + n) <= b.m_capacity
    BY <1>1, <1>3
  <2> QED
    BY <1>2, <2>1, GatherIs
<1>7. ASSUME NEW k \in 1..m PROVE u[k] = s[k]
  BY <1>4, <1>6
<1>8. ASSUME NEW k \in 1..n PROVE u[m + k] = t[k]
  <2>1. m + k \in 1..m + n /\ p + (m + k) - 1 = q + k - 1
    BY <1>1
  <2> QED
    BY <1>5, <1>6, <2>1
<1>9. s \o t = u
  BY <1>4, <1>5, <1>6, <1>7, <1>8, ConcatIs
<1> QED
  BY <1>1, <1>2, <1>9

(* No piece is the exception: a byte is not negative. *)
LEMMA PieceNoError ==
  ASSUME NEW s \in Seq(Byte)
  PROVE  s # OutOfRange
<1>1. ASSUME s = <<-1>> PROVE FALSE
  <2>1. s[1] = -1 /\ 1 \in 1..Len(s)
    BY <1>1
  <2>2. s[1] \in Byte
    BY <2>1, ElementOfSeq
  <2> QED
    BY <2>1, <2>2, GroupIs DEF Byte
<1> QED
  BY <1>1 DEF OutOfRange

(* A piece is a matter of the blocks only. *)
LEMMA PieceSame ==
  ASSUME NEW b, NEW c, c.nodes = b.nodes, NEW p, NEW len
  PROVE  Piece(c, p, len) = Piece(b, p, len)
BY DEF Piece, ByteAt

(* A string is taken as its length, then so many bytes. *)
LEMMA ReadStringTakes ==
  ASSUME NEW b, Good(b), NEW k \in LengthKinds
  PROVE  Taken(b, readString(b, k))
<1>1. PICK l : l = readNumber(b, k[1], k[2])
  OBVIOUS
<1>2. k[2] \in Nat
  BY DEF LengthKinds
<1>3. Taken(b, l)
  BY <1>1, <1>2, NumberTakes
<1>4. PICK c, x : c = l.ba /\ x = l.out
  OBVIOUS
<1>5. PICK p \in Nat, sz \in Nat : p = b.m_position /\ sz = b.m_size /\ sz <= b.m_capacity
  BY GoodFields
<1>6. PICK q \in Nat : p <= q /\ q <= sz /\ Goes(b, c, q) /\ x \in {OutOfRange, Piece(b, p, q - p)}
  BY <1>3, <1>4, <1>5 DEF Taken
<1>7. CASE x = OutOfRange
  <2>1. readString(b, k) = l
    BY <1>1, <1>4, <1>7 DEF readString, Fails
  <2> QED
    BY <1>3, <2>1
<1>8. CASE x # OutOfRange
  <2>1. x = Piece(b, p, q - p)
    BY <1>6, <1>8
  <2>2. x \in Seq(Byte)
    <3>1. PICK m \in Nat : m = q - p /\ p + m <= b.m_capacity
      BY <1>5, <1>6, GoodFields
    <3> QED
      BY <2>1, <3>1, GatherIs
  <2>3. PICK n \in Nat : n = NumberOf(b, k[1], k[2], x)
    BY <2>2, LengthIsNat
  <2>4. PICK s : s = read(c, n)
    OBVIOUS
  <2>5. Good(c) /\ c.m_position = q /\ c.m_size = sz /\ c.m_endian = b.m_endian /\ c.nodes = b.nodes
    BY <1>5, <1>6 DEF Goes
  <2>6. PICK r \in Nat : q <= r /\ r <= sz /\ Goes(c, s.ba, r) /\ s.out \in {OutOfRange, Piece(c, q, r - q)}
    <3>1. Taken(c, s)
      BY <2>4, <2>5, ReadTakes
    <3> QED
      BY <2>5, <3>1 DEF Taken
  <2>7. Goes(b, s.ba, r)
    BY <1>5, <2>5, <2>6 DEF Goes
  <2>8. readString(b, k) = Read(s.ba, IF s.out = OutOfRange THEN s.out ELSE x \o s.out)
    BY <1>1, <1>4, <1>8, <2>3, <2>4 DEF readString, Fails
  <2>9. PICK y : y = IF s.out = OutOfRange THEN s.out ELSE x \o s.out
    OBVIOUS
  <2>10. y \in {OutOfRange, Piece(b, p, r - p)}
    <3>1. CASE s.out = OutOfRange
      BY <2>9, <3>1
    <3>2. CASE s.out # OutOfRange
      <4>1. s.out = Piece(b, q, r - q)
        BY <2>5, <2>6, <3>2, PieceSame
      <4>2. r <= b.m_capacity
        BY <1>5, <2>6, GoodFields
      <4>3. Adjoin(b, p, q, r)
        BY <1>6, <2>6, <4>2, PiecesJoin
      <4> QED
        BY <2>1, <2>9, <3>2, <4>1, <4>3 DEF Adjoin
    <3> QED
      BY <3>1, <3>2
  <2>11. PICK z : z = readString(b, k)
    OBVIOUS
  <2>12. z.ba = s.ba /\ z.out = y
    BY <2>8, <2>9, <2>11, ReadParts
  <2>13. p <= r
    BY <1>6, <2>6
  <2> QED
    BY <1>5, <2>6, <2>7, <2>10, <2>11, <2>12, <2>13 DEF Taken
<1> QED
  BY <1>7, <1>8

-----------------------------------------------------------------------------
(* Reading a file, block by block. *)

(* How often readFromFile calls write(), *)
Rounds(bytes) == (Len(bytes) + BaseSize - 1) \div BaseSize

(* how many bytes it has written after i calls, *)
Upto(bytes, i) == Smaller(i * BaseSize, Len(bytes))

(* and the arrays on the way. *)
Calls(b, bytes) ==
    CHOOSE after : after = [i \in 0..Rounds(bytes) |-> IF i = 0 THEN b ELSE write(after[i - 1], Block(bytes, i))]

(* The calls cover the file without gap or overlap. *)
LEMMA BlockIs ==
  ASSUME NEW bytes \in Seq(Byte)
  PROVE  /\ Rounds(bytes) \in Nat /\ SubSeq(bytes, 1, Upto(bytes, 0)) = <<>>
         /\ SubSeq(bytes, 1, Upto(bytes, Rounds(bytes))) = bytes
         /\ \A i \in 0..Rounds(bytes) : SubSeq(bytes, 1, Upto(bytes, i)) \in Seq(Byte)
         /\ \A i \in 1..Rounds(bytes) :
               /\ Block(bytes, i) \in Seq(Byte)
               /\ SubSeq(bytes, 1, Upto(bytes, i)) = SubSeq(bytes, 1, Upto(bytes, i - 1)) \o Block(bytes, i)
<1> USE BaseSizeAssumption
<1>1. PICK l \in Nat : l = Len(bytes)
  BY LenProperties
<1>2. PICK a \in Nat : a = l + BaseSize - 1
  OBVIOUS
<1>3. PICK n \in Nat, r \in 0..BaseSize-1 : n = a \div BaseSize /\ a = n * BaseSize + r
  BY DivMod
<1>4. n = Rounds(bytes)
  BY <1>1, <1>2, <1>3 DEF Rounds
<1>5. n * BaseSize \in Nat /\ n * BaseSize >= l /\ n * BaseSize <= l + BaseSize - 1
  BY <1>2, <1>3
<1>6. ASSUME NEW i \in Nat PROVE Upto(bytes, i) \in 0..l
  <2>1. i * BaseSize \in Nat
    OBVIOUS
  <2> QED
    BY <1>1, <2>1 DEF Upto, Smaller
<1>7. ASSUME NEW u \in 1..l+1, NEW v \in 0..l PROVE SubSeq(bytes, u, v) \in Seq(Byte)
  <2>1. \A i \in u..v : bytes[i] \in Byte
    BY <1>1, ElementOfSeq
  <2>2. u \in Int /\ v \in Int
    OBVIOUS
  <2> QED
    BY <2>1, <2>2, SubSeqProperties
<1>8. ASSUME NEW i \in 1..n
      PROVE  /\ Block(bytes, i) \in Seq(Byte)
             /\ SubSeq(bytes, 1, Upto(bytes, i)) = SubSeq(bytes, 1, Upto(bytes, i - 1)) \o Block(bytes, i)
  <2>1. PICK j \in Nat : j = i - 1 /\ j + 1 <= n
    OBVIOUS
  <2>2. PICK k \in Nat : k = j * BaseSize /\ i * BaseSize = k + BaseSize
    BY <2>1
  <2>3. BaseSize * (j + 1) <= BaseSize * n
    BY <2>1, TimesMono
  <2>4. k <= l
    BY <1>5, <2>2, <2>3
  <2>5. Upto(bytes, j) = k
    BY <1>1, <2>2, <2>4 DEF Upto, Smaller
  <2>6. PICK v \in 0..l : v = Upto(bytes, i) /\ v >= k
    BY <1>1, <1>6, <2>2, <2>4 DEF Upto, Smaller
  <2>7. Block(bytes, i) = SubSeq(bytes, k + 1, v)
    <3>0. PICK m \in Int, h \in Int : m = k + BaseSize /\ h = l
      OBVIOUS
    <3>1. Min({m, h}) = Smaller(m, h)
      BY MaxMin
    <3>2. Min({i * BaseSize, Len(bytes)}) = v
      BY <1>1, <2>2, <2>6, <3>0, <3>1 DEF Upto
    <3>3. (i - 1) * BaseSize + 1 = k + 1
      BY <2>1, <2>2
    <3> QED
      BY <3>2, <3>3 DEF Block
  <2>8. SubSeq(bytes, k + 1, v) \in Seq(Byte)
    <3>1. PICK m \in 1..l+1 : m = k + 1
      BY <2>4
    <3>2. SubSeq(bytes, m, v) \in Seq(Byte)
      BY <1>7
    <3> QED
      BY <3>1, <3>2
  <2>9. SubSeq(bytes, 1, k) \o SubSeq(bytes, k + 1, v) = SubSeq(bytes, 1, v)
    <3>1. 1 \in 1..Len(bytes)+1 /\ k \in 1-1..Len(bytes) /\ v \in k..Len(bytes)
      BY <1>1, <2>4, <2>6
    <3> QED
      BY <3>1, ConcatAdjacentSubSeq
  <2> QED
    BY <2>1, <2>5, <2>6, <2>7, <2>8, <2>9
<1>9. SubSeq(bytes, 1, Upto(bytes, 0)) = <<>>
  <2>1. Upto(bytes, 0) = 0
    BY <1>1 DEF Upto, Smaller
  <2> QED
    BY <2>1, SubSeqEmpty
<1>10. SubSeq(bytes, 1, Upto(bytes, n)) = bytes
  <2>1. Upto(bytes, n) = l
    BY <1>1, <1>5 DEF Upto, Smaller
  <2> QED
    BY <1>1, <2>1, SubSeqFull
<1>11. ASSUME NEW i \in 0..n PROVE SubSeq(bytes, 1, Upto(bytes, i)) \in Seq(Byte)
  <2>1. PICK v \in 0..l : v = Upto(bytes, i)
    BY <1>6
  <2>2. PICK m \in 1..l+1 : m = 1
    OBVIOUS
  <2>3. SubSeq(bytes, m, v) \in Seq(Byte)
    BY <1>7
  <2> QED
    BY <2>1, <2>2, <2>3
<1> QED
  BY <1>4, <1>8, <1>9, <1>10, <1>11

(* Arrays as a set. *)
Arrays == {c \in [m_position : Nat, m_capacity : Nat, m_size : Nat, m_endian : {LITTLE, BIG},
                  nodes : Seq(Nodes), m_cur : Nat, wild : BOOLEAN] : Good(c)}

(* Every good array is in it. *)
LEMMA GoodInArrays ==
  ASSUME NEW b, Good(b)
  PROVE  b \in Arrays
<1> USE BaseSizeAssumption
<1>1. PICK p, cap, s, e, ns, cur, w : b = Rec(p, cap, s, e, ns, cur, w)
  BY DEF Good, Array
<1>2. /\ b.m_position = p /\ b.m_capacity = cap /\ b.m_size = s /\ b.m_endian = e
      /\ b.nodes = ns /\ b.m_cur = cur /\ b.wild = w
  BY <1>1, RecFields
<1>3. /\ p \in Nat /\ cap \in Nat /\ s \in Nat /\ e \in {LITTLE, BIG} /\ ns \in Seq(Nodes) /\ w \in BOOLEAN
      /\ cur = CurAt(p, Len(ns))
  BY <1>2, GoodFields
<1>4. cur \in Nat
  <2>1. p \div BaseSize \in Nat
    BY <1>3, DivMod
  <2>2. PICK q \in Nat : q = p \div BaseSize
    BY <2>1
  <2>3. cur = 0 \/ cur = q + 1
    BY <1>3, <2>2 DEF CurAt, Null
  <2> QED
    BY <2>3
<1>5. b \in [m_position : Nat, m_capacity : Nat, m_size : Nat, m_endian : {LITTLE, BIG},
             nodes : Seq(Nodes), m_cur : Nat, wild : BOOLEAN]
  BY <1>1, <1>3, <1>4 DEF Rec
<1> QED
  BY <1>5 DEF Arrays

(* readFromFile writes the whole file at the cursor. *)
LEMMA ReadFromFileIs ==
  ASSUME NEW b, Good(b), NEW bytes \in Seq(Byte)
  PROVE  Wrote(b, readFromFile(b, bytes), bytes)
<1>1. PICK n \in Nat : n = Rounds(bytes)
  BY BlockIs
<1>2. PICK g : g = [x \in (1..n) \X Arrays |-> write(x[2], Block(bytes, x[1]))]
  OBVIOUS
<1>3. ASSUME NEW i \in 1..n, NEW c \in Arrays
      PROVE  g[<<i, c>>] = write(c, Block(bytes, i)) /\ write(c, Block(bytes, i)) \in Arrays
  <2>1. Good(c) /\ Block(bytes, i) \in Seq(Byte)
    BY <1>1, BlockIs DEF Arrays
  <2>2. Good(write(c, Block(bytes, i)))
    BY <2>1, WriteIs DEF Wrote
  <2>3. PICK x : x = <<i, c>>
    OBVIOUS
  <2>4. x[1] = i /\ x[2] = c /\ x \in (1..n) \X Arrays
    BY <2>3
  <2> QED
    BY <1>2, <2>2, <2>3, <2>4, GoodInArrays
<1>4. g \in [(1..n) \X Arrays -> Arrays]
  <2>1. ASSUME NEW x \in (1..n) \X Arrays PROVE write(x[2], Block(bytes, x[1])) \in Arrays
    BY <1>3
  <2> QED
    BY <1>2, <2>1
<1>5. PICK f \in [0..n -> Arrays] : Recurs(f, n, b, g)
  <2>1. b \in Arrays
    BY GoodInArrays
  <2> QED
    BY <1>4, <2>1, Recursion
<1>6. ASSUME NEW i \in 0..n
      PROVE  f[i] = IF i = 0 THEN b ELSE write(f[i - 1], Block(bytes, i))
  <2>1. CASE i = 0
    BY <1>5, <2>1 DEF Recurs
  <2>2. CASE i # 0
    <3>1. i \in 1..n /\ f[i - 1] \in Arrays
      BY <2>2
    <3> QED
      BY <1>3, <1>5, <2>2, <3>1 DEF Recurs
  <2> QED
    BY <2>1, <2>2
<1>7. f = [i \in 0..n |-> IF i = 0 THEN b ELSE write(f[i - 1], Block(bytes, i))]
  BY <1>6
<1>8. PICK u : u = Calls(b, bytes)
  OBVIOUS
<1>9. u = [i \in 0..n |-> IF i = 0 THEN b ELSE write(u[i - 1], Block(bytes, i))]
  BY <1>1, <1>7, <1>8 DEF Calls
<1>10. readFromFile(b, bytes) = u[n]
  BY <1>1, <1>8 DEF readFromFile, Calls, Rounds
<1> DEFINE Done(k) == Wrote(b, u[k], SubSeq(bytes, 1, Upto(bytes, k)))
           Bad == {k \in Nat : k <= n /\ ~Done(k)}
<1>11. Done(0)
  <2>1. u[0] = b
    BY <1>9
  <2>2. b.m_position + 0 = b.m_position /\ Greater(b.m_position, b.m_size) = b.m_size
    BY GoodFields DEF Greater
  <2>3. Wrote(b, b, <<>>)
    BY <2>2, GoodFields, EmptySeq DEF Wrote
  <2> QED
    BY <2>1, <2>3, BlockIs
<1>12. ASSUME NEW k \in 1..n, Done(k - 1) PROVE Done(k)
  <2>1. PICK c : c = u[k - 1]
    OBVIOUS
  <2>2. PICK s, t : s = SubSeq(bytes, 1, Upto(bytes, k - 1)) /\ t = Block(bytes, k)
    OBVIOUS
  <2>3. s \in Seq(Byte) /\ t \in Seq(Byte) /\ SubSeq(bytes, 1, Upto(bytes, k)) = s \o t
    <3>1. k \in 1..Rounds(bytes) /\ k - 1 \in 0..Rounds(bytes)
      BY <1>1
    <3>2. SubSeq(bytes, 1, Upto(bytes, k - 1)) \in Seq(Byte)
      BY <3>1, BlockIs
    <3>3. /\ Block(bytes, k) \in Seq(Byte)
          /\ SubSeq(bytes, 1, Upto(bytes, k)) = SubSeq(bytes, 1, Upto(bytes, k - 1)) \o Block(bytes, k)
      BY <3>1, BlockIs
    <3> QED
      BY <2>2, <3>2, <3>3
  <2>4. u[k] = write(c, t)
    BY <1>9, <2>1, <2>2
  <2>5. Wrote(b, c, s)
    BY <1>12, <2>1, <2>2
  <2>6. Good(c)
    BY <2>5 DEF Wrote
  <2>7. Wrote(c, write(c, t), t)
    BY <2>3, <2>6, WriteIs
  <2>8. Wrote(b, write(c, t), s \o t)
    BY <2>3, <2>5, <2>7, WroteTwice
  <2> QED
    BY <2>3, <2>4, <2>8
<1> HIDE DEF Done
<1>13. Bad = {}
  <2> SUFFICES ASSUME Bad # {} PROVE FALSE
    OBVIOUS
  <2>1. PICK k \in Bad : \A j \in Bad : k <= j
    BY LeastElement
  <2>2. k \in 0..n /\ ~Done(k) /\ \A j \in 0..n : j < k => Done(j)
    BY <2>1
  <2>3. k # 0
    BY <1>11, <2>2
  <2>4. k \in 1..n /\ Done(k - 1)
    BY <2>2, <2>3
  <2> QED
    BY <1>12, <2>2, <2>4
<1>14. Done(n)
  BY <1>13
<1> QED
  BY <1>1, <1>10, <1>14, BlockIs DEF Done

-----------------------------------------------------------------------------
(* Transfers between the array and a socket. *)

(* c is b with room for more: nothing that a caller sees has changed. *)
Grown(b, c) ==
    /\ Good(c) /\ c.m_position = b.m_position /\ c.m_size = b.m_size
    /\ c.m_endian = b.m_endian /\ c.wild = b.wild /\ c.m_capacity >= b.m_capacity
    /\ \A i \in Nat : i < b.m_capacity => ByteAt(c, i) = ByteAt(b, i)

(* addCapacity keeps the bytes and the cursor. *)
LEMMA CapacityGrows ==
  ASSUME NEW b, Good(b), NEW size \in Nat
  PROVE  Grown(b, addCapacity(b, size)) /\ b.m_position + size <= addCapacity(b, size).m_capacity
<1> USE BaseSizeAssumption
<1>1. PICK c : c = addCapacity(b, size)
  OBVIOUS
<1>2. PICK ns \in Seq(Nodes) :
            /\ c = Array(b.m_position, b.m_size, b.m_endian, ns, b.wild)
            /\ Fields(b.m_position, b.m_size, b.m_endian, ns, b.wild)
            /\ Len(ns) >= Len(b.nodes) /\ \A i \in 1..Len(b.nodes) : ns[i] = b.nodes[i]
            /\ b.m_position + size <= BaseSize * Len(ns)
  BY <1>1, AddCapacity
<1>3. /\ Good(c) /\ c.m_position = b.m_position /\ c.m_size = b.m_size /\ c.m_endian = b.m_endian
      /\ c.nodes = ns /\ c.wild = b.wild /\ c.m_capacity = BaseSize * Len(ns)
  BY <1>2, GoodArray
<1>4. PICK u \in Nat, v \in Nat : u = Len(ns) /\ v = Len(b.nodes) /\ u >= v /\ b.m_capacity = BaseSize * v
  BY <1>2, GoodFields, LenProperties
<1>5. c.m_capacity >= b.m_capacity
  BY <1>3, <1>4, TimesMono
<1>6. ASSUME NEW i \in Nat, i < b.m_capacity PROVE ByteAt(c, i) = ByteAt(b, i)
  <2>1. i < BaseSize * v
    BY <1>4, <1>6
  <2>2. (i \div BaseSize) + 1 \in 1..v
    BY <2>1, CellWithin
  <2>3. ns[(i \div BaseSize) + 1] = b.nodes[(i \div BaseSize) + 1]
    BY <1>2, <1>4, <2>2
  <2> QED
    BY <1>3, <2>3 DEF ByteAt
<1>7. Grown(b, c)
  BY <1>3, <1>5, <1>6 DEF Grown
<1> QED
  BY <1>1, <1>2, <1>3, <1>7

(* An array with other bytes in its blocks is as good. *)
LEMMA NodesIs ==
  ASSUME NEW c, Good(c), NEW ms \in Seq(Nodes), Len(ms) = Len(c.nodes)
  PROVE  /\ Good(WithNodes(c, ms)) /\ WithNodes(c, ms).nodes = ms
         /\ WithNodes(c, ms).m_position = c.m_position /\ WithNodes(c, ms).m_size = c.m_size
         /\ WithNodes(c, ms).m_endian = c.m_endian /\ WithNodes(c, ms).wild = c.wild
         /\ WithNodes(c, ms).m_capacity = c.m_capacity
<1>1. PICK p, s, e, ns, w : c = Array(p, s, e, ns, w) /\ Fields(p, s, e, ns, w) /\ ns = c.nodes
  BY DEF Good
<1>2. PICK cap, cur : c = Rec(p, cap, s, e, ns, cur, w) /\ cap = BaseSize * Len(ms) /\ cur = CurAt(p, Len(ms))
  BY <1>1 DEF Array
<1>3. PICK d : d = WithNodes(c, ms)
  OBVIOUS
<1>4. d = Rec(p, cap, s, e, ms, cur, w)
  BY <1>2, <1>3 DEF Rec, WithNodes
<1>5. d = Array(p, s, e, ms, w)
  BY <1>2, <1>4 DEF Array
<1>6. Fields(p, s, e, ms, w)
  BY <1>1 DEF Fields
<1>7. /\ Good(d) /\ d.nodes = ms /\ d.m_position = p /\ d.m_size = s /\ d.m_endian = e /\ d.wild = w
      /\ d.m_capacity = cap
  BY <1>2, <1>5, <1>6, GoodArray
<1>8. /\ c.m_position = p /\ c.m_size = s /\ c.m_endian = e /\ c.wild = w /\ c.m_capacity = cap
  BY <1>2, RecFields
<1> QED
  BY <1>3, <1>7, <1>8

(* recv into the buffers of left bytes, and setPosition behind what came, are a write. *)
LEMMA SocketReadIs ==
  ASSUME NEW b, Good(b), NEW left \in Nat, NEW bytes \in Seq(Byte), Len(bytes) <= left,
         NEW c, c = addCapacity(b, left)
  PROVE  Wrote(b, setPosition(Scatter(c, Walk(c, left), bytes), b.m_position + Len(bytes)).ba, bytes)
<1> USE BaseSizeAssumption
<1>1. PICK p \in Nat, sz \in Nat, n \in Nat :
          p = b.m_position /\ sz = b.m_size /\ n = Len(bytes) /\ p <= sz /\ sz <= b.m_capacity /\ b.m_capacity \in Nat
  BY GoodFields, LenProperties
<1>2. Grown(b, c) /\ p + left <= c.m_capacity
  BY <1>1, CapacityGrows
<1>3. /\ Good(c) /\ c.m_position = p /\ c.m_size = sz /\ c.m_endian = b.m_endian /\ c.wild = b.wild
      /\ c.m_capacity >= b.m_capacity
  BY <1>1, <1>2 DEF Grown
<1>4. Walk(c, left) = Run(p, left)
  BY <1>2, <1>3, WalkIs
<1>5. PICK ms \in Seq(Nodes) : Scatter(c, Run(p, left), bytes) = WithNodes(c, ms) /\ Stored(c, p, bytes, ms)
  BY <1>2, <1>3, ScatterIs
<1>6. PICK d : d = WithNodes(c, ms)
  OBVIOUS
<1>7. /\ Good(d) /\ d.nodes = ms /\ d.m_position = p /\ d.m_size = sz
      /\ d.m_endian = b.m_endian /\ d.wild = b.wild /\ d.m_capacity = c.m_capacity
  BY <1>3, <1>5, <1>6, NodesIs DEF Stored
<1>8. PICK v \in Nat : v = p + n /\ v <= d.m_capacity
  <2>1. c.m_capacity \in Nat
    BY <1>3, GoodFields
  <2> QED
    BY <1>1, <1>2, <1>7, <2>1
<1>9. PICK x : x = setPosition(d, v).ba
  OBVIOUS
<1>10. Shifted(d, x, v, Greater(v, sz))
  BY <1>7, <1>8, <1>9, SetPositionIs
<1>11. /\ Good(x) /\ x.m_position = v /\ x.m_size = Greater(v, sz) /\ x.m_endian = b.m_endian
       /\ x.nodes = ms /\ x.wild = b.wild
  BY <1>7, <1>10 DEF Shifted
<1>12. x.m_capacity = c.m_capacity
  BY <1>3, <1>5, <1>11, GoodFields DEF Stored
<1>13. ASSUME NEW i \in Nat
       PROVE  i < c.m_capacity => ByteAt(x, i) = IF i >= p /\ i < v THEN bytes[i - p + 1] ELSE ByteAt(c, i)
  <2>1. ByteAt(x, i) = At(ms, i) /\ ByteAt(c, i) = At(c.nodes, i)
    BY <1>11, ByteAtIs
  <2> QED
    BY <1>1, <1>5, <1>8, <2>1 DEF Stored
<1>14. ASSUME NEW i \in Nat, i < b.m_capacity, i < p \/ i >= v PROVE ByteAt(x, i) = ByteAt(b, i)
  <2>1. i < c.m_capacity
    BY <1>1, <1>3, <1>14, GoodFields
  <2>2. ByteAt(c, i) = ByteAt(b, i)
    BY <1>2, <1>14 DEF Grown
  <2> QED
    BY <1>1, <1>8, <1>13, <1>14, <2>1, <2>2
<1>15. ASSUME NEW k \in 1..n PROVE ByteAt(x, p + k - 1) = bytes[k]
  <2>1. PICK i \in Nat : i = p + k - 1 /\ i >= p /\ i < v /\ i - p + 1 = k
    BY <1>8
  <2>2. i < c.m_capacity
    BY <1>3, <1>7, <1>8, <2>1, GoodFields
  <2> QED
    BY <1>13, <2>1, <2>2
<1>16. Wrote(b, x, bytes)
  BY <1>1, <1>3, <1>8, <1>11, <1>12, <1>14, <1>15 DEF Wrote
<1> QED
  BY <1>1, <1>4, <1>5, <1>6, <1>8, <1>9, <1>16

(* The buffers of what is left to read. *)
LEMMA ReadBuffersAre ==
  ASSUME NEW b, Good(b), NEW len \in Nat, NEW n \in Nat, n = Smaller(len, b.m_size - b.m_position)
  PROVE  /\ getReadBuffers(b, len) = Run(b.m_position, n) /\ n <= b.m_size - b.m_position
         /\ Gather(b, getReadBuffers(b, len)) = Piece(b, b.m_position, n)
         /\ Len(getReadBuffers(b, len)) = n
<1>1. PICK p \in Nat, sz \in Nat, cap \in Nat : p = b.m_position /\ sz = b.m_size /\ cap = b.m_capacity /\ p <= sz /\ sz <= cap
  BY GoodFields
<1>2. PICK m \in Nat : m = sz - p
  BY <1>1
<1>3. PICK x \in Int, y \in Int : x = len /\ y = m
  OBVIOUS
<1>4. Min({len, getReadSize(b)}) = n
  BY <1>1, <1>2, <1>3, MaxMin DEF getReadSize
<1>5. n <= m /\ p + n <= cap
  BY <1>1, <1>2 DEF Smaller
<1>6. Walk(b, n) = Run(p, n)
  BY <1>1, <1>5, WalkIs
<1>7. getReadBuffers(b, len) = Run(p, n)
  BY <1>4, <1>6 DEF getReadBuffers
<1>8. Gather(b, Run(p, n)) = Piece(b, p, n)
  BY <1>1, <1>5, GatherIs
<1>9. Len(Run(p, n)) = n
  BY RunSeq
<1> QED
  BY <1>1, <1>2, <1>5, <1>7, <1>8, <1>9

(* send of n bytes of the buffers, and setPosition behind them, are a read. *)
LEMMA SocketWriteIs ==
  ASSUME NEW b, Good(b), NEW left \in Nat, NEW w, w = getReadBuffers(b, left), NEW n \in Nat, n \in 1..Len(w)
  PROVE  /\ b.m_position + n <= b.m_size
         /\ SubSeq(Gather(b, w), 1, n) = Piece(b, b.m_position, n)
         /\ Shifted(b, setPosition(b, b.m_position + n).ba, b.m_position + n, b.m_size)
<1>1. PICK p \in Nat, sz \in Nat, cap \in Nat : p = b.m_position /\ sz = b.m_size /\ cap = b.m_capacity /\ p <= sz /\ sz <= cap
  BY GoodFields
<1>2. PICK m \in Nat : m = Smaller(left, sz - p)
  BY <1>1 DEF Smaller
<1>3. Gather(b, w) = Piece(b, p, m) /\ Len(w) = m /\ m <= sz - p
  BY <1>1, <1>2, ReadBuffersAre
<1>4. 1 <= n /\ n <= m /\ p + m <= b.m_capacity /\ p + n <= b.m_capacity /\ p + n <= sz
  <2>1. n \in 1..m
    BY <1>3
  <2>2. m <= sz - p /\ p <= sz /\ sz <= cap
    BY <1>1, <1>3
  <2>3. p + m <= cap /\ p + n <= cap /\ p + n <= sz
    BY <2>1, <2>2
  <2> QED
    BY <1>1, <2>1, <2>3
<1>5. PICK s, t : s = Piece(b, p, m) /\ t = Piece(b, p, n)
  OBVIOUS
<1>6. s \in Seq(Byte) /\ Len(s) = m /\ \A k \in 1..m : s[k] = ByteAt(b, p + k - 1)
  <2>1. IsPiece(s, b, p, m)
    BY <1>1, <1>4, <1>5, PieceIs
  <2> QED
    BY <2>1 DEF IsPiece
<1>7. t \in Seq(Byte) /\ Len(t) = n /\ \A k \in 1..n : t[k] = ByteAt(b, p + k - 1)
  <2>1. IsPiece(t, b, p, n)
    BY <1>1, <1>4, <1>5, PieceIs
  <2> QED
    BY <2>1 DEF IsPiece
<1>8. SubSeq(s, 1, n) = t
  <2>1. \A i \in 1..n : s[i] \in Byte
    BY <1>4, <1>6, ElementOfSeq
  <2>2. PICK u : u = SubSeq(s, 1, n)
    OBVIOUS
  <2>3. 1 \in Int /\ n \in Int
    BY <1>4
  <2>4. /\ u \in Seq(Byte) /\ Len(u) = (IF 1 <= n THEN n - 1 + 1 ELSE 0)
        /\ \A i \in 1..n-1+1 : u[i] = s[1+i-1]
    BY <2>1, <2>2, <2>3, SubSeqProperties
  <2>5. Len(u) = n /\ \A i \in 1..n : u[i] = s[i]
    BY <1>4, <2>4
  <2>6. \A i \in 1..n : u[i] = t[i]
    BY <1>4, <1>6, <1>7, <2>5
  <2>7. Len(u) = Len(t) /\ \A i \in 1..Len(u) : u[i] = t[i]
    BY <1>7, <2>5, <2>6
  <2>8. u = t
    BY <1>7, <2>4, <2>7, SeqEqual
  <2> QED
    BY <2>2, <2>8
<1>9. PICK v \in Nat : v = p + n /\ v <= b.m_capacity /\ Greater(v, sz) = sz
  BY <1>4 DEF Greater
<1>10. Shifted(b, setPosition(b, v).ba, v, sz)
  BY <1>1, <1>9, SetPositionIs
<1> QED
  BY <1>1, <1>3, <1>4, <1>5, <1>8, <1>9, <1>10

-----------------------------------------------------------------------------
(* The inductive invariant, and what a step of the program is. *)

(* A transfer in progress fits the bound of the model. *)
Transfer(i, p) ==
    \E d \in {"read", "write"}, l \in Nat \ {0} : i = [dir |-> d, left |-> l] /\ p + l <= MaxSize

(* The array b is good and bounded, and so is the transfer i. *)
Bounded(b, i) == Good(b) /\ b.m_size <= MaxSize /\ (i = Quiet \/ Transfer(i, b.m_position))
Inv == Bounded(ba, io)

(* What a step does to the array and hands to the caller: bytes are put, *)
Puts == \E bytes \in Seq(Byte) : Wrote(ba, ba', bytes) /\ ret' = bytes
(* or taken, or asked for in vain, *)
Gets == \E q \in Nat : /\ ba.m_position <= q /\ q <= ba.m_size /\ Goes(ba, ba', q)
                       /\ ret' \in {OutOfRange, Piece(ba, ba.m_position, q - ba.m_position)}
(* the cursor moves, *)
Seeks == \E v \in Nat : Shifted(ba, ba', v, Greater(v, ba.m_size)) /\ ret' = <<>>
(* everything is dropped, *)
Clears == Good(ba') /\ ba'.m_position = 0 /\ ba'.m_size = 0 /\ ret' = <<>>
(* what is left is shown, *)
Shows == ba' = ba /\ ret' = toString(ba)
(* or nothing that a caller sees happens. *)
Keeps == /\ Good(ba') /\ ba'.m_position = ba.m_position /\ ba'.m_size = ba.m_size /\ ret' = ret
         /\ \A i \in Nat : i < ba.m_size => ByteAt(ba', i) = ByteAt(ba, i)
Effect == Puts \/ Gets \/ Seeks \/ Clears \/ Shows \/ Keeps

(* A write that fits the bound leaves a bounded array. *)
LEMMA WroteBounded ==
  ASSUME NEW b, Good(b), b.m_size <= MaxSize, NEW bytes \in Seq(Byte), b.m_position + Len(bytes) <= MaxSize,
         NEW c, Wrote(b, c, bytes)
  PROVE  Good(c) /\ c.m_size <= MaxSize
<1>1. PICK p \in Nat, n \in Nat, s \in Nat : p = b.m_position /\ n = Len(bytes) /\ s = b.m_size
  BY GoodFields, LenProperties
<1>2. Good(c) /\ c.m_size = Greater(p + n, s)
  BY <1>1 DEF Wrote
<1>3. MaxSize \in Nat
  BY ProgramAssumption
<1> QED
  BY <1>1, <1>2, <1>3 DEF Greater

(* The program's writes of values, *)
LEMMA WriteStep ==
  ASSUME Inv, Ready, NEW bytes \in Seq(Byte), Fits(Len(bytes)), Wrote(ba, ba', bytes), ret' = bytes, UNCHANGED io
  PROVE  Effect /\ Bounded(ba', io')
<1>1. Good(ba) /\ ba.m_size <= MaxSize /\ io = Quiet /\ ba.m_position + Len(bytes) <= MaxSize
  BY DEF Inv, Bounded, Ready, Fits
<1>2. Good(ba') /\ ba'.m_size <= MaxSize
  BY <1>1, WroteBounded
<1>3. Bounded(ba', io')
  BY <1>1, <1>2 DEF Bounded
<1>4. Puts
  BY DEF Puts
<1> QED
  BY <1>3, <1>4 DEF Effect

(* and its reads. *)
LEMMA ReadStep ==
  ASSUME Inv, Ready, NEW r, Taken(ba, r), Took(r)
  PROVE  Effect /\ Bounded(ba', io')
<1>1. Good(ba) /\ ba.m_size <= MaxSize /\ io = Quiet
  BY DEF Inv, Bounded, Ready
<1>2. ba' = r.ba /\ ret' = r.out /\ io' = io
  BY DEF Took
<1>3. PICK q \in Nat : /\ ba.m_position <= q /\ q <= ba.m_size /\ Goes(ba, ba', q)
                       /\ ret' \in {OutOfRange, Piece(ba, ba.m_position, q - ba.m_position)}
  BY <1>2 DEF Taken
<1>4. Gets
  BY <1>3 DEF Gets
<1>5. Good(ba') /\ ba'.m_size = ba.m_size
  BY <1>3 DEF Goes
<1>6. Bounded(ba', io')
  BY <1>1, <1>2, <1>5 DEF Bounded
<1> QED
  BY <1>4, <1>6 DEF Effect

(* Numbers, *)
LEMMA NumberStep ==
  ASSUME Inv, NEW x \in Numbers, WriteNumber(x) \/ ReadNumber(x.kind, x.n)
  PROVE  Effect /\ Bounded(ba', io')
<1>1. Good(ba)
  BY DEF Inv, Bounded
<1>2. Valid(x) /\ x.n \in Nat
  BY ProgramAssumption DEF Valid
<1>3. CASE WriteNumber(x)
  <2>1. PICK bytes : bytes = NumberBytes(ba, x)
    OBVIOUS
  <2>2. bytes \in Seq(Byte)
    BY <1>1, <1>2, <2>1, NumberBytesIs
  <2>3. Wrote(ba, write(ba, bytes), bytes)
    BY <1>1, <2>2, WriteIs
  <2>4. Ready /\ Fits(Len(bytes)) /\ ba' = write(ba, bytes) /\ ret' = bytes /\ UNCHANGED io
    BY <1>3, <2>1 DEF WriteNumber, writeNumber
  <2> QED
    BY <2>2, <2>3, <2>4, WriteStep
<1>4. CASE ReadNumber(x.kind, x.n)
  <2>1. Ready /\ Took(readNumber(ba, x.kind, x.n))
    BY <1>4 DEF ReadNumber
  <2>2. Taken(ba, readNumber(ba, x.kind, x.n))
    BY <1>1, <1>2, NumberTakes
  <2> QED
    BY <2>1, <2>2, ReadStep
<1> QED
  BY <1>3, <1>4

(* strings, *)
LEMMA StringStep ==
  ASSUME Inv, NEW k \in LengthKinds, ReadString(k) \/ \E str \in Contents : WriteString(k, str)
  PROVE  Effect /\ Bounded(ba', io')
<1>1. Good(ba)
  BY DEF Inv, Bounded
<1>2. ASSUME NEW str \in Contents, WriteString(k, str) PROVE Effect /\ Bounded(ba', io')
  <2>1. str \in Seq(Byte)
    BY ProgramAssumption
  <2>2. PICK bytes : bytes = NumberBytes(ba, LengthField(k, str)) \o str
    OBVIOUS
  <2>3. bytes \in Seq(Byte) /\ Wrote(ba, writeString(ba, k, str), bytes)
    BY <1>1, <2>1, <2>2, WriteStringIs
  <2>4. Ready /\ Fits(Len(bytes)) /\ ba' = writeString(ba, k, str) /\ ret' = bytes /\ UNCHANGED io
    BY <1>2, <2>2 DEF WriteString
  <2> QED
    BY <2>3, <2>4, WriteStep
<1>3. CASE ReadString(k)
  <2>1. Ready /\ Took(readString(ba, k))
    BY <1>3 DEF ReadString
  <2>2. Taken(ba, readString(ba, k))
    BY <1>1, ReadStringTakes
  <2> QED
    BY <2>1, <2>2, ReadStep
<1> QED
  BY <1>2, <1>3

(* plain bytes and files. *)
LEMMA BytesStep ==
  ASSUME Inv, NEW str \in Contents, Write(str) \/ ReadFromFile(str)
  PROVE  Effect /\ Bounded(ba', io')
<1>1. Good(ba) /\ str \in Seq(Byte)
  BY ProgramAssumption DEF Inv, Bounded
<1>2. CASE Write(str)
  <2>1. Wrote(ba, write(ba, str), str)
    BY <1>1, WriteIs
  <2>2. Ready /\ Fits(Len(str)) /\ ba' = write(ba, str) /\ ret' = str /\ UNCHANGED io
    BY <1>2 DEF Write
  <2> QED
    BY <1>1, <2>1, <2>2, WriteStep
<1>3. CASE ReadFromFile(str)
  <2>1. Wrote(ba, readFromFile(ba, str), str)
    BY <1>1, ReadFromFileIs
  <2>2. Ready /\ Fits(Len(str)) /\ ba' = readFromFile(ba, str) /\ ret' = str /\ UNCHANGED io
    BY <1>3 DEF ReadFromFile
  <2> QED
    BY <1>1, <2>1, <2>2, WriteStep
<1> QED
  BY <1>2, <1>3

(* The cursor, the byte order, and what is shown. *)
LEMMA CursorStep ==
  ASSUME Inv, \/ \E v \in 0..MaxSize+1 : SetPosition(v)
              \/ \E val \in BOOLEAN : SetIsLittleEndian(val)
              \/ Clear \/ ToStr
  PROVE  Effect /\ Bounded(ba', io')
<1>1. Good(ba) /\ ba.m_size <= MaxSize /\ MaxSize \in Nat
  BY ProgramAssumption DEF Inv, Bounded
<1>2. PICK p \in Nat, sz \in Nat, cap \in Nat : p = ba.m_position /\ sz = ba.m_size /\ cap = ba.m_capacity /\ p <= sz
  BY <1>1, GoodFields
<1>3. ASSUME NEW v \in 0..MaxSize+1, SetPosition(v) PROVE Effect /\ Bounded(ba', io')
  <2>1. PICK w \in Nat : w = v /\ w <= MaxSize
    BY <1>1, <1>3 DEF SetPosition
  <2>2. Ready /\ io = Quiet /\ io' = Quiet /\ ba' = setPosition(ba, w).ba /\ ret' = setPosition(ba, w).out
    BY <1>3, <2>1 DEF SetPosition, Took, Ready
  <2>3. CASE w > cap
    <3>1. setPosition(ba, w) = Read(ba, OutOfRange)
      BY <1>1, <1>2, <2>3, SetPositionIs
    <3>2. ba' = ba /\ ret' = OutOfRange
      BY <2>2, <3>1, ReadParts
    <3>3. Goes(ba, ba', p)
      BY <1>1, <1>2, <3>2 DEF Goes
    <3>4. Gets
      BY <1>2, <3>2, <3>3 DEF Gets
    <3>5. Bounded(ba', io')
      BY <1>1, <2>2, <3>2 DEF Bounded
    <3> QED
      BY <3>4, <3>5 DEF Effect
  <2>4. CASE w <= cap
    <3>1. Shifted(ba, ba', w, Greater(w, sz)) /\ ret' = <<>>
      BY <1>1, <1>2, <2>2, <2>4, SetPositionIs
    <3>2. Seeks
      BY <1>2, <3>1 DEF Seeks
    <3>3. Good(ba') /\ ba'.m_size = Greater(w, sz)
      BY <3>1 DEF Shifted
    <3>4. ba'.m_size <= MaxSize
      BY <1>1, <1>2, <2>1, <3>3 DEF Greater
    <3>5. Bounded(ba', io')
      BY <2>2, <3>3, <3>4 DEF Bounded
    <3> QED
      BY <3>2, <3>5 DEF Effect
  <2> QED
    BY <2>3, <2>4
<1>4. ASSUME NEW val \in BOOLEAN, SetIsLittleEndian(val) PROVE Effect /\ Bounded(ba', io')
  <2>1. PICK x \in {LITTLE, BIG} : x = IF val THEN LITTLE ELSE BIG
    OBVIOUS
  <2>2. io = Quiet /\ io' = Quiet /\ ret' = ret /\ ba' = [ba EXCEPT !.m_endian = x]
    BY <1>4, <2>1 DEF SetIsLittleEndian, Ready
  <2>3. Good(ba') /\ ba'.m_position = p /\ ba'.m_size = sz /\ ba'.nodes = ba.nodes
    BY <1>1, <1>2, <2>2, EndianIs
  <2>4. \A i \in Nat : ByteAt(ba', i) = ByteAt(ba, i)
    BY <2>3 DEF ByteAt
  <2>5. Keeps
    BY <1>2, <2>2, <2>3, <2>4 DEF Keeps
  <2>6. Bounded(ba', io')
    BY <1>1, <1>2, <2>2, <2>3 DEF Bounded
  <2> QED
    BY <2>5, <2>6 DEF Effect
<1>5. CASE Clear
  <2>1. PICK c : c = clear(ba)
    OBVIOUS
  <2>2. io = Quiet /\ io' = Quiet /\ ba' = c /\ ret' = <<>>
    BY <1>5, <2>1, ReadParts DEF Clear, Ready, Took
  <2>3. Good(ba') /\ ba'.m_position = 0 /\ ba'.m_size = 0
    BY <1>1, <2>1, <2>2, ClearIs
  <2>4. Clears
    BY <2>2, <2>3 DEF Clears
  <2>5. Bounded(ba', io')
    BY <1>1, <2>2, <2>3 DEF Bounded
  <2> QED
    BY <2>4, <2>5 DEF Effect
<1>6. CASE ToStr
  <2>1. io = Quiet /\ io' = Quiet /\ ba' = ba /\ ret' = toString(ba)
    BY <1>6 DEF ToStr, Ready
  <2>2. Shows
    BY <2>1 DEF Shows
  <2>3. Bounded(ba', io')
    BY <1>1, <2>1 DEF Bounded
  <2> QED
    BY <2>2, <2>3 DEF Effect
<1> QED
  BY <1>3, <1>4, <1>5, <1>6

(* What is left of a transfer after n of its bytes. *)
LEMMA TransferMoves ==
  ASSUME NEW p \in Nat, Transfer(io, p), NEW n \in Nat, n <= io.left, Moved(n)
  PROVE  io' = Quiet \/ Transfer(io', p + n)
<1>1. PICK d \in {"read", "write"}, l \in Nat \ {0} : io = [dir |-> d, left |-> l] /\ p + l <= MaxSize
  BY DEF Transfer
<1>2. io.left = l
  BY <1>1
<1>3. CASE n = l
  BY <1>2, <1>3 DEF Moved
<1>4. CASE n # l
  <2>1. PICK m \in Nat \ {0} : m = l - n
    BY <1>2, <1>4
  <2>2. io' = [io EXCEPT !.left = l - n]
    BY <1>2, <1>4 DEF Moved
  <2>3. io' = [dir |-> d, left |-> m]
    BY <1>1, <2>1, <2>2
  <2>4. (p + n) + m <= MaxSize
    BY <1>1, <2>1, ProgramAssumption
  <2> QED
    BY <2>3, <2>4 DEF Transfer
<1> QED
  BY <1>3, <1>4

(* A transfer starts, *)
LEMMA FixSizeStep ==
  ASSUME Inv, NEW n \in 1..MaxSize, FixSize("read", n) \/ FixSize("write", n)
  PROVE  Effect /\ Bounded(ba', io')
<1>1. Good(ba) /\ ba.m_size <= MaxSize /\ MaxSize \in Nat
  BY ProgramAssumption DEF Inv, Bounded
<1>2. PICK d \in {"read", "write"}, l \in Nat \ {0} : l = n /\ FixSize(d, l)
  BY <1>1
<1>3. ba' = ba /\ ret' = ret /\ io' = [dir |-> d, left |-> l] /\ ba.m_position + l <= MaxSize
  BY <1>2 DEF FixSize, Fits
<1>4. Transfer(io', ba'.m_position)
  BY <1>3 DEF Transfer
<1>5. Bounded(ba', io')
  BY <1>1, <1>3, <1>4 DEF Bounded
<1>6. Keeps
  BY <1>1, <1>3 DEF Keeps
<1> QED
  BY <1>5, <1>6 DEF Effect

(* bytes arrive, *)
LEMMA SocketReadStep ==
  ASSUME Inv, NEW bytes \in Contents, SocketRead(bytes)
  PROVE  Effect /\ Bounded(ba', io')
<1>1. Good(ba) /\ ba.m_size <= MaxSize /\ MaxSize \in Nat /\ bytes \in Seq(Byte)
  BY ProgramAssumption DEF Inv, Bounded
<1>2. PICK p \in Nat : p = ba.m_position
  BY <1>1, GoodFields
<1>3. /\ io.dir = "read" /\ Len(bytes) \in 1..io.left /\ ret' = bytes /\ Moved(Len(bytes))
  BY DEF SocketRead
<1>4. Transfer(io, p)
  <2>1. io # Quiet
    BY <1>3 DEF Quiet
  <2> QED
    BY <1>2, <2>1 DEF Inv, Bounded
<1>5. PICK l \in Nat \ {0} : l = io.left /\ p + l <= MaxSize
  BY <1>4 DEF Transfer
<1>6. PICK n \in Nat : n = Len(bytes) /\ n <= l
  BY <1>1, <1>3, <1>5, LenProperties
<1>7. PICK c : c = addCapacity(ba, l)
  OBVIOUS
<1>8. ba' = setPosition(Scatter(c, Walk(c, l), bytes), ba.m_position + Len(bytes)).ba
  BY <1>5, <1>7 DEF SocketRead
<1>9. Wrote(ba, ba', bytes)
  BY <1>1, <1>6, <1>7, <1>8, SocketReadIs
<1>10. Puts
  BY <1>1, <1>3, <1>9 DEF Puts
<1>11. ba.m_position + Len(bytes) <= MaxSize
  BY <1>1, <1>2, <1>5, <1>6
<1>12. Good(ba') /\ ba'.m_size <= MaxSize
  BY <1>1, <1>9, <1>11, WroteBounded
<1>13. ba'.m_position = p + n
  BY <1>2, <1>6, <1>9 DEF Wrote
<1>14. io' = Quiet \/ Transfer(io', p + n)
  BY <1>3, <1>4, <1>5, <1>6, TransferMoves
<1>15. Bounded(ba', io')
  BY <1>12, <1>13, <1>14 DEF Bounded
<1> QED
  BY <1>10, <1>15 DEF Effect

(* bytes are sent, *)
LEMMA SocketWriteStep ==
  ASSUME Inv, NEW n \in 1..MaxSize, SocketWrite(n)
  PROVE  Effect /\ Bounded(ba', io')
<1>1. Good(ba) /\ ba.m_size <= MaxSize /\ MaxSize \in Nat
  BY ProgramAssumption DEF Inv, Bounded
<1>2. PICK p \in Nat, sz \in Nat : p = ba.m_position /\ sz = ba.m_size /\ p <= sz
  BY <1>1, GoodFields
<1>3. PICK m \in Nat : m = n
  BY <1>1
<1>4. io.dir = "write" /\ Moved(m)
  BY <1>3 DEF SocketWrite
<1>5. Transfer(io, p)
  <2>1. io # Quiet
    BY <1>4 DEF Quiet
  <2> QED
    BY <1>2, <2>1 DEF Inv, Bounded
<1>6. PICK l \in Nat \ {0} : l = io.left
  BY <1>5 DEF Transfer
<1>7. PICK w : w = getReadBuffers(ba, l)
  OBVIOUS
<1>8. /\ m \in 1..Len(w) /\ ret' = SubSeq(Gather(ba, w), 1, m)
      /\ ba' = setPosition(ba, p + m).ba
  BY <1>2, <1>3, <1>6, <1>7 DEF SocketWrite
<1>9. p + m <= sz /\ ret' = Piece(ba, p, m) /\ Shifted(ba, ba', p + m, sz)
  BY <1>1, <1>2, <1>6, <1>7, <1>8, SocketWriteIs
<1>10. PICK q \in Nat : q = p + m /\ q - p = m /\ p <= q /\ q <= sz
  BY <1>9
<1>11. Good(ba') /\ ba'.m_size = sz /\ ba'.m_position = q /\ Goes(ba, ba', q)
  BY <1>2, <1>9, <1>10 DEF Shifted, Goes
<1>12. Gets
  BY <1>2, <1>9, <1>10, <1>11 DEF Gets
<1>13. m <= io.left
  <2>1. PICK h \in Nat : h = Smaller(l, sz - p) /\ h <= l
    BY <1>2 DEF Smaller
  <2>2. Len(w) = h
    BY <1>1, <1>2, <1>7, <2>1, ReadBuffersAre
  <2> QED
    BY <1>6, <1>8, <2>1, <2>2
<1>14. io' = Quiet \/ Transfer(io', p + m)
  BY <1>4, <1>5, <1>13, TransferMoves
<1>15. Bounded(ba', io')
  BY <1>1, <1>2, <1>10, <1>11, <1>14 DEF Bounded
<1> QED
  BY <1>12, <1>15 DEF Effect

(* or it ends before its time. *)
LEMMA SocketFailsStep ==
  ASSUME Inv, SocketFails
  PROVE  Effect /\ Bounded(ba', io')
<1>1. Good(ba) /\ ba.m_size <= MaxSize
  BY DEF Inv, Bounded
<1>2. io # Quiet /\ io' = Quiet /\ ret' = ret
  BY DEF SocketFails
<1>3. PICK l \in Nat : l = io.left
  BY <1>2 DEF Inv, Bounded, Transfer
<1>4. Grown(ba, ba')
  <2>1. CASE io.dir = "read"
    BY <1>1, <1>3, <2>1, CapacityGrows DEF SocketFails
  <2>2. CASE io.dir # "read"
    <3>1. ba' = ba
      BY <2>2 DEF SocketFails
    <3> QED
      BY <1>1, <3>1, GoodFields DEF Grown
  <2> QED
    BY <2>1, <2>2
<1>5. Good(ba') /\ ba'.m_position = ba.m_position /\ ba'.m_size = ba.m_size
  BY <1>4 DEF Grown
<1>6. ASSUME NEW i \in Nat, i < ba.m_size PROVE ByteAt(ba', i) = ByteAt(ba, i)
  <2>1. i < ba.m_capacity
    BY <1>1, <1>6, GoodFields
  <2> QED
    BY <1>4, <2>1 DEF Grown
<1>7. Keeps
  BY <1>2, <1>5, <1>6 DEF Keeps
<1>8. Bounded(ba', io')
  BY <1>1, <1>2, <1>5 DEF Bounded
<1> QED
  BY <1>7, <1>8 DEF Effect

(* Every step of the program has one of the effects and keeps the invariant. *)
LEMMA NextStep ==
  ASSUME Inv, Next
  PROVE  Effect /\ Bounded(ba', io')
<1>1. CASE \E x \in Numbers : WriteNumber(x) \/ ReadNumber(x.kind, x.n)
  BY <1>1, NumberStep
<1>2. CASE \E k \in LengthKinds : (\E str \in Contents : WriteString(k, str)) \/ ReadString(k)
  BY <1>2, StringStep
<1>3. CASE \E str \in Contents : Write(str) \/ ReadFromFile(str) \/ SocketRead(str)
  BY <1>3, BytesStep, SocketReadStep
<1>4. CASE \/ \E v \in 0..MaxSize+1 : SetPosition(v)
           \/ \E val \in BOOLEAN : SetIsLittleEndian(val)
           \/ Clear \/ ToStr
  BY <1>4, CursorStep
<1>5. CASE \E n \in 1..MaxSize : FixSize("read", n) \/ FixSize("write", n) \/ SocketWrite(n)
  BY <1>5, FixSizeStep, SocketWriteStep
<1>6. CASE SocketFails
  BY <1>6, SocketFailsStep
<1> QED
  BY <1>1, <1>2, <1>3, <1>4, <1>5, <1>6 DEF Next

(* The constructor's array. *)
LEMMA InitIs ==
  ASSUME Init
  PROVE  Inv /\ ba.m_position = 0 /\ ba.m_size = 0
<1> USE BaseSizeAssumption
<1>1. NewNode \in Nodes
  BY OrderAssumption DEF NewNode, Nodes
<1>2. PICK ns : ns = <<NewNode>>
  OBVIOUS
<1>3. ns \in Seq(Nodes) /\ Len(ns) = 1
  BY <1>1, <1>2
<1>4. PICK f : f = FALSE
  OBVIOUS
<1>5. ba = Rec(0, BaseSize, 0, BIG, ns, 1, f)
  BY <1>2, <1>4, Zenon DEF Init, Rec
<1>6. CurAt(0, 1) = 1 /\ BaseSize * 1 = BaseSize
  <2>1. (0 * BaseSize + 0) \div BaseSize = 0
    BY DivModUnique
  <2>2. 0 \div BaseSize = 0
    BY <2>1
  <2> QED
    BY <2>2 DEF CurAt
<1>7. ba = Array(0, 0, BIG, ns, f)
  BY <1>3, <1>5, <1>6 DEF Array
<1>8. Fields(0, 0, BIG, ns, f)
  <2>1. f \in BOOLEAN
    BY <1>4
  <2>2. 0 <= BaseSize * Len(ns)
    BY <1>3
  <2> QED
    BY <1>3, <2>1, <2>2 DEF Fields
<1>9. Good(ba) /\ ba.m_position = 0 /\ ba.m_size = 0
  BY <1>7, <1>8, GoodArray
<1>10. io = Quiet /\ 0 <= MaxSize
  BY ProgramAssumption DEF Init
<1> QED
  BY <1>9, <1>10 DEF Inv, Bounded

(* The array's fields fit together in every reachable state. *)
THEOREM Invariant == Spec => []Inv
<1>1. Init => Inv
  BY InitIs
<1>2. Inv /\ [Next]_vars => Inv'
  <2> SUFFICES ASSUME Inv, [Next]_vars PROVE Inv'
    OBVIOUS
  <2>1. CASE Next
    <3>1. Bounded(ba', io')
      BY <2>1, NextStep
    <3> QED
      BY <3>1 DEF Inv
  <2>2. CASE UNCHANGED vars
    BY <2>2 DEF Inv, vars
  <2> QED
    BY <2>1, <2>2
<1> QED
  BY <1>1, <1>2, PTL DEF Spec

(* m_cur is the block of m_position after every operation, and null exactly at
   the end of the last block: for blocks of every size and every program. *)
THEOREM CurExactCorrect == Spec => []CurExact
<1>1. Inv => CurExact
  <2> SUFFICES ASSUME Inv PROVE CurExact
    OBVIOUS
  <2>1. Good(ba)
    BY DEF Inv, Bounded
  <2>2. /\ ba.m_position \in Nat /\ ba.m_position <= ba.m_size /\ ba.m_size <= ba.m_capacity
        /\ ba.m_capacity = BaseSize * Len(ba.nodes) /\ ba.m_cur = CurAt(ba.m_position, Len(ba.nodes))
    BY <2>1, GoodFields
  <2> QED
    BY <2>2 DEF CurExact, CurAt
<1> QED
  BY <1>1, Invariant, PTL

-----------------------------------------------------------------------------
(* The blocks implement a flat stream. *)

(* The stream an array stands for. *)
FlatOf(b) == [i \in 1..b.m_size |-> ByteAt(b, i - 1)]

(* It has m_size bytes, *)
LEMMA FlatIs ==
  ASSUME NEW b, Good(b)
  PROVE  /\ FlatOf(b) \in Seq(Byte) /\ Len(FlatOf(b)) = b.m_size
         /\ \A i \in 1..b.m_size : FlatOf(b)[i] = ByteAt(b, i - 1)
<1>1. PICK s \in Nat : s = b.m_size /\ s <= b.m_capacity
  BY GoodFields
<1>2. PICK t : t = Piece(b, 0, s)
  OBVIOUS
<1>3. t \in Seq(Byte) /\ Len(t) = s /\ \A k \in 1..s : t[k] = ByteAt(b, 0 + k - 1)
  <2>1. 0 + s <= b.m_capacity
    BY <1>1
  <2> QED
    BY <1>2, <2>1, GatherIs
<1>4. FlatOf(b) = t
  BY <1>1, <1>2 DEF FlatOf, Piece
<1>5. \A k \in 1..s : t[k] = ByteAt(b, k - 1)
  BY <1>3
<1> QED
  BY <1>1, <1>3, <1>4, <1>5

(* and its parts are the pieces of the array. *)
LEMMA FlatPiece ==
  ASSUME NEW b, Good(b), NEW p \in Nat, NEW q \in Nat, p <= q, q <= b.m_size
  PROVE  SubSeq(FlatOf(b), p + 1, q) = Piece(b, p, q - p)
<1>1. PICK s : s = FlatOf(b)
  OBVIOUS
<1>2. PICK z \in Nat, n \in Nat : z = b.m_size /\ n = q - p /\ z <= b.m_capacity /\ p + n = q /\ b.m_capacity \in Nat
  BY GoodFields
<1>3. s \in Seq(Byte) /\ Len(s) = z /\ \A i \in 1..z : s[i] = ByteAt(b, i - 1)
  BY <1>1, <1>2, FlatIs
<1>4. PICK t : t = Piece(b, p, n)
  OBVIOUS
<1>5. t \in Seq(Byte) /\ Len(t) = n /\ \A k \in 1..n : t[k] = ByteAt(b, p + k - 1)
  <2>1. p + n <= b.m_capacity
    BY <1>2
  <2> QED
    BY <1>4, <2>1, GatherIs
<1>6. PICK u : u = SubSeq(s, p + 1, q)
  OBVIOUS
<1>7. PICK a \in Int, c \in Int : a = p + 1 /\ c = q
  OBVIOUS
<1>8. \A i \in a..c : s[i] \in Byte
  <2>1. \A i \in a..c : i \in 1..Len(s)
    BY <1>2, <1>3, <1>7
  <2> QED
    BY <1>3, <2>1, ElementOfSeq
<1>9. u \in Seq(Byte) /\ Len(u) = (IF a <= c THEN c - a + 1 ELSE 0) /\ \A i \in 1..c-a+1 : u[i] = s[a+i-1]
  BY <1>6, <1>7, <1>8, SubSeqProperties
<1>10. Len(u) = n /\ c - a + 1 = n
  BY <1>2, <1>7, <1>9
<1>11. ASSUME NEW i \in 1..n PROVE u[i] = t[i]
  <2>1. PICK j \in 1..z : j = a + i - 1 /\ j - 1 = p + i - 1
    BY <1>2, <1>7
  <2> QED
    BY <1>3, <1>5, <1>9, <1>10, <2>1
<1>12. u = t
  BY <1>5, <1>9, <1>10, <1>11, SeqEqual
<1> QED
  BY <1>1, <1>2, <1>4, <1>6, <1>12

(* Two arrays with the same bytes stand for the same stream. *)
LEMMA FlatSame ==
  ASSUME NEW b, Good(b), NEW c, Good(c), c.m_size = b.m_size,
         \A i \in Nat : i < b.m_size => ByteAt(c, i) = ByteAt(b, i)
  PROVE  FlatOf(c) = FlatOf(b)
<1>1. PICK s \in Nat : s = b.m_size
  BY GoodFields
<1>2. ASSUME NEW i \in 1..s PROVE ByteAt(c, i - 1) = ByteAt(b, i - 1)
  <2>1. PICK j \in Nat : j = i - 1 /\ j < s
    OBVIOUS
  <2> QED
    BY <1>1, <2>1
<1> QED
  BY <1>1, <1>2 DEF FlatOf

(* Bytes that are put: exactly they change, and the stream grows if it must. *)
LEMMA WroteFlat ==
  ASSUME NEW b, Good(b), NEW bytes \in Seq(Byte), NEW c, Wrote(b, c, bytes), NEW d, d = FlatOf(b), NEW e, e = FlatOf(c)
  PROVE  /\ Len(e) = IF c.m_position > Len(d) THEN c.m_position ELSE Len(d)
         /\ \A i \in 1..Len(d) : i \notin b.m_position+1..c.m_position => e[i] = d[i]
         /\ bytes = SubSeq(e, b.m_position + 1, c.m_position)
         /\ bytes = <<>> => c.m_position = b.m_position /\ e = d
         /\ bytes # <<>> => c.m_position > b.m_position
<1>1. PICK p \in Nat, s \in Nat, n \in Nat :
          p = b.m_position /\ s = b.m_size /\ n = Len(bytes) /\ s <= b.m_capacity /\ b.m_capacity \in Nat /\ p <= s
  BY GoodFields, LenProperties
<1>2. PICK q \in Nat : q = p + n
  OBVIOUS
<1>3. /\ Good(c) /\ c.m_position = q /\ c.m_size = Greater(q, s) /\ c.m_capacity >= b.m_capacity
      /\ \A i \in Nat : i < b.m_capacity /\ (i < p \/ i >= q) => ByteAt(c, i) = ByteAt(b, i)
      /\ \A k \in 1..n : ByteAt(c, p + k - 1) = bytes[k]
  BY <1>1, <1>2 DEF Wrote
<1>4. PICK t \in Nat : t = c.m_size /\ t = Greater(q, s) /\ t <= c.m_capacity /\ c.m_capacity \in Nat
  BY <1>3, GoodFields
<1>5. d \in Seq(Byte) /\ Len(d) = s /\ \A i \in 1..s : d[i] = ByteAt(b, i - 1)
  BY <1>1, FlatIs
<1>6. e \in Seq(Byte) /\ Len(e) = t /\ \A i \in 1..t : e[i] = ByteAt(c, i - 1)
  BY <1>3, <1>4, FlatIs
<1>7. t = (IF q > s THEN q ELSE s) /\ q <= t /\ s <= t
  BY <1>4 DEF Greater
<1>8. ASSUME NEW i \in 1..s, i \notin p+1..q PROVE e[i] = d[i]
  <2>1. PICK j \in Nat : j = i - 1 /\ j < b.m_capacity /\ (j < p \/ j >= q) /\ i \in 1..t
    BY <1>1, <1>7, <1>8
  <2> QED
    BY <1>3, <1>5, <1>6, <2>1
<1>9. bytes = SubSeq(e, p + 1, q)
  <2>1. SubSeq(e, p + 1, q) = Piece(c, p, n)
    <3>1. q - p = n /\ p <= q /\ q <= c.m_size
      BY <1>2, <1>4, <1>7
    <3> QED
      BY <1>3, <3>1, FlatPiece
  <2>2. PICK u : u = Piece(c, p, n)
    OBVIOUS
  <2>3. p + n <= c.m_capacity
    BY <1>2, <1>4, <1>7
  <2>4. u \in Seq(Byte) /\ Len(u) = n /\ \A k \in 1..n : u[k] = ByteAt(c, p + k - 1)
    BY <1>3, <2>2, <2>3, GatherIs
  <2>5. \A k \in 1..n : u[k] = bytes[k]
    BY <1>3, <2>4
  <2>6. u = bytes
    BY <1>1, <2>4, <2>5, SeqEqual
  <2> QED
    BY <2>1, <2>2, <2>6
<1>10. ASSUME bytes = <<>> PROVE q = p /\ e = d
  <2>1. q = p /\ t = s
    BY <1>1, <1>2, <1>4, <1>10, EmptySeq DEF Greater
  <2>2. \A i \in 1..s : e[i] = d[i]
    BY <1>8, <2>1
  <2> QED
    BY <1>5, <1>6, <2>1, <2>2, SeqEqual
<1>11. ASSUME bytes # <<>> PROVE q > p
  BY <1>1, <1>2, <1>11, EmptySeq
<1> QED
  BY <1>1, <1>3, <1>5, <1>6, <1>7, <1>8, <1>9, <1>10, <1>11

(* The cursor moves: the stream is kept, and grows if it must. *)
LEMMA SeekFlat ==
  ASSUME NEW b, Good(b), NEW v \in Nat, NEW c, Shifted(b, c, v, Greater(v, b.m_size)), NEW d, d = FlatOf(b), NEW e, e = FlatOf(c)
  PROVE  Len(e) = (IF v > Len(d) THEN v ELSE Len(d)) /\ SubSeq(e, 1, Len(d)) = d
<1>1. PICK s \in Nat : s = b.m_size /\ s <= b.m_capacity
  BY GoodFields
<1>2. Good(c) /\ c.m_size = Greater(v, s) /\ c.nodes = b.nodes
  BY <1>1 DEF Shifted
<1>3. PICK t \in Nat : t = c.m_size /\ s <= t /\ t = (IF v > s THEN v ELSE s)
  BY <1>2, GoodFields DEF Greater
<1>4. d \in Seq(Byte) /\ Len(d) = s /\ \A i \in 1..s : d[i] = ByteAt(b, i - 1)
  BY <1>1, FlatIs
<1>5. e \in Seq(Byte) /\ Len(e) = t
  BY <1>2, <1>3, FlatIs
<1>6. SubSeq(e, 0 + 1, s) = Piece(c, 0, s - 0)
  BY <1>2, <1>3, FlatPiece
<1>7. Piece(c, 0, s - 0) = Piece(b, 0, s - 0)
  BY <1>2, PieceSame
<1>8. SubSeq(d, 0 + 1, s) = Piece(b, 0, s - 0)
  <2>1. s <= b.m_size
    BY <1>1
  <2> QED
    BY <2>1, FlatPiece
<1>9. SubSeq(d, 1, s) = d
  BY <1>4, SubSeqFull
<1> QED
  BY <1>3, <1>4, <1>5, <1>6, <1>7, <1>8, <1>9

(* The effect of a step is a step of the stream, or none. *)
LEMMA StreamStep ==
  ASSUME Inv, Effect
  PROVE  Stream!Next \/ UNCHANGED Stream!vars
<1>1. Good(ba)
  BY DEF Inv, Bounded
<1>2. PICK p \in Nat, s \in Nat : p = ba.m_position /\ s = ba.m_size /\ p <= s /\ s <= ba.m_capacity
  BY <1>1, GoodFields
<1>3. PICK d : d = FlatOf(ba)
  OBVIOUS
<1>4. PICK e : e = FlatOf(ba')
  OBVIOUS
<1>5. Flat = d /\ Flat' = e
  BY <1>3, <1>4 DEF Flat, FlatOf
<1>6. d \in Seq(Byte) /\ Len(d) = s
  BY <1>1, <1>2, <1>3, FlatIs
<1>7. CASE Puts
  <2>1. PICK bytes \in Seq(Byte) : Wrote(ba, ba', bytes) /\ ret' = bytes
    BY <1>7 DEF Puts
  <2>2. PICK q : q = ba'.m_position
    OBVIOUS
  <2>3. /\ Len(e) = IF q > Len(d) THEN q ELSE Len(d)
        /\ \A i \in 1..Len(d) : i \notin p+1..q => e[i] = d[i]
        /\ bytes = SubSeq(e, p + 1, q)
        /\ bytes = <<>> => q = p /\ e = d
        /\ bytes # <<>> => q > p
    BY <1>1, <1>2, <1>3, <1>4, <2>1, <2>2, WroteFlat
  <2>4. CASE bytes # <<>>
    <3>1. Stream!Put
      BY <1>2, <1>5, <2>1, <2>2, <2>3, <2>4 DEF Stream!Put
    <3> QED
      BY <3>1 DEF Stream!Next
  <2>5. CASE bytes = <<>>
    <3>1. q = p /\ e = d /\ ret' = SubSeq(d, p + 1, q) /\ q \in p..Len(d)
      BY <1>2, <1>6, <2>1, <2>3, <2>5
    <3>2. Stream!Get
      BY <1>2, <1>5, <2>2, <3>1 DEF Stream!Get
    <3> QED
      BY <3>2 DEF Stream!Next
  <2> QED
    BY <2>4, <2>5
<1>8. CASE Gets
  <2>1. PICK q \in Nat : /\ p <= q /\ q <= s /\ Goes(ba, ba', q)
                         /\ ret' \in {OutOfRange, Piece(ba, p, q - p)}
    BY <1>2, <1>8 DEF Gets
  <2>2. Good(ba') /\ ba'.m_position = q /\ ba'.m_size = s /\ ba'.nodes = ba.nodes
    BY <1>2, <2>1 DEF Goes
  <2>3. e = d
    <3>1. \A i \in Nat : ByteAt(ba', i) = ByteAt(ba, i)
      BY <2>2 DEF ByteAt
    <3> QED
      BY <1>1, <1>2, <1>3, <1>4, <2>2, <3>1, FlatSame
  <2>4. q \in p..Len(d)
    BY <1>6, <2>1
  <2>5. CASE ret' = OutOfRange
    <3>1. Stream!Fail
      BY <1>2, <1>5, <2>2, <2>3, <2>4, <2>5 DEF Stream!Fail, Stream!OutOfRange, OutOfRange
    <3> QED
      BY <3>1 DEF Stream!Next
  <2>6. CASE ret' = Piece(ba, p, q - p)
    <3>1. SubSeq(d, p + 1, q) = Piece(ba, p, q - p)
      BY <1>1, <1>2, <1>3, <2>1, FlatPiece
    <3>2. Stream!Get
      BY <1>2, <1>5, <2>2, <2>3, <2>4, <2>6, <3>1 DEF Stream!Get
    <3> QED
      BY <3>2 DEF Stream!Next
  <2> QED
    BY <2>1, <2>5, <2>6
<1>9. CASE Seeks
  <2>1. PICK v \in Nat : Shifted(ba, ba', v, Greater(v, ba.m_size)) /\ ret' = <<>>
    BY <1>9 DEF Seeks
  <2>2. Len(e) = (IF v > Len(d) THEN v ELSE Len(d)) /\ SubSeq(e, 1, Len(d)) = d
    BY <1>1, <1>3, <1>4, <2>1, SeekFlat
  <2>3. ba'.m_position = v
    BY <2>1 DEF Shifted
  <2>4. Stream!Seek
    BY <1>5, <2>1, <2>2, <2>3 DEF Stream!Seek
  <2> QED
    BY <2>4 DEF Stream!Next
<1>10. CASE Clears
  <2>1. Good(ba') /\ ba'.m_position = 0 /\ ba'.m_size = 0 /\ ret' = <<>>
    BY <1>10 DEF Clears
  <2>2. e \in Seq(Byte) /\ Len(e) = 0
    BY <1>4, <2>1, FlatIs
  <2>3. e = <<>>
    BY <2>2, EmptySeq
  <2>4. Stream!Reset
    BY <1>5, <2>1, <2>3 DEF Stream!Reset
  <2> QED
    BY <2>4 DEF Stream!Next
<1>11. CASE Shows
  <2>1. ba' = ba /\ ret' = toString(ba)
    BY <1>11 DEF Shows
  <2>2. SubSeq(d, p + 1, s) = Piece(ba, p, s - p)
    <3>1. s <= ba.m_size
      BY <1>2
    <3> QED
      BY <1>1, <1>2, <1>3, <3>1, FlatPiece
  <2>3. toString(ba) = Piece(ba, p, s - p)
    BY <1>1, <1>2, ToStringIs
  <2>4. e = d
    BY <1>3, <1>4, <2>1
  <2>5. Stream!Show
    BY <1>2, <1>5, <1>6, <2>1, <2>2, <2>3, <2>4 DEF Stream!Show
  <2> QED
    BY <2>5 DEF Stream!Next
<1>12. CASE Keeps
  <2>1. /\ Good(ba') /\ ba'.m_position = ba.m_position /\ ba'.m_size = ba.m_size /\ ret' = ret
        /\ \A i \in Nat : i < ba.m_size => ByteAt(ba', i) = ByteAt(ba, i)
    BY <1>12 DEF Keeps
  <2>2. e = d
    BY <1>1, <1>3, <1>4, <2>1, FlatSame
  <2> QED
    BY <1>5, <2>1, <2>2 DEF Stream!vars
<1> QED
  BY <1>7, <1>8, <1>9, <1>10, <1>11, <1>12 DEF Effect

(* Whatever the alignment of the cursor and the size of the blocks, the array
   behaves as one flat stream of bytes: every operation of the program is an
   operation of ByteStream, or changes nothing that a caller can see. *)
THEOREM ImplementsStreamCorrect == Spec => ImplementsStream
<1>1. Init => Stream!Init
  <2> SUFFICES ASSUME Init PROVE Stream!Init
    OBVIOUS
  <2>1. Good(ba) /\ ba.m_position = 0 /\ ba.m_size = 0 /\ ret = <<>>
    BY InitIs DEF Init, Inv, Bounded
  <2>2. FlatOf(ba) \in Seq(Byte) /\ Len(FlatOf(ba)) = 0
    BY <2>1, FlatIs
  <2>3. FlatOf(ba) = <<>>
    BY <2>2, EmptySeq
  <2>4. Flat = <<>>
    BY <2>3 DEF Flat, FlatOf
  <2> QED
    BY <2>1, <2>4 DEF Stream!Init
<1>2. Inv /\ [Next]_vars => [Stream!Next]_Stream!vars
  <2> SUFFICES ASSUME Inv, [Next]_vars PROVE [Stream!Next]_Stream!vars
    OBVIOUS
  <2>1. CASE Next
    <3>1. Effect
      BY <2>1, NextStep
    <3> QED
      BY <3>1, StreamStep
  <2>2. CASE UNCHANGED vars
    <3>1. ba' = ba /\ ret' = ret
      BY <2>2 DEF vars
    <3>2. Flat' = Flat
      BY <3>1 DEF Flat
    <3> QED
      BY <3>1, <3>2 DEF Stream!vars
  <2> QED
    BY <2>1, <2>2
<1> QED
  BY <1>1, <1>2, Invariant, PTL DEF Spec, ImplementsStream, Stream!Spec

-----------------------------------------------------------------------------
(* The views of what is left to read. *)

(* The variables of writeToFile's loop. *)
Loop(cur, pos, left, cells) == [cur |-> cur, pos |-> pos, left |-> left, cells |-> cells]
Loops == [cur : Nat, pos : Nat, left : Nat, cells : Seq(Nat \X Nat)]

(* The loop, round by round. *)
LoopOf(b) ==
    CHOOSE loop : loop = [i \in 0..Len(b.nodes)+1 |->
        IF i = 0 THEN [cur |-> b.m_cur, pos |-> b.m_position, left |-> getReadSize(b), cells |-> <<>>]
        ELSE FileRound(Len(b.nodes), loop[i - 1])]

(* The fields of the loop's record. *)
LEMMA LoopFields ==
  ASSUME NEW cur, NEW pos, NEW left, NEW cells, NEW v, v = Loop(cur, pos, left, cells)
  PROVE  v.cur = cur /\ v.pos = pos /\ v.left = left /\ v.cells = cells
BY DEF Loop

(* Its type. *)
LEMMA LoopIn ==
  ASSUME NEW cur \in Nat, NEW pos \in Nat, NEW left \in Nat, NEW cells \in Seq(Nat \X Nat)
  PROVE  Loop(cur, pos, left, cells) \in Loops
BY DEF Loop, Loops

(* A part of a block, cell by cell. *)
Part(cur, diff, n) == [k \in 1..n |-> <<cur, diff + k - 1>>]

(* It is a sequence of cells. *)
LEMMA PartSeq ==
  ASSUME NEW cur \in Nat, NEW diff \in Nat, NEW n \in Nat
  PROVE  /\ Part(cur, diff, n) \in Seq(Nat \X Nat) /\ Len(Part(cur, diff, n)) = n
         /\ \A k \in 1..n : Part(cur, diff, n)[k] = <<cur, diff + k - 1>>
<1>1. \A k \in 1..n : <<cur, diff + k - 1>> \in Nat \X Nat
  OBVIOUS
<1>2. PICK s : s = [k \in 1..n |-> <<cur, diff + k - 1>>]
  OBVIOUS
<1>3. s \in [1..n -> Nat \X Nat] /\ \A k \in 1..n : s[k] = <<cur, diff + k - 1>>
  BY <1>1, <1>2
<1>4. s \in Seq(Nat \X Nat) /\ Len(s) = n
  BY <1>3, SeqOfFn
<1> QED
  BY <1>2, <1>3, <1>4 DEF Part

(* What a round does that writes len bytes from offset diff of block cur on: q, y and c are next. *)
Writes(last, cur, pos, left, diff, len, c, q, y) ==
    /\ left > 0 /\ cur # Null /\ diff = pos % BaseSize /\ len = Smaller(left, BaseSize) - diff
    /\ c = NextOf(last, cur) /\ q = pos + len /\ y = left - len

Written(last, cur, pos, left, cells, diff, len, c, q, y) ==
    FileRound(last, Loop(cur, pos, left, cells)) = Loop(c, q, y, cells \o Part(cur, diff, len))

(* A round that writes a part. *)
LEMMA RoundWrites ==
  ASSUME NEW last \in Nat, NEW cur \in Nat, NEW pos \in Nat, NEW left \in Nat, NEW cells, NEW diff \in Nat, NEW len \in Nat,
         NEW c \in Nat, NEW q \in Nat, NEW y \in Nat, Writes(last, cur, pos, left, diff, len, c, q, y)
  PROVE  Written(last, cur, pos, left, cells, diff, len, c, q, y)
<1>1. PICK v : v = Loop(cur, pos, left, cells)
  OBVIOUS
<1>2. v.cur = cur /\ v.pos = pos /\ v.left = left /\ v.cells = cells
  BY <1>1, LoopFields
<1>3. Min({v.left, BaseSize}) - (v.pos % BaseSize) = len
  <2>1. PICK x \in Int, w \in Int : x = left /\ w = BaseSize
    BY BaseSizeAssumption
  <2>2. Min({x, w}) = Smaller(x, w)
    BY MaxMin
  <2> QED
    BY <1>2, <2>1, <2>2 DEF Writes
<1>4. ~(left = 0) /\ ~(cur = Null \/ len < 0)
  BY DEF Writes
<1>5. FileRound(last, v) = [cur |-> c, pos |-> q, left |-> y,
                            cells |-> cells \o [k \in 1..len |-> <<cur, diff + k - 1>>]]
  BY <1>2, <1>3, <1>4 DEF FileRound, Writes
<1> QED
  BY <1>1, <1>5 DEF Loop, Part, Written

(* A round when nothing is left. *)
LEMMA RoundEnds ==
  ASSUME NEW last, NEW cur, NEW pos, NEW left, left = 0, NEW cells
  PROVE  FileRound(last, Loop(cur, pos, left, cells)) = Loop(cur, pos, left, cells)
<1>1. PICK v : v = Loop(cur, pos, left, cells)
  OBVIOUS
<1>2. v.left = 0
  BY <1>1, LoopFields
<1> QED
  BY <1>1, <1>2 DEF FileRound

(* The types of a round's outcome. *)
LEMMA RoundIn ==
  ASSUME NEW last \in Nat, NEW v \in Loops
  PROVE  FileRound(last, v) \in Loops
<1>1. PICK cur \in Nat, pos \in Nat, left \in Nat, cells \in Seq(Nat \X Nat) : v = Loop(cur, pos, left, cells)
  BY DEF Loops, Loop
<1>2. v.cur = cur /\ v.pos = pos /\ v.left = left /\ v.cells = cells
  BY <1>1, LoopFields
<1>3. PICK diff \in Nat : diff = pos % BaseSize
  <2>1. pos % BaseSize \in 0..BaseSize-1
    BY DivMod, BaseSizeAssumption
  <2> QED
    BY <2>1
<1>4. PICK m \in Nat : m = Smaller(left, BaseSize) /\ m <= left
  BY BaseSizeAssumption DEF Smaller
<1>5. Min({v.left, BaseSize}) = m
  <2>1. PICK x \in Int, y \in Int : x = left /\ y = BaseSize
    BY BaseSizeAssumption
  <2>2. Min({x, y}) = Smaller(x, y)
    BY MaxMin
  <2> QED
    BY <1>2, <1>4, <2>1, <2>2
<1>6. PICK len \in Int : len = m - diff
  OBVIOUS
<1>7. CASE left = 0
  BY <1>1, <1>7, RoundEnds
<1>8. CASE left > 0 /\ (cur = Null \/ len < 0)
  <2>1. PICK s : s = cells \o << <<Null, 0>> >>
    OBVIOUS
  <2>2. s \in Seq(Nat \X Nat)
    <3>1. PICK t : t = << <<Null, 0>> >>
      OBVIOUS
    <3>2. t \in Seq(Nat \X Nat)
      BY <3>1 DEF Null
    <3> QED
      BY <2>1, <3>1, <3>2, ConcatProperties
  <2>3. FileRound(last, v) = [cur |-> Null, pos |-> pos, left |-> 0, cells |-> s]
    BY <1>2, <1>3, <1>5, <1>6, <1>8, <2>1 DEF FileRound
  <2>4. PICK c \in Nat, z \in Nat : c = Null /\ z = 0
    BY DEF Null
  <2>5. FileRound(last, v) = Loop(c, pos, z, s)
    BY <2>3, <2>4 DEF Loop
  <2> QED
    BY <2>2, <2>5, LoopIn
<1>9. CASE left > 0 /\ cur # Null /\ len >= 0
  <2>1. PICK l \in Nat : l = len /\ l = Smaller(left, BaseSize) - diff
    BY <1>4, <1>6, <1>9
  <2>2. PICK c \in Nat : c = NextOf(last, cur)
    BY DEF NextOf, Null
  <2>3. PICK q \in Nat, y \in Nat : q = pos + l /\ y = left - l
    BY <1>4, <1>6, <2>1
  <2>4. PICK t \in Seq(Nat \X Nat) : t = cells \o Part(cur, diff, l)
    BY PartSeq, ConcatProperties
  <2>5. FileRound(last, v) = Loop(c, q, y, t)
    <3>1. Writes(last, cur, pos, left, diff, l, c, q, y)
      BY <1>3, <1>9, <2>1, <2>2, <2>3 DEF Writes
    <3>2. Written(last, cur, pos, left, cells, diff, l, c, q, y)
      BY <3>1, RoundWrites
    <3> QED
      BY <1>1, <2>4, <3>2 DEF Written
  <2> QED
    BY <2>5, LoopIn
<1> QED
  BY <1>7, <1>8, <1>9

(* The rounds f of the loop, and what is made of the last one. *)
FileRounds(b, last, f) ==
  /\ f[0] = Loop(b.m_cur, b.m_position, b.m_size - b.m_position, <<>>)
  /\ \A i \in 1..last+1 : f[i] = FileRound(last, f[i - 1])
  /\ FileCells(b) = f[last + 1].cells

(* The loop has a value for every round. *)
LEMMA LoopIs ==
  ASSUME NEW b, Good(b), NEW last \in Nat, last = Len(b.nodes), NEW f, f = LoopOf(b)
  PROVE  FileRounds(b, last, f)
<1> USE DEF FileRounds
<1>1. PICK a : a = Loop(b.m_cur, b.m_position, b.m_size - b.m_position, <<>>)
  OBVIOUS
<1>2. a \in Loops
  <2>1. b.m_cur \in Nat
    BY GoodInArrays DEF Arrays
  <2>2. b.m_position \in Nat /\ b.m_size - b.m_position \in Nat
    BY GoodFields
  <2>3. <<>> \in Seq(Nat \X Nat)
    BY EmptySeq
  <2> QED
    <3>1. PICK c \in Nat, q \in Nat, y \in Nat, t \in Seq(Nat \X Nat) :
              c = b.m_cur /\ q = b.m_position /\ y = b.m_size - b.m_position /\ t = <<>>
      BY <2>1, <2>2, <2>3
    <3> QED
      BY <1>1, <3>1, LoopIn
<1>3. \A v \in Loops : FileRound(last, v) \in Loops
  BY RoundIn
<1>4. PICK n \in Nat : n = last + 1
  OBVIOUS
<1>5. PICK g : g = [x \in (1..n) \X Loops |-> FileRound(last, x[2])]
  OBVIOUS
<1>6. g \in [(1..n) \X Loops -> Loops]
  <2>1. ASSUME NEW x \in (1..n) \X Loops PROVE FileRound(last, x[2]) \in Loops
    BY <1>3
  <2> QED
    BY <1>5, <2>1
<1>7. ASSUME NEW i \in 1..n, NEW v \in Loops PROVE g[<<i, v>>] = FileRound(last, v)
  <2>1. PICK x : x = <<i, v>>
    OBVIOUS
  <2>2. x[2] = v /\ x \in (1..n) \X Loops
    BY <2>1
  <2> QED
    BY <1>5, <2>1, <2>2
<1>8. PICK h \in [0..n -> Loops] : Recurs(h, n, a, g)
  BY <1>2, <1>6, Recursion
<1>9. ASSUME NEW i \in 0..n PROVE h[i] = IF i = 0 THEN a ELSE FileRound(last, h[i - 1])
  <2>1. CASE i = 0
    BY <1>8, <2>1 DEF Recurs
  <2>2. CASE i # 0
    <3>1. i \in 1..n /\ h[i - 1] \in Loops
      BY <2>2
    <3> QED
      BY <1>7, <1>8, <2>2, <3>1 DEF Recurs
  <2> QED
    BY <2>1, <2>2
<1>10. h = [i \in 0..n |-> IF i = 0 THEN a ELSE FileRound(last, h[i - 1])]
  BY <1>9
<1>11. a = [cur |-> b.m_cur, pos |-> b.m_position, left |-> getReadSize(b), cells |-> <<>>]
  BY <1>1 DEF Loop, getReadSize
<1>12. f = [i \in 0..n |-> IF i = 0 THEN a ELSE FileRound(last, f[i - 1])]
  BY <1>4, <1>10, <1>11 DEF LoopOf
<1>13. FileCells(b) = f[n].cells
  BY <1>4 DEF FileCells, LoopOf
<1> QED
  BY <1>1, <1>4, <1>12, <1>13

(* The cells that are written when m bytes of n are. *)
Shown(v, p, n, m) ==
    \E c \in Nat : v = Loop(c, p + m, n - m, Run(p, m)) /\ (m < n => c = ((p + m) \div BaseSize) + 1)

(* y bytes from p on: m up to the start of block c, and l in it. *)
Joins(p, m, c, z, l, y) == p + m = (c - 1) * BaseSize /\ c > 0 /\ z = 0 /\ l <= BaseSize /\ y = m + l
Joined(p, m, c, z, l, y) == Run(p, m) \o Part(c, z, l) = Run(p, y)

(* A part from the start of a block continues a run of cells. *)
LEMMA RunJoin ==
  ASSUME NEW p \in Nat, NEW m \in Nat, NEW c \in Nat, NEW z \in Nat, NEW l \in Nat, NEW y \in Nat, Joins(p, m, c, z, l, y)
  PROVE  Joined(p, m, c, z, l, y)
<1>0. PICK s, r : s = Run(p, m) /\ r = Run(p, y)
  OBVIOUS
<1>1. PICK t : t = Part(c, z, l)
  OBVIOUS
<1>2. s \in Seq(Nat \X Nat) /\ Len(s) = m /\ \A k \in 1..m : s[k] = CellOf(p + k - 1)
  BY <1>0, RunSeq
<1>3. r \in Seq(Nat \X Nat) /\ Len(r) = y /\ \A k \in 1..y : r[k] = CellOf(p + k - 1)
  BY <1>0, RunSeq
<1>4. t \in Seq(Nat \X Nat) /\ Len(t) = l /\ \A k \in 1..l : t[k] = <<c, z + k - 1>>
  <2>1. Part(c, z, l) \in Seq(Nat \X Nat) /\ Len(Part(c, z, l)) = l
    BY PartSeq
  <2>2. \A k \in 1..l : Part(c, z, l)[k] = <<c, z + k - 1>>
    BY DEF Part
  <2> QED
    BY <1>1, <2>1, <2>2
<1>5. PICK q \in Nat : c = q + 1 /\ p + m = q * BaseSize
  <2>1. c - 1 \in Nat /\ c = (c - 1) + 1 /\ p + m = (c - 1) * BaseSize
    BY DEF Joins
  <2> QED
    BY <2>1
<1>6. z = 0 /\ l <= BaseSize /\ y = m + l
  BY DEF Joins
<1>7. ASSUME NEW k \in 1..l PROVE r[m + k] = t[k]
  <2>1. PICK o \in 0..BaseSize-1 : o = k - 1
    BY <1>6, BaseSizeAssumption
  <2>2. (q * BaseSize + o) \div BaseSize = q /\ (q * BaseSize + o) % BaseSize = o
    BY DivModUnique, BaseSizeAssumption
  <2>3. m + k \in 1..y /\ p + (m + k) - 1 = q * BaseSize + o
    BY <1>5, <1>6, <2>1, BaseSizeAssumption
  <2>4. r[m + k] = CellOf(q * BaseSize + o)
    BY <1>3, <2>3
  <2>5. CellOf(q * BaseSize + o) = <<q + 1, o>>
    BY <2>2 DEF CellOf
  <2>6. z + k - 1 = o
    BY <1>6, <2>1
  <2>7. t[k] = <<c, o>>
    BY <1>4, <2>6
  <2> QED
    BY <1>5, <2>4, <2>5, <2>7
<1>8. \A k \in 1..m : r[k] = s[k]
  BY <1>2, <1>3, <1>6
<1>9. s \o t = r
  <2>1. /\ Len(r) = Len(s) + Len(t) /\ \A k \in 1..Len(s) : r[k] = s[k]
        /\ \A k \in 1..Len(t) : r[Len(s) + k] = t[k]
    BY <1>2, <1>3, <1>4, <1>6, <1>7, <1>8
  <2> QED
    BY <1>2, <1>3, <1>4, <2>1, ConcatIs
<1> QED
  BY <1>0, <1>1, <1>9 DEF Joined

(* Position p is the start of block r, and n bytes from there are within the blocks. *)
Aligned(p, r, n, last) == p = r * BaseSize /\ p + n <= BaseSize * last

(* A round from the start of a block shows the next block. *)
LEMMA FileStep ==
  ASSUME NEW last \in Nat, NEW p \in Nat, NEW n \in Nat, NEW r \in Nat, Aligned(p, r, n, last),
         NEW i \in Nat, NEW v, Shown(v, p, n, Smaller(i * BaseSize, n))
  PROVE  Shown(FileRound(last, v), p, n, Smaller((i + 1) * BaseSize, n))
<1>1. PICK x \in Nat : x = i * BaseSize /\ (i + 1) * BaseSize = x + BaseSize
  BY BaseSizeAssumption
<1>2. PICK m \in Nat : m = Smaller(x, n) /\ m <= n
  BY DEF Smaller
<1>3. PICK c \in Nat : v = Loop(c, p + m, n - m, Run(p, m)) /\ (m < n => c = ((p + m) \div BaseSize) + 1)
  BY <1>1, <1>2 DEF Shown
<1>4. PICK pos \in Nat, left \in Nat : pos = p + m /\ left = n - m
  BY <1>2
<1>5. v = Loop(c, pos, left, Run(p, m))
  BY <1>3, <1>4
<1>6. CASE m = n
  <2>1. left = 0
    BY <1>4, <1>6
  <2>2. FileRound(last, v) = v
    BY <1>5, <2>1, RoundEnds
  <2>3. Smaller(x + BaseSize, n) = m
    BY <1>2, <1>6, BaseSizeAssumption DEF Smaller
  <2>4. Shown(v, p, n, m)
    BY <1>1, <1>2
  <2> QED
    BY <1>1, <2>2, <2>3, <2>4
<1>7. CASE m < n
  <2>1. m = x
    BY <1>2, <1>7 DEF Smaller
  <2>2. PICK q \in Nat : q = r + i
    OBVIOUS
  <2>3. pos = q * BaseSize
    <3>1. q * BaseSize = r * BaseSize + i * BaseSize
      BY <2>2, BaseSizeAssumption
    <3> QED
      BY <1>1, <1>4, <2>1, <3>1 DEF Aligned
  <2>4. pos \div BaseSize = q /\ pos % BaseSize = 0
    <3>1. (q * BaseSize + 0) \div BaseSize = q /\ (q * BaseSize + 0) % BaseSize = 0
      BY BaseSizeAssumption, DivModUnique
    <3>2. pos = q * BaseSize + 0
      BY <2>3
    <3> QED
      BY <3>1, <3>2
  <2>5. c = q + 1 /\ c # Null
    BY <1>3, <1>4, <1>7, <2>4 DEF Null
  <2>6. left > 0
    BY <1>4, <1>7
  <2>7. PICK l \in Nat : l = Smaller(left, BaseSize) /\ l <= left /\ l <= BaseSize /\ l = Smaller(left, BaseSize) - 0
    BY BaseSizeAssumption DEF Smaller
  <2>8. PICK y \in Nat, q1 \in Nat, y1 \in Nat : y = m + l /\ q1 = pos + l /\ q1 = p + y /\ y1 = left - l /\ y1 = n - y
    BY <1>4, <2>7
  <2>9. PICK c1 \in Nat, z \in Nat : c1 = NextOf(last, c) /\ z = 0 /\ z = pos % BaseSize /\ l = Smaller(left, BaseSize) - z
    BY <2>4, <2>7 DEF NextOf, Null
  <2>10. FileRound(last, v) = Loop(c1, q1, y1, Run(p, m) \o Part(c, z, l))
    <3>1. Writes(last, c, pos, left, z, l, c1, q1, y1)
      BY <2>5, <2>6, <2>8, <2>9 DEF Writes
    <3>2. Written(last, c, pos, left, Run(p, m), z, l, c1, q1, y1)
      BY <3>1, RoundWrites
    <3> QED
      BY <1>5, <3>2 DEF Written
  <2>11. FileRound(last, v) = Loop(c1, p + y, n - y, Run(p, y))
    <3>1. Joins(p, m, c, z, l, y)
      <4>1. p + m = q * BaseSize /\ c - 1 = q
        BY <1>4, <2>3, <2>5
      <4> QED
        BY <2>5, <2>7, <2>8, <2>9, <4>1 DEF Joins
    <3>2. Joined(p, m, c, z, l, y)
      BY <3>1, RunJoin
    <3> QED
      BY <2>8, <2>10, <3>2 DEF Joined
  <2>12. y = Smaller(x + BaseSize, n)
    BY <1>4, <2>1, <2>7, <2>8, BaseSizeAssumption DEF Smaller
  <2>14. ASSUME y < n PROVE c1 = ((p + y) \div BaseSize) + 1
    <3>1. l = BaseSize
      BY <1>4, <2>7, <2>8, <2>14, BaseSizeAssumption DEF Smaller
    <3>2. PICK h \in Nat : h = p + y /\ h = BaseSize + pos
      BY <2>8, <3>1
    <3>3. h < BaseSize * last
      <4>1. PICK u \in Nat : u = BaseSize * last
        BY BaseSizeAssumption
      <4>2. p + n <= u
        BY <4>1 DEF Aligned
      <4> QED
        BY <2>14, <3>2, <4>1, <4>2
    <3>4. (h \div BaseSize) + 1 \in 1..last
      BY <3>3, CellWithin
    <3>5. h \div BaseSize = q + 1
      BY <2>4, <3>2, DivModNext, BaseSizeAssumption
    <3>6. c \in 1..last-1
      BY <2>5, <3>4, <3>5
    <3> QED
      BY <2>5, <2>9, <3>2, <3>5, <3>6 DEF NextOf
  <2>15. Shown(FileRound(last, v), p, n, y)
    BY <2>11, <2>14 DEF Shown
  <2> QED
    BY <1>1, <2>12, <2>15
<1> QED
  BY <1>2, <1>6, <1>7

(* From the start of a block, writeToFile writes what is left to read. *)
LEMMA FileContentIs ==
  ASSUME NEW b, Good(b), (b.m_position % BaseSize) = 0
  PROVE  FileContent(b) = Piece(b, b.m_position, b.m_size - b.m_position)
<1> USE BaseSizeAssumption
<1>1. PICK p \in Nat, n \in Nat, last \in Nat :
          /\ p = b.m_position /\ n = b.m_size - b.m_position /\ last = Len(b.nodes)
          /\ p + n <= BaseSize * last /\ b.m_capacity = BaseSize * last /\ b.m_cur = CurAt(p, last)
  <2>1. /\ b.m_position \in Nat /\ b.m_size \in Nat /\ Len(b.nodes) \in Nat /\ b.m_position <= b.m_size
        /\ b.m_size <= b.m_capacity /\ b.m_capacity = BaseSize * Len(b.nodes)
        /\ b.m_cur = CurAt(b.m_position, Len(b.nodes))
    BY GoodFields
  <2>2. b.m_size - b.m_position \in Nat /\ b.m_position + (b.m_size - b.m_position) = b.m_size
    BY <2>1
  <2> QED
    BY <2>1, <2>2
<1>2. PICK r \in Nat : p = r * BaseSize /\ p \div BaseSize = r
  <2>1. p \div BaseSize \in Nat /\ p = (p \div BaseSize) * BaseSize + (p % BaseSize)
    BY DivMod
  <2>2. PICK r \in Nat : r = p \div BaseSize
    BY <2>1
  <2>3. p = r * BaseSize + 0
    BY <1>1, <2>1, <2>2
  <2> QED
    BY <2>2, <2>3
<1>3. PICK f : f = LoopOf(b)
  OBVIOUS
<1>4. /\ f[0] = Loop(b.m_cur, p, n, <<>>) /\ \A i \in 1..last+1 : f[i] = FileRound(last, f[i - 1])
      /\ FileCells(b) = f[last + 1].cells
  <2>1. FileRounds(b, last, f)
    BY <1>1, <1>3, LoopIs
  <2> QED
    BY <1>1, <2>1 DEF FileRounds
<1> DEFINE Ok(i) == Shown(f[i], p, n, Smaller(i * BaseSize, n))
           Bad == {i \in Nat : i <= last + 1 /\ ~Ok(i)}
<1>5. Ok(0)
  <2>1. Smaller(0 * BaseSize, n) = 0
    BY DEF Smaller
  <2>2. Run(p, 0) = <<>>
    BY RunSeq, EmptySeq
  <2>3. b.m_cur \in Nat
    BY GoodInArrays DEF Arrays
  <2>4. ASSUME 0 < n PROVE b.m_cur = (p \div BaseSize) + 1
    <3>1. p # BaseSize * last
      BY <1>1, <2>4
    <3> QED
      BY <1>1, <3>1 DEF CurAt
  <2>5. PICK z \in Nat : z = 0 /\ p + z = p /\ n - z = n
    OBVIOUS
  <2>6. f[0] = Loop(b.m_cur, p + z, n - z, Run(p, z)) /\ (z < n => b.m_cur = ((p + z) \div BaseSize) + 1)
    BY <1>4, <2>2, <2>4, <2>5
  <2>7. Shown(f[0], p, n, z)
    BY <2>3, <2>6 DEF Shown
  <2> QED
    BY <2>1, <2>5, <2>7
<1>6. ASSUME NEW i \in Nat, i <= last, Ok(i) PROVE Ok(i + 1)
  <2>1. i + 1 \in 1..last+1 /\ (i + 1) - 1 = i
    BY <1>6
  <2>2. f[i + 1] = FileRound(last, f[i])
    BY <1>4, <2>1
  <2>3. Shown(FileRound(last, f[i]), p, n, Smaller((i + 1) * BaseSize, n))
    <3>1. Aligned(p, r, n, last)
      BY <1>1, <1>2 DEF Aligned
    <3> QED
      BY <1>6, <3>1, FileStep
  <2> QED
    BY <2>2, <2>3
<1> HIDE DEF Ok
<1>7. Bad = {}
  <2> SUFFICES ASSUME Bad # {} PROVE FALSE
    OBVIOUS
  <2>1. PICK k \in Bad : \A j \in Bad : k <= j
    BY LeastElement
  <2>2. k \in Nat /\ k <= last + 1 /\ ~Ok(k) /\ \A j \in Nat : j < k => Ok(j)
    BY <2>1
  <2>3. k # 0
    BY <1>5, <2>2
  <2>4. PICK j \in Nat : k = j + 1
    BY <2>2, <2>3
  <2>5. Ok(j) /\ j <= last
    BY <2>2, <2>4
  <2> QED
    BY <1>6, <2>2, <2>4, <2>5
<1>8. PICK e \in Nat : e = last + 1
  OBVIOUS
<1>9. Ok(e)
  BY <1>7, <1>8
<1>10. Smaller(e * BaseSize, n) = n
  <2>1. e * BaseSize = BaseSize * last + BaseSize
    BY <1>8
  <2>2. n <= e * BaseSize
    BY <1>1, <2>1
  <2> QED
    BY <2>2 DEF Smaller
<1>11. Shown(f[e], p, n, n)
  BY <1>9, <1>10 DEF Ok
<1>12. PICK c : f[e] = Loop(c, p + n, n - n, Run(p, n))
  BY <1>11 DEF Shown
<1>13. FileCells(b) = Run(p, n)
  BY <1>4, <1>8, <1>12, LoopFields
<1>14. ~MeetsNull(Run(p, n))
  BY <1>1, RunWithin
<1>15. Gather(b, Run(p, n)) = Piece(b, p, n)
  BY <1>1, GatherIs
<1> QED
  BY <1>1, <1>13, <1>14, <1>15 DEF FileContent

(* getReadBuffers from m_cur and from m_root, toString and, from the start of a
   block, writeToFile show the same bytes in every reachable state. *)
THEOREM ViewsAgreeCorrect == Spec => []ViewsAgree
<1>1. Inv => ViewsAgree
  <2> SUFFICES ASSUME Inv PROVE ViewsAgree
    OBVIOUS
  <2>1. Good(ba) /\ ba.m_size <= MaxSize /\ MaxSize \in Nat
    BY ProgramAssumption DEF Inv, Bounded
  <2>2. PICK p \in Nat, s \in Nat, n \in Nat, last \in Nat :
            /\ p = ba.m_position /\ s = ba.m_size /\ n = s - p /\ last = Len(ba.nodes)
            /\ p + n <= BaseSize * last /\ n <= MaxSize
    <3>1. /\ ba.m_position \in Nat /\ ba.m_size \in Nat /\ Len(ba.nodes) \in Nat /\ ba.m_position <= ba.m_size
          /\ ba.m_size <= ba.m_capacity /\ ba.m_capacity = BaseSize * Len(ba.nodes)
      BY <2>1, GoodFields
    <3>2. /\ ba.m_size - ba.m_position \in Nat /\ ba.m_position + (ba.m_size - ba.m_position) = ba.m_size
          /\ ba.m_size - ba.m_position <= MaxSize
      BY <2>1, <3>1
    <3> QED
      BY <3>1, <3>2
  <2>3. n = Smaller(MaxSize, ba.m_size - ba.m_position)
    BY <2>1, <2>2 DEF Smaller
  <2>4. toString(ba) = Piece(ba, p, n)
    BY <2>1, <2>2, ToStringIs
  <2>5. getReadBuffers(ba, MaxSize) = Run(p, n) /\ Gather(ba, getReadBuffers(ba, MaxSize)) = Piece(ba, p, n)
    BY <2>1, <2>2, <2>3, ReadBuffersAre
  <2>6. getReadBuffersAt(ba, MaxSize, p) = Run(p, n)
    <3>1. PICK x \in Int, y \in Int : x = MaxSize /\ y = ba.m_size - ba.m_position
      BY <2>1, <2>2
    <3>2. Min({MaxSize, getReadSize(ba)}) = n
      BY <2>3, <3>1, MaxMin DEF getReadSize
    <3>3. Cells[<<last, (p \div BaseSize) + 1, p % BaseSize, n>>] = Run(p, n)
      <4>1. p + n <= BaseSize * last
        BY <2>2
      <4> QED
        BY <4>1, CellsFrom
    <3> QED
      BY <2>2, <3>2, <3>3 DEF getReadBuffersAt
  <2>7. (p % BaseSize) = 0 => FileContent(ba) = Piece(ba, p, n)
    BY <2>1, <2>2, FileContentIs
  <2> QED
    BY <2>2, <2>4, <2>5, <2>6, <2>7 DEF ViewsAgree
<1> QED
  BY <1>1, Invariant, PTL

-----------------------------------------------------------------------------
(* What is written is read back. *)

(* The values of n bytes are even, and enough for a group. *)
LEMMA ValuesAre ==
  ASSUME NEW n \in {1, 2, 4, 8}
  PROVE  \E h \in Nat \ {0} : Values(n) = 2 * h /\ Values(n) \div 2 = h /\ Group <= h
<1>1. PICK m \in Nat : n = m + 1
  <2>1. n \in Nat \ {0}
    OBVIOUS
  <2>2. n - 1 \in Nat /\ n = (n - 1) + 1
    BY <2>1
  <2> QED
    BY <2>2
<1>2. PICK c \in Nat \ {0} : c = Values(m) /\ Values(n) = Base * c
  BY <1>1, BaseIs
<1>3. PICK g \in Nat \ {0} : g = Group /\ Base = 2 * g
  BY GroupIs
<1>4. PICK h \in Nat : h = g * c
  OBVIOUS
<1>5. h # 0
  BY <1>4, TimesPos
<1>6. (2 * g) * c = 2 * h
  BY <1>4
<1>7. g * 1 <= g * c
  BY TimesMono
<1>8. (h * 2 + 0) \div 2 = h
  BY DivModUnique
<1>9. h * 2 + 0 = 2 * h
  OBVIOUS
<1> QED
  BY <1>2, <1>3, <1>4, <1>5, <1>6, <1>7, <1>8, <1>9

(* The numbers of RoundTrip are numbers of their types. *)
LEMMA EdgesValid ==
  ASSUME NEW n \in {1, 2, 4, 8}, NEW x \in Edges(n)
  PROVE  Valid(x) /\ x.n = n
<1>1. PICK h \in Nat \ {0} : Values(n) = 2 * h /\ Values(n) \div 2 = h /\ Group <= h
  BY ValuesAre
<1>2. PICK v : \/ x = [kind |-> "F", n |-> n, v |-> v] /\ v \in {1, Values(n) - 1}
               \/ x = [kind |-> "S", n |-> n, v |-> v] /\ v \in {-(Values(n) \div 2), -1, Values(n) \div 2 - 1}
               \/ x = [kind |-> "V", n |-> n, v |-> v] /\ v \in {0, Group, Values(n) - 1}
               \/ x = [kind |-> "Z", n |-> n, v |-> v] /\ v \in {-(Values(n) \div 2), -1, Values(n) \div 2 - 1}
  BY DEF Edges
<1>3. Group \in Nat /\ n \in Nat \ {0}
  BY GroupIs
<1>4. CASE x = [kind |-> "F", n |-> n, v |-> v] /\ v \in {1, Values(n) - 1}
  <2>1. v \in 0..2 * h - 1
    BY <1>1, <1>4
  <2>2. x.kind = "F" /\ x.n = n /\ x.v = v
    BY <1>4
  <2>3. InRange(x)
    BY <1>1, <2>1, <2>2 DEF InRange
  <2> QED
    BY <1>3, <2>2, <2>3 DEF Valid
<1>5. CASE x = [kind |-> "V", n |-> n, v |-> v] /\ v \in {0, Group, Values(n) - 1}
  <2>1. v \in 0..2 * h - 1
    BY <1>1, <1>3, <1>5
  <2>2. x.kind = "V" /\ x.n = n /\ x.v = v
    BY <1>5
  <2>3. InRange(x)
    BY <1>1, <2>1, <2>2 DEF InRange
  <2> QED
    BY <1>3, <2>2, <2>3 DEF Valid
<1>6. ASSUME NEW k \in {"S", "Z"}, x = [kind |-> k, n |-> n, v |-> v], v \in {-(Values(n) \div 2), -1, Values(n) \div 2 - 1}
      PROVE  Valid(x) /\ x.n = n
  <2>1. v \in -h..h - 1
    BY <1>1, <1>6
  <2>2. x.kind = k /\ x.n = n /\ x.v = v
    BY <1>6
  <2>3. InRange(x)
    BY <1>1, <2>1, <2>2 DEF InRange
  <2> QED
    BY <1>3, <2>2, <2>3 DEF Valid
<1> QED
  BY <1>2, <1>4, <1>5, <1>6

(* Decoding what was encoded, with the array's byte order. *)
LEMMA NumberDecodes ==
  ASSUME NEW b, Good(b), NEW x, Valid(x)
  PROVE  NumberOf(b, x.kind, x.n, NumberBytes(b, x)) = x.v
<1>1. b.m_endian \in {LITTLE, BIG} /\ SYLAR_BYTE_ORDER \in {LITTLE, BIG}
  BY GoodFields, OrderAssumption
<1>2. PICK bytes \in Seq(Byte) : bytes = NumberBytes(b, x)
  BY NumberBytesIs
<1>3. x.n \in Nat /\ x.kind \in {"F", "S", "V", "Z"}
  BY DEF Valid
<1>4. CASE x.kind \in {"F", "S"}
  <2>1. PICK u \in Nat : u = Unsigned(x.v, x.n) /\ u < Values(x.n)
    BY <1>4, Ranges
  <2>2. PICK s : s = LittleBytes(u, x.n)
    OBVIOUS
  <2>3. s \in Seq(Byte) /\ Number(Base, s) = u
    BY <1>3, <2>1, <2>2, LittleIs
  <2>4. bytes = IF b.m_endian = LITTLE THEN s ELSE Reverse(s)
    BY <1>2, <1>4, <2>1, <2>2, NumberBytesIs
  <2>5. Reverse(Reverse(s)) = s
    BY <2>3, ReverseTwice
  <2>6. DecodeFixed(SYLAR_BYTE_ORDER, b.m_endian, bytes) = Number(Base, IF b.m_endian = LITTLE THEN bytes ELSE Reverse(bytes))
    BY <1>1, FixedIs
  <2>7. DecodeFixed(SYLAR_BYTE_ORDER, b.m_endian, bytes) = u
    BY <2>3, <2>4, <2>5, <2>6
  <2>8. CASE x.kind = "F"
    BY <1>2, <2>1, <2>7, <2>8, Ranges DEF NumberOf
  <2>9. CASE x.kind = "S"
    BY <1>2, <2>1, <2>7, <2>9, Ranges DEF NumberOf
  <2> QED
    BY <1>4, <2>8, <2>9
<1>5. CASE x.kind = "V"
  <2>1. PICK v \in Nat : v = x.v /\ v < Values(x.n)
    BY <1>5, Ranges
  <2>2. bytes = Varint(v, VLen(v))
    BY <1>2, <1>5, <2>1, NumberBytesIs
  <2>3. DecodeVarint(bytes, x.n) = v
    BY <1>3, <2>1, <2>2, DecodeVarintIs
  <2> QED
    BY <1>2, <1>5, <2>1, <2>3 DEF NumberOf
<1>6. CASE x.kind = "Z"
  <2>1. PICK v \in Nat : v = EncodeZigzag(x.v) /\ v < Values(x.n) /\ DecodeZigzag(v) = x.v
    BY <1>6, Ranges
  <2>2. bytes = Varint(v, VLen(v))
    BY <1>2, <1>6, <2>1, NumberBytesIs
  <2>3. DecodeVarint(bytes, x.n) = v
    BY <1>3, <2>1, <2>2, DecodeVarintIs
  <2> QED
    BY <1>2, <1>6, <2>1, <2>3 DEF NumberOf
<1> QED
  BY <1>3, <1>4, <1>5, <1>6

(* Hosts of different byte order agree on what travels. *)
LEMMA HostsAgree ==
  ASSUME NEW endian \in {LITTLE, BIG}, NEW x, Valid(x), x.kind \in {"F", "S"}
  PROVE  DecodeFixed(BIG, endian, EncodeFixed(LITTLE, endian, x.v, x.n)) = Unsigned(x.v, x.n)
<1>1. x.n \in Nat /\ x.v \in Int
  BY Ranges DEF Valid
<1>2. PICK u \in Nat : u = Unsigned(x.v, x.n) /\ u < Values(x.n)
  BY Ranges
<1>3. PICK s : s = LittleBytes(u, x.n)
  OBVIOUS
<1>4. s \in Seq(Byte) /\ Number(Base, s) = u
  BY <1>1, <1>2, <1>3, LittleIs
<1>5. Reverse(s) \in Seq(Byte) /\ Reverse(Reverse(s)) = s
  BY <1>4, ReverseTwice
<1>6. PICK bytes \in Seq(Byte) : bytes = IF endian = LITTLE THEN s ELSE Reverse(s)
  BY <1>4, <1>5
<1>7. EncodeFixed(LITTLE, endian, x.v, x.n) = bytes
  BY <1>1, <1>2, <1>3, <1>6, FixedIs
<1>8. DecodeFixed(BIG, endian, bytes) = Number(Base, IF endian = LITTLE THEN bytes ELSE Reverse(bytes))
  BY FixedIs
<1> QED
  BY <1>2, <1>4, <1>5, <1>6, <1>7, <1>8

-----------------------------------------------------------------------------
(* What is read behind a write. *)

(* The bytes are the next ones to be read. *)
Holds(g, bytes) ==
    /\ g.m_position + Len(bytes) <= g.m_size
    /\ \A k \in 1..Len(bytes) : ByteAt(g, g.m_position + k - 1) = bytes[k]

(* As a piece of the array. *)
LEMMA HoldsPiece ==
  ASSUME NEW g, Good(g), NEW bytes \in Seq(Byte), Holds(g, bytes)
  PROVE  Piece(g, g.m_position, Len(bytes)) = bytes
<1>1. PICK p \in Nat, n \in Nat : p = g.m_position /\ n = Len(bytes) /\ p + n <= g.m_capacity
  <2>1. g.m_position \in Nat /\ g.m_size \in Nat /\ g.m_capacity \in Nat /\ g.m_size <= g.m_capacity
    BY GoodFields
  <2>2. Len(bytes) \in Nat
    BY LenProperties
  <2> QED
    BY <2>1, <2>2 DEF Holds
<1>2. PICK s : s = Piece(g, p, n)
  OBVIOUS
<1>3. s \in Seq(Byte) /\ Len(s) = n /\ \A k \in 1..n : s[k] = ByteAt(g, p + k - 1)
  <2>1. IsPiece(s, g, p, n)
    BY <1>1, <1>2, PieceIs
  <2> QED
    BY <2>1 DEF IsPiece
<1>4. \A k \in 1..n : s[k] = bytes[k]
  BY <1>1, <1>3 DEF Holds
<1> QED
  BY <1>1, <1>2, <1>3, <1>4, SeqEqual

(* read() of so many bytes takes them. *)
LEMMA HoldsRead ==
  ASSUME NEW g, Good(g), NEW bytes \in Seq(Byte), Holds(g, bytes), bytes # <<>>, NEW r, r = read(g, Len(bytes))
  PROVE  Shifted(g, r.ba, g.m_position + Len(bytes), g.m_size) /\ r.out = bytes
<1>1. PICK n \in Nat : n = Len(bytes) /\ n > 0
  BY LenProperties, EmptySeq
<1>2. g.m_position \in Nat /\ g.m_size \in Nat
  BY GoodFields
<1>3. n <= getReadSize(g)
  BY <1>1, <1>2 DEF Holds, getReadSize
<1>4. Shifted(g, read(g, n).ba, g.m_position + n, g.m_size) /\ read(g, n).out = Piece(g, g.m_position, n)
  BY <1>1, <1>3, ReadIs
<1> QED
  BY <1>1, <1>4, HoldsPiece

(* A varint is read as far as it was written. *)
LEMMA VarintTaken ==
  ASSUME NEW g, Good(g), NEW v \in Nat, NEW n \in Nat \ {0}, v < Values(n), NEW bytes \in Seq(Byte),
         bytes = Varint(v, VLen(v)), Holds(g, bytes), NEW r, r = readVarint(g, n)
  PROVE  Shifted(g, r.ba, g.m_position + Len(bytes), g.m_size) /\ r.out = bytes
<1>1. PICK m \in Nat \ {0} : m = VLen(v)
  BY NeedsWithin
<1>2. Len(bytes) = m
  BY <1>1, VarintSeq
<1>3. bytes # <<>>
  BY <1>1, <1>2
<1>4. PICK rest \in Seq(Byte) : rest = toString(g)
  BY ToStringIs
<1>5. PICK p \in Nat, left \in Nat : p = g.m_position /\ left = g.m_size - p /\ g.m_size \in Nat /\ g.m_size <= g.m_capacity
                                     /\ g.m_capacity \in Nat
  <2>1. g.m_position \in Nat /\ g.m_size \in Nat /\ g.m_position <= g.m_size /\ g.m_size <= g.m_capacity /\ g.m_capacity \in Nat
    BY GoodFields
  <2>2. g.m_size - g.m_position \in Nat
    BY <2>1
  <2> QED
    BY <2>1, <2>2
<1>6. rest = Piece(g, p, left) /\ Len(rest) = left
  BY <1>4, <1>5, ToStringIs
<1>7. p + left <= g.m_capacity
  BY <1>5
<1>8. \A k \in 1..left : rest[k] = ByteAt(g, p + k - 1)
  BY <1>6, <1>7, GatherIs
<1>9. m <= left /\ \A k \in 1..m : ByteAt(g, p + k - 1) = bytes[k]
  BY <1>2, <1>5 DEF Holds
<1>10. Len(rest) >= VLen(v) /\ \A k \in 1..VLen(v) : rest[k] = Varint(v, VLen(v))[k]
  BY <1>1, <1>6, <1>8, <1>9
<1>11. VarintLen(rest, n) = VLen(v)
  BY <1>10, VarintLenIs
<1>12. ~(m > Len(rest))
  BY <1>6, <1>9
<1>13. readVarint(g, n) = read(g, m)
  BY <1>1, <1>4, <1>11, <1>12 DEF readVarint
<1> QED
  BY <1>2, <1>3, <1>13, HoldsRead

(* A number is taken as it was written, *)
LEMMA NumberTaken ==
  ASSUME NEW g, Good(g), NEW x, Valid(x), NEW bytes \in Seq(Byte), bytes = NumberBytes(g, x), Holds(g, bytes),
         NEW r, r = readNumber(g, x.kind, x.n)
  PROVE  Shifted(g, r.ba, g.m_position + Len(bytes), g.m_size) /\ r.out = bytes
<1>1. x.n \in Nat \ {0} /\ x.kind \in {"F", "S", "V", "Z"}
  BY DEF Valid
<1>2. CASE x.kind \in {"F", "S"}
  <2>1. Len(bytes) = x.n
    BY <1>2, NumberBytesIs
  <2>2. bytes # <<>>
    BY <1>1, <2>1
  <2>3. r = read(g, Len(bytes))
    BY <1>2, <2>1 DEF readNumber
  <2> QED
    BY <2>2, <2>3, HoldsRead
<1>3. CASE x.kind = "V"
  <2>1. PICK v \in Nat : v = x.v /\ v < Values(x.n)
    BY <1>3, Ranges
  <2>2. bytes = Varint(v, VLen(v))
    BY <1>3, <2>1, NumberBytesIs
  <2>3. r = readVarint(g, x.n)
    BY <1>3 DEF readNumber
  <2> QED
    BY <1>1, <2>1, <2>2, <2>3, VarintTaken
<1>4. CASE x.kind = "Z"
  <2>1. PICK v \in Nat : v = EncodeZigzag(x.v) /\ v < Values(x.n)
    BY <1>4, Ranges
  <2>2. bytes = Varint(v, VLen(v))
    BY <1>4, <2>1, NumberBytesIs
  <2>3. r = readVarint(g, x.n)
    BY <1>4 DEF readNumber
  <2> QED
    BY <1>1, <2>1, <2>2, <2>3, VarintTaken
<1> QED
  BY <1>1, <1>2, <1>3, <1>4

(* What was written is what is next behind setPosition() to where it was written. *)
LEMMA WriteHolds ==
  ASSUME NEW b, Good(b), NEW bytes \in Seq(Byte), NEW w, Wrote(b, w, bytes), NEW g, g = setPosition(w, b.m_position).ba
  PROVE  Shifted(w, g, b.m_position, w.m_size) /\ Holds(g, bytes)
<1>1. PICK p \in Nat, n \in Nat, s \in Nat : p = b.m_position /\ n = Len(bytes) /\ s = b.m_size
  BY GoodFields, LenProperties
<1>2. Good(w) /\ w.m_position = p + n /\ \A k \in 1..n : ByteAt(w, p + k - 1) = bytes[k]
  BY <1>1 DEF Wrote
<1>3. PICK t \in Nat, c \in Nat : t = w.m_size /\ c = w.m_capacity /\ p + n <= t /\ t <= c
  BY <1>2, GoodFields
<1>4. p <= c /\ Greater(p, t) = t
  BY <1>3 DEF Greater
<1>5. Shifted(w, g, p, t)
  BY <1>1, <1>2, <1>3, <1>4, SetPositionIs
<1>6. Good(g) /\ g.m_position = p /\ g.m_size = t /\ g.nodes = w.nodes
  BY <1>5 DEF Shifted
<1>7. \A k \in 1..n : ByteAt(g, p + k - 1) = bytes[k]
  BY <1>2, <1>6, ByteAtIs
<1>8. Holds(g, bytes)
  BY <1>1, <1>3, <1>6, <1>7 DEF Holds
<1> QED
  BY <1>1, <1>3, <1>5, <1>8

(* Moving the cursor there and back. *)
LEMMA ShiftBack ==
  ASSUME NEW w, Good(w), NEW g, NEW p, Shifted(w, g, p, w.m_size), NEW c, Shifted(g, c, w.m_position, g.m_size)
  PROVE  c = w
<1>1. g.m_size = w.m_size /\ g.m_endian = w.m_endian /\ g.nodes = w.nodes /\ g.wild = w.wild
  BY DEF Shifted
<1>2. /\ Good(c) /\ c.m_position = w.m_position /\ c.m_size = w.m_size /\ c.m_endian = w.m_endian
      /\ c.nodes = w.nodes /\ c.wild = w.wild
  BY <1>1 DEF Shifted
<1> QED
  BY <1>2, GoodEqual

(* What is written of a number is a matter of the byte order only. *)
LEMMA NumberBytesSame ==
  ASSUME NEW b, NEW g, g.m_endian = b.m_endian, NEW x
  PROVE  NumberBytes(g, x) = NumberBytes(b, x)
BY DEF NumberBytes

(* and so is how it is decoded. *)
LEMMA NumberOfSame ==
  ASSUME NEW b, NEW g, g.m_endian = b.m_endian, NEW kind, NEW n, NEW bytes
  PROVE  NumberOf(g, kind, n, bytes) = NumberOf(b, kind, n, bytes)
BY DEF NumberOf

(* A number that is written anywhere is read back from there. *)
LEMMA NumberReturns ==
  ASSUME NEW b, Good(b), NEW x, Valid(x), NEW w, w = writeNumber(b, x),
         NEW r, r = readNumber(setPosition(w, b.m_position).ba, x.kind, x.n)
  PROVE  r.ba = w /\ NumberOf(b, x.kind, x.n, r.out) = x.v
<1>1. PICK bytes \in Seq(Byte) : bytes = NumberBytes(b, x)
  BY NumberBytesIs
<1>2. Wrote(b, w, bytes)
  BY <1>1, WriteIs DEF writeNumber
<1>3. PICK g : g = setPosition(w, b.m_position).ba
  OBVIOUS
<1>4. Shifted(w, g, b.m_position, w.m_size) /\ Holds(g, bytes)
  BY <1>2, <1>3, WriteHolds
<1>5. Good(w) /\ w.m_position = b.m_position + Len(bytes) /\ w.m_endian = b.m_endian
  BY <1>2 DEF Wrote
<1>6. Good(g) /\ g.m_position = b.m_position /\ g.m_size = w.m_size /\ g.m_endian = b.m_endian
  BY <1>4, <1>5 DEF Shifted
<1>7. bytes = NumberBytes(g, x)
  BY <1>1, <1>6, NumberBytesSame
<1>8. r = readNumber(g, x.kind, x.n)
  BY <1>3
<1>9. Shifted(g, r.ba, g.m_position + Len(bytes), g.m_size) /\ r.out = bytes
  BY <1>4, <1>6, <1>7, <1>8, NumberTaken
<1>10. Shifted(g, r.ba, w.m_position, g.m_size)
  BY <1>5, <1>6, <1>9
<1>11. r.ba = w
  BY <1>4, <1>5, <1>10, ShiftBack
<1>12. NumberOf(b, x.kind, x.n, bytes) = x.v
  BY <1>1, NumberDecodes
<1> QED
  BY <1>9, <1>11, <1>12

(* The strings of RoundTrip are strings, one of them for each length. *)
LEMMA StringsAre ==
  ASSUME NEW str \in Strings
  PROVE  str \in Seq(Byte)
<1>1. PICK l : l \in {0, Values(2) - 1, Values(2)} /\ str = [i \in 1..l |-> i % Base]
  BY DEF Strings
<1>2. Values(2) \in Nat \ {0} /\ Base \in Nat \ {0}
  BY BaseIs
<1>3. l \in Nat
  BY <1>1, <1>2
<1>4. ASSUME NEW i \in 1..l PROVE i % Base \in Byte
  <2>1. i \in Nat
    BY <1>3
  <2> QED
    BY <1>2, <2>1, DivMod DEF Byte
<1>5. str \in [1..l -> Byte]
  BY <1>1, <1>4
<1> QED
  BY <1>3, <1>5, SeqOfFn

(* The length a string is read with: its own, if the field holds it, and else a smaller one. *)
LEMMA LengthRead ==
  ASSUME NEW k \in LengthKinds, NEW str \in Seq(Byte), NEW x, x = LengthField(k, str)
  PROVE  /\ Valid(x) /\ x.kind = k[1] /\ x.n = k[2] /\ x.v \in Nat /\ Values(k[2]) \in Nat \ {0}
         /\ Len(str) < Values(k[2]) => x.v = Len(str)
         /\ Len(str) >= Values(k[2]) => x.v < Len(str)
<1>1. Valid(x)
  BY LengthFieldIs
<1>2. x.kind = k[1] /\ x.n = k[2] /\ x.v = Len(str) % Values(k[2])
  BY DEF LengthField
<1>3. k[2] \in Nat
  BY DEF LengthKinds
<1>4. PICK c \in Nat \ {0} : c = Values(k[2])
  BY <1>3, BaseIs
<1>5. PICK n \in Nat : n = Len(str)
  BY LenProperties
<1>6. n % c \in 0..c-1
  BY DivMod
<1>7. ASSUME n < c PROVE n % c = n
  <2>1. (0 * c + n) % c = n
    BY <1>7, DivModUnique
  <2>2. 0 * c + n = n
    OBVIOUS
  <2> QED
    BY <2>1, <2>2
<1> QED
  BY <1>1, <1>2, <1>4, <1>5, <1>6, <1>7

(* What follows bytes that are held. *)
LEMMA HoldsRest ==
  ASSUME NEW g, Good(g), NEW s \in Seq(Byte), NEW t \in Seq(Byte), Holds(g, s \o t)
  PROVE  /\ Holds(g, s)
         /\ \A c : Shifted(g, c, g.m_position + Len(s), g.m_size) => Holds(c, t)
<1>1. PICK m \in Nat, n \in Nat, p \in Nat, z \in Nat : m = Len(s) /\ n = Len(t) /\ p = g.m_position /\ z = g.m_size
  BY GoodFields, LenProperties
<1>2. PICK u : u = s \o t
  OBVIOUS
<1>3. Len(u) = m + n /\ \A i \in 1..m+n : u[i] = IF i <= m THEN s[i] ELSE t[i - m]
  BY <1>1, <1>2, ConcatProperties
<1>4. p + (m + n) <= z /\ \A k \in 1..m+n : ByteAt(g, p + k - 1) = u[k]
  BY <1>1, <1>2, <1>3 DEF Holds
<1>5. ASSUME NEW k \in 1..m PROVE ByteAt(g, p + k - 1) = s[k]
  BY <1>3, <1>4
<1>6. p + m <= z
  BY <1>4
<1>7. Holds(g, s)
  BY <1>1, <1>5, <1>6 DEF Holds
<1>8. ASSUME NEW c, Shifted(g, c, p + m, z) PROVE Holds(c, t)
  <2>1. c.m_position = p + m /\ c.m_size = z /\ c.nodes = g.nodes
    BY <1>8 DEF Shifted
  <2>2. ASSUME NEW k \in 1..n PROVE ByteAt(c, (p + m) + k - 1) = t[k]
    <3>1. PICK i \in 1..m+n : i = m + k /\ ~(i <= m) /\ i - m = k
      OBVIOUS
    <3>2. ByteAt(g, p + i - 1) = t[k]
      BY <1>3, <1>4, <3>1
    <3>3. p + i - 1 = (p + m) + k - 1
      BY <3>1
    <3> QED
      BY <2>1, <3>2, <3>3, ByteAtIs
  <2>3. (p + m) + n <= z
    BY <1>4
  <2> QED
    BY <1>1, <2>1, <2>2, <2>3 DEF Holds
<1> QED
  BY <1>1, <1>7, <1>8

(* Appending sequences of different lengths gives different sequences. *)
LEMMA OtherLength ==
  ASSUME NEW f \in Seq(Byte), NEW s \in Seq(Byte), NEW t \in Seq(Byte), Len(s) < Len(t)
  PROVE  f \o s # f \o t
<1>1. Len(f) \in Nat /\ Len(s) \in Nat /\ Len(t) \in Nat
  BY LenProperties
<1>2. Len(f \o s) = Len(f) + Len(s)
  BY ConcatProperties
<1>3. Len(f \o t) = Len(f) + Len(t)
  BY ConcatProperties
<1> QED
  BY <1>1, <1>2, <1>3

(* c is w with the cursor behind the length field f, where readString, which ends as r, *)
(* reads v bytes.                                                                     *)
Behind(b, c, str, v, f, w, r) ==
    /\ Good(c) /\ Holds(c, str) /\ c.wild = b.wild /\ w.wild = b.wild
    /\ c.m_position + Len(str) = w.m_position /\ c.m_size = w.m_size
    /\ r = Read(read(c, v).ba, IF Fails(read(c, v)) THEN read(c, v).out ELSE f \o read(c, v).out)
    /\ \A d : Shifted(c, d, w.m_position, c.m_size) => d = w

(* The string is read back exactly when its length fits the field and no null pointer is followed. *)
Returns(f, str, k, w, r) ==
    (r.ba = w /\ r.out = f \o str) <=>
        Len(str) < Values(k[2]) /\ (str # <<>> \/ w.m_position < w.m_capacity)

(* The length field of a string is read as it was written. *)
LEMMA StringField ==
  ASSUME NEW b, Good(b), NEW k \in LengthKinds, NEW str \in Seq(Byte), NEW x, x = LengthField(k, str),
         NEW f \in Seq(Byte), f = NumberBytes(b, x), NEW w, w = writeString(b, k, str),
         NEW r, r = readString(setPosition(w, b.m_position).ba, k)
  PROVE  \E c : Behind(b, c, str, x.v, f, w, r)
<1>1. Valid(x) /\ x.kind = k[1] /\ x.n = k[2] /\ x.v \in Nat
  BY LengthRead
<1>2. PICK bytes \in Seq(Byte) : bytes = f \o str
  BY WriteStringIs
<1>3. Wrote(b, w, bytes)
  BY <1>2, WriteStringIs
<1>4. PICK p \in Nat, m \in Nat, n \in Nat : p = b.m_position /\ m = Len(f) /\ n = Len(str)
  BY GoodFields, LenProperties
<1>5. Len(bytes) = m + n
  BY <1>2, <1>4, ConcatProperties
<1>6. Good(w) /\ w.m_position = p + (m + n) /\ w.m_endian = b.m_endian /\ w.wild = b.wild
  BY <1>3, <1>4, <1>5 DEF Wrote
<1>7. PICK g : g = setPosition(w, b.m_position).ba
  OBVIOUS
<1>8. Shifted(w, g, p, w.m_size) /\ Holds(g, bytes)
  BY <1>3, <1>4, <1>7, WriteHolds
<1>9. /\ Good(g) /\ g.m_position = p /\ g.m_size = w.m_size /\ g.m_endian = b.m_endian /\ g.nodes = w.nodes
      /\ g.wild = b.wild
  BY <1>6, <1>8 DEF Shifted
<1>10. Holds(g, f) /\ \A c : Shifted(g, c, p + m, g.m_size) => Holds(c, str)
  BY <1>2, <1>4, <1>8, <1>9, HoldsRest
<1>11. f = NumberBytes(g, x)
  BY <1>9, NumberBytesSame
<1>12. PICK l : l = readNumber(g, k[1], k[2])
  OBVIOUS
<1>13. Shifted(g, l.ba, p + m, g.m_size) /\ l.out = f
  BY <1>1, <1>4, <1>9, <1>10, <1>11, <1>12, NumberTaken
<1>14. PICK c : c = l.ba
  OBVIOUS
<1>15. NumberOf(g, k[1], k[2], f) = x.v
  BY <1>1, <1>9, <1>11, NumberDecodes
<1>16. ~Fails(l)
  BY <1>13, PieceNoError DEF Fails
<1>17. PICK s : s = read(c, x.v)
  OBVIOUS
<1>18. r = Read(s.ba, IF Fails(s) THEN s.out ELSE f \o s.out)
  <2>1. r = readString(g, k)
    BY <1>7
  <2> QED
    BY <1>12, <1>13, <1>14, <1>15, <1>16, <1>17, <2>1 DEF readString
<1>19. /\ Good(c) /\ c.m_position = p + m /\ c.m_size = w.m_size /\ c.m_endian = b.m_endian /\ c.nodes = w.nodes
       /\ c.wild = b.wild
  BY <1>9, <1>13, <1>14 DEF Shifted
<1>20. Holds(c, str)
  BY <1>10, <1>13, <1>14
<1>21. c.m_position + Len(str) = w.m_position
  BY <1>4, <1>6, <1>19
<1>22. ASSUME NEW d, Shifted(c, d, w.m_position, c.m_size) PROVE d = w
  <2>1. Shifted(w, c, p + m, w.m_size)
    BY <1>6, <1>19 DEF Shifted
  <2> QED
    BY <1>6, <1>22, <2>1, ShiftBack
<1> QED
  BY <1>6, <1>17, <1>18, <1>19, <1>20, <1>21, <1>22 DEF Behind

(* A string that is written anywhere is read back from there, or not, as Returns says. *)
LEMMA StringReturns ==
  ASSUME NEW b, Good(b), b.wild = FALSE, NEW k \in LengthKinds, NEW str \in Seq(Byte), NEW x, x = LengthField(k, str),
         NEW f \in Seq(Byte), f = NumberBytes(b, x), NEW w, w = writeString(b, k, str),
         NEW r, r = readString(setPosition(w, b.m_position).ba, k)
  PROVE  Returns(f, str, k, w, r)
<1>0. PICK c : Behind(b, c, str, x.v, f, w, r)
  BY StringField
<1>2. PICK s : s = read(c, x.v)
  OBVIOUS
<1>1. /\ Good(c) /\ Holds(c, str) /\ c.wild = b.wild /\ w.wild = b.wild
      /\ c.m_position + Len(str) = w.m_position /\ c.m_size = w.m_size
      /\ r = Read(s.ba, IF Fails(s) THEN s.out ELSE f \o s.out)
      /\ \A d : Shifted(c, d, w.m_position, c.m_size) => d = w
  BY <1>0, <1>2 DEF Behind
<1>3. r.ba = s.ba /\ r.out = IF Fails(s) THEN s.out ELSE f \o s.out
  BY <1>1, <1>2, ReadParts
<1>4. PICK n \in Nat, v \in Nat, z \in Nat \ {0} : n = Len(str) /\ v = x.v /\ z = Values(k[2])
  BY LengthRead, LenProperties
<1>5. PICK p \in Nat : /\ p = c.m_position /\ c.m_size \in Nat /\ c.m_capacity \in Nat
                       /\ c.m_position <= c.m_capacity
  <2>1. c.m_position \in Nat /\ c.m_size \in Nat /\ c.m_capacity \in Nat /\ c.m_position <= c.m_size /\ c.m_size <= c.m_capacity
    BY <1>1, GoodFields
  <2> QED
    BY <2>1
<1>6. p + n <= c.m_size /\ c.m_size <= c.m_capacity
  BY <1>1, <1>4, <1>5, GoodFields DEF Holds
<1>7. CASE n < z /\ str # <<>>
  <2>1. v = n
    BY <1>4, <1>7, LengthRead
  <2>2. Shifted(c, s.ba, w.m_position, c.m_size) /\ s.out = str
    BY <1>1, <1>2, <1>4, <1>5, <1>7, <2>1, HoldsRead
  <2>3. ~Fails(s)
    BY <2>2, PieceNoError DEF Fails
  <2>4. r.ba = w /\ r.out = f \o str
    BY <1>1, <1>3, <2>2, <2>3
  <2> QED
    BY <1>4, <1>7, <2>4 DEF Returns
<1>8. CASE n < z /\ str = <<>>
  <2>1. v = n /\ n = 0
    BY <1>4, <1>8, LengthRead
  <2>2. c.m_position = w.m_position
    BY <1>1, <1>4, <1>5, <2>1
  <2>3. Shifted(c, c, w.m_position, c.m_size)
    BY <1>1, <2>2 DEF Shifted
  <2>4. c = w
    BY <1>1, <2>3
  <2>5. CASE w.m_position < w.m_capacity
    <3>1. s = Read(c, <<>>)
      BY <1>1, <1>2, <1>4, <2>1, <2>4, <2>5, ReadIs
    <3>2. s.ba = w /\ s.out = str
      BY <1>8, <2>4, <3>1, ReadParts
    <3>3. ~Fails(s)
      BY <3>2, PieceNoError DEF Fails
    <3>4. r.ba = w /\ r.out = f \o str
      BY <1>3, <3>2, <3>3
    <3> QED
      BY <1>4, <1>8, <2>5, <3>4 DEF Returns
  <2>6. CASE ~(w.m_position < w.m_capacity)
    <3>1. c.m_position = c.m_capacity
      BY <1>5, <2>4, <2>6
    <3>2. s = Read(Wild(c), <<>>)
      BY <1>1, <1>2, <1>4, <2>1, <3>1, ReadIs
    <3>3. s.ba.wild = TRUE
      <4>1. Wild(c).wild = TRUE
        BY <1>1, WildIs
      <4>2. s.ba = Wild(c)
        BY <3>2, ReadParts
      <4> QED
        BY <4>1, <4>2
    <3>4. r.ba # w
      <4>1. w.wild = FALSE
        BY <1>1
      <4> QED
        BY <1>3, <3>3, <4>1
    <3> QED
      BY <1>8, <2>6, <3>4 DEF Returns
  <2> QED
    BY <2>5, <2>6
<1>9. CASE ~(n < z)
  <2>1. v < n
    <3>1. Len(str) >= Values(k[2])
      BY <1>4, <1>9
    <3> QED
      BY <1>4, <3>1, LengthRead
  <2>2. v <= getReadSize(c)
    BY <1>5, <1>6, <2>1 DEF getReadSize
  <2>3. s.out \in Seq(Byte) /\ Len(s.out) = v
    <3>1. CASE v > 0
      <4>1. s.out = Piece(c, p, v)
        BY <1>1, <1>2, <1>4, <1>5, <2>2, <3>1, ReadIs
      <4>2. p + v <= c.m_capacity
        BY <1>5, <1>6, <2>1
      <4>3. IsPiece(Piece(c, p, v), c, p, v)
        BY <1>1, <4>2, PieceIs
      <4> QED
        BY <4>1, <4>3 DEF IsPiece
    <3>2. CASE v = 0
      <4>1. c.m_position < c.m_capacity
        BY <1>5, <1>6, <2>1
      <4>2. s = Read(c, <<>>)
        BY <1>1, <1>2, <1>4, <3>2, <4>1, ReadIs
      <4>3. s.out = <<>>
        BY <4>2, ReadParts
      <4> QED
        BY <3>2, <4>3
    <3> QED
      BY <3>1, <3>2
  <2>4. r.out = f \o s.out
    BY <1>3, <2>3, PieceNoError DEF Fails
  <2>5. r.out # f \o str
    <3>1. Len(s.out) < Len(str)
      BY <1>4, <2>1, <2>3
    <3> QED
      BY <2>3, <2>4, <3>1, OtherLength
  <2>6. ~(Len(str) < Values(k[2]))
    BY <1>4, <1>9
  <2> QED
    BY <2>5, <2>6 DEF Returns
<1> QED
  BY <1>7, <1>8, <1>9

(* What is written anywhere is read back from there, in every state of the array. *)
THEOREM RoundTripCorrect == Spec => []RoundTrip
<1>1. Inv => RoundTrip
  <2> SUFFICES ASSUME Inv, Ready PROVE RoundTrip
    BY DEF RoundTrip
  <2>1. Good(ba) /\ ba.wild = FALSE
    <3>1. Good(ba) /\ ~ba.wild
      BY DEF Inv, Bounded, Ready
    <3>2. ba.wild \in BOOLEAN
      BY <3>1, GoodFields
    <3> QED
      BY <3>1, <3>2
  <2>2. ASSUME NEW n \in {1, 2, 4, 8}, NEW x \in Edges(n), NEW w, w = writeNumber(ba, x),
               NEW r, r = readNumber(setPosition(w, ba.m_position).ba, x.kind, n)
        PROVE  r.ba = w /\ NumberOf(ba, x.kind, n, r.out) = x.v
    <3>1. Valid(x) /\ x.n = n
      BY EdgesValid
    <3> QED
      BY <2>1, <2>2, <3>1, NumberReturns
  <2>3. ASSUME NEW x \in Edges(2), x.kind \in {"F", "S"}
        PROVE  DecodeFixed(BIG, ba.m_endian, EncodeFixed(LITTLE, ba.m_endian, x.v, 2)) = Unsigned(x.v, 2)
    <3>1. Valid(x) /\ x.n = 2
      BY EdgesValid
    <3>2. ba.m_endian \in {LITTLE, BIG}
      BY <2>1, GoodFields
    <3>3. DecodeFixed(BIG, ba.m_endian, EncodeFixed(LITTLE, ba.m_endian, x.v, x.n)) = Unsigned(x.v, x.n)
      BY <2>3, <3>1, <3>2, HostsAgree
    <3> QED
      BY <3>1, <3>3
  <2>4. ASSUME NEW k \in LengthKinds, NEW str \in Strings, NEW w, w = writeString(ba, k, str),
               NEW r, r = readString(setPosition(w, ba.m_position).ba, k)
        PROVE  Returns(NumberBytes(ba, LengthField(k, str)), str, k, w, r)
    <3>1. str \in Seq(Byte)
      BY StringsAre
    <3>2. PICK x : x = LengthField(k, str)
      OBVIOUS
    <3>3. Valid(x)
      BY <3>1, <3>2, LengthFieldIs
    <3>4. PICK f \in Seq(Byte) : f = NumberBytes(ba, x)
      BY <2>1, <3>3, NumberBytesIs
    <3>5. Returns(f, str, k, w, r)
      BY <2>1, <2>4, <3>1, <3>2, <3>4, StringReturns
    <3> QED
      BY <3>2, <3>4, <3>5
  <2>5. \A n \in {1, 2, 4, 8} : \A x \in Edges(n) :
         LET w == writeNumber(ba, x)
             r == readNumber(setPosition(w, ba.m_position).ba, x.kind, n)
         IN  (x.kind \in {"V", "Z"} => n >= 4) => r.ba = w /\ NumberOf(ba, x.kind, n, r.out) = x.v
    <3> TAKE n \in {1, 2, 4, 8}
    <3> TAKE x \in Edges(n)
    <3>1. PICK w : w = writeNumber(ba, x)
      OBVIOUS
    <3>2. PICK r : r = readNumber(setPosition(w, ba.m_position).ba, x.kind, n)
      OBVIOUS
    <3>3. r.ba = w /\ NumberOf(ba, x.kind, n, r.out) = x.v
      BY <2>2, <3>1, <3>2
    <3> QED
      BY <3>1, <3>2, <3>3, Zenon
  <2>6. \A x \in Edges(2) : x.kind \in {"F", "S"} =>
         DecodeFixed(BIG, ba.m_endian, EncodeFixed(LITTLE, ba.m_endian, x.v, 2)) = Unsigned(x.v, 2)
    BY <2>3
  <2>7. \A k \in LengthKinds, str \in Strings :
         LET w == writeString(ba, k, str)
             r == readString(setPosition(w, ba.m_position).ba, k)
         IN  (r.ba = w /\ r.out = NumberBytes(ba, LengthField(k, str)) \o str)
                <=> /\ Len(str) < Values(k[2])
                    /\ str # <<>> \/ w.m_position < w.m_capacity
    <3> TAKE k \in LengthKinds, str \in Strings
    <3>1. PICK w : w = writeString(ba, k, str)
      OBVIOUS
    <3>2. PICK r : r = readString(setPosition(w, ba.m_position).ba, k)
      OBVIOUS
    <3>3. Returns(NumberBytes(ba, LengthField(k, str)), str, k, w, r)
      BY <2>4, <3>1, <3>2
    <3> QED
      BY <3>1, <3>2, <3>3 DEF Returns
  <2> QED
    BY <2>5, <2>6, <2>7, Zenon DEF RoundTrip
<1> QED
  BY <1>1, Invariant, PTL

(* What RoundTrip says at the edges, for every value of every type: any number of any width *)
(* and any string are read back from where they were written.                               *)
EveryValueReturns ==
    Ready =>
    /\ \A x : Valid(x) =>
         LET w == writeNumber(ba, x)
             r == readNumber(setPosition(w, ba.m_position).ba, x.kind, x.n)
         IN  r.ba = w /\ NumberOf(ba, x.kind, x.n, r.out) = x.v
    /\ \A k \in LengthKinds, str \in Seq(Byte) :
         LET w == writeString(ba, k, str)
             r == readString(setPosition(w, ba.m_position).ba, k)
         IN  Returns(NumberBytes(ba, LengthField(k, str)), str, k, w, r)

(* Every number and every string of the types that the code has is read back as it was written. *)
THEOREM EveryValueReturnsCorrect == Spec => []EveryValueReturns
<1>1. Inv => EveryValueReturns
  <2> SUFFICES ASSUME Inv, Ready PROVE EveryValueReturns
    BY DEF EveryValueReturns
  <2>1. Good(ba) /\ ba.wild = FALSE
    <3>1. Good(ba) /\ ~ba.wild
      BY DEF Inv, Bounded, Ready
    <3>2. ba.wild \in BOOLEAN
      BY <3>1, GoodFields
    <3> QED
      BY <3>1, <3>2
  <2>2. ASSUME NEW x, Valid(x)
        PROVE  LET w == writeNumber(ba, x)
                   r == readNumber(setPosition(w, ba.m_position).ba, x.kind, x.n)
               IN  r.ba = w /\ NumberOf(ba, x.kind, x.n, r.out) = x.v
    <3>1. PICK w : w = writeNumber(ba, x)
      OBVIOUS
    <3>2. PICK r : r = readNumber(setPosition(w, ba.m_position).ba, x.kind, x.n)
      OBVIOUS
    <3>3. r.ba = w /\ NumberOf(ba, x.kind, x.n, r.out) = x.v
      BY <2>1, <2>2, <3>1, <3>2, NumberReturns
    <3> QED
      BY <3>1, <3>2, <3>3, Zenon
  <2>3. ASSUME NEW k \in LengthKinds, NEW str \in Seq(Byte)
        PROVE  LET w == writeString(ba, k, str)
                   r == readString(setPosition(w, ba.m_position).ba, k)
               IN  Returns(NumberBytes(ba, LengthField(k, str)), str, k, w, r)
    <3>1. PICK w : w = writeString(ba, k, str)
      OBVIOUS
    <3>2. PICK r : r = readString(setPosition(w, ba.m_position).ba, k)
      OBVIOUS
    <3>3. PICK x : x = LengthField(k, str)
      OBVIOUS
    <3>4. Valid(x)
      BY <3>3, LengthFieldIs
    <3>5. PICK f \in Seq(Byte) : f = NumberBytes(ba, x)
      BY <2>1, <3>4, NumberBytesIs
    <3>6. Returns(f, str, k, w, r)
      BY <2>1, <3>1, <3>2, <3>3, <3>5, StringReturns
    <3> QED
      BY <3>1, <3>2, <3>3, <3>5, <3>6, Zenon
  <2> QED
    BY <2>2, <2>3, Zenon DEF EveryValueReturns
<1> QED
  BY <1>1, Invariant, PTL

=============================================================================
