-------------------------- MODULE DumpFormatProofs --------------------------
(* Proofs about the emitted dump and its two readers, for every emission,    *)
(* every width of its lines and every place a dump may be cut at.            *)
EXTENDS DumpFormat, SequenceTheorems, WellFoundedInduction, TLAPS

-----------------------------------------------------------------------------
(* Induction, over a set of numbers: one that has 0 and is closed upwards.   *)
LEMMA Upward ==
  ASSUME NEW S, 0 \in S, \A n \in Nat : n \in S => n + 1 \in S PROVE Nat \subseteq S
  <1> SUFFICES ASSUME NEW m \in Nat, m \notin S PROVE FALSE
    OBVIOUS
  <1> DEFINE Out == Nat \ S
  <1>1. PICK x \in Out : \A y \in Out : <<y, x>> \notin OpToRel(<, Nat)
    BY WFMin, NatLessThanWellFounded
  <1>2. \A y \in Out : ~(y < x)
    BY <1>1 DEF OpToRel
  <1>3. x # 0 /\ x - 1 \in Nat /\ x - 1 < x
    OBVIOUS
  <1>4. x - 1 \in S
    BY <1>2, <1>3
  <1> QED BY <1>3, <1>4

(* Numbers have a least one among them.                                      *)
LEMMA LeastIs ==
  ASSUME NEW T \in SUBSET Nat, T # {} PROVE \E x \in T : \A y \in T : x <= y
  <1>1. PICK x \in T : \A y \in T : <<y, x>> \notin OpToRel(<, Nat)
    BY NatLessThanWellFounded, WFMin
  <1>2. \A y \in T : ~(y < x)
    BY <1>1 DEF OpToRel
  <1> QED BY <1>2

(* The least number of a set.                                                *)
LEMMA MinIs ==
  ASSUME NEW T \in SUBSET Nat, T # {} PROVE Min(T) \in T /\ \A y \in T : Min(T) <= y
  <1>1. \E x \in T : \A y \in T : x <= y
    BY LeastIs
  <1> QED BY <1>1 DEF Min

-----------------------------------------------------------------------------
(* There is a function that flattens the first n of the sequences.           *)
LEMMA FlatExists ==
  ASSUME NEW seqs, NEW N \in Nat
  PROVE  \E f : f = [n \in 1 .. N |-> IF n = 1 THEN seqs[n] ELSE f[n - 1] \o seqs[n]]
  <1> DEFINE Body(f, n) == IF n = 1 THEN seqs[n] ELSE f[n - 1] \o seqs[n]
             S == {k \in Nat : \E f : f = [n \in 1 .. k |-> Body(f, n)]}
  <1>1. 0 \in S
    <2> DEFINE f == [n \in 1 .. 0 |-> <<>>]
    <2>1. f = [n \in 1 .. 0 |-> Body(f, n)]
      OBVIOUS
    <2> QED BY <2>1
  <1>2. \A k \in Nat : k \in S => k + 1 \in S
    <2> SUFFICES ASSUME NEW k \in Nat, k \in S PROVE k + 1 \in S
      OBVIOUS
    <2>0. PICK f : f = [n \in 1 .. k |-> Body(f, n)]
      OBVIOUS
    <2>1. \A n \in 1 .. k : f[n] = Body(f, n)
      BY <2>0
    <2> DEFINE G == [n \in 1 .. k + 1 |-> IF n <= k THEN f[n] ELSE Body(f, n)]
    <2>2. PICK g : g = G
      OBVIOUS
    <2>3. \A n \in 1 .. k : g[n] = f[n]
      BY <2>2
    <2>4. \A n \in 1 .. k + 1 : Body(g, n) = Body(f, n)
      <3> TAKE n \in 1 .. k + 1
      <3>1. n # 1 => n - 1 \in 1 .. k
        OBVIOUS
      <3> QED BY <2>3, <3>1
    <2> HIDE DEF Body
    <2>5. g = [n \in 1 .. k + 1 |-> Body(g, n)]
      <3>1. \A n \in 1 .. k + 1 : (IF n <= k THEN f[n] ELSE Body(f, n)) = Body(g, n)
        BY <2>1, <2>4
      <3> QED BY <2>2, <3>1
    <2> QED BY <2>5
  <1> QED BY <1>1, <1>2, Upward

(* What FlattenSeq computes, a sequence at a time.                           *)
LEMMA FlatIs ==
  ASSUME NEW seqs, NEW N \in Nat \ {0}, Len(seqs) = N
  PROVE  \E f : /\ FlattenSeq(seqs) = f[N]
                /\ f[1] = seqs[1]
                /\ \A n \in 2 .. N : f[n] = f[n - 1] \o seqs[n]
  <1> DEFINE f == CHOOSE u : u = [n \in 1 .. N |-> IF n = 1 THEN seqs[n] ELSE u[n - 1] \o seqs[n]]
  <1>1. PICK g : g = f
    OBVIOUS
  <1>2. g = [n \in 1 .. N |-> IF n = 1 THEN seqs[n] ELSE g[n - 1] \o seqs[n]]
    BY <1>1, FlatExists
  <1>3. FlattenSeq(seqs) = g[N]
    BY <1>1 DEF FlattenSeq
  <1> HIDE DEF f
  <1>4. g[1] = seqs[1]
    BY <1>2
  <1>5. \A n \in 2 .. N : g[n] = g[n - 1] \o seqs[n]
    <2> TAKE n \in 2 .. N
    <2>1. n \in 1 .. N /\ n # 1
      OBVIOUS
    <2> QED BY <1>2, <2>1
  <1> QED BY <1>3, <1>4, <1>5
-----------------------------------------------------------------------------
(* A name of its own keeps the sequence axioms out of steps that need none.  *)
Bin == Seq(Byte)

(* The lines bs is printed in, and the bytes of each.                        *)
Rows(bs) == (Len(bs) + LineBytes - 1) \div LineBytes
Row(bs, l) == SubSeq(bs, (l - 1) * LineBytes + 1,
                     IF l * LineBytes < Len(bs) THEN l * LineBytes ELSE Len(bs))

(* The rest of a division is less than the divisor.                          *)
LEMMA Division ==
  ASSUME NEW n \in Nat, NEW k \in Nat \ {0}
  PROVE  /\ n \div k \in Nat
         /\ (n \div k) * k <= n
         /\ n < (n \div k) * k + k
  OBVIOUS

(* Products grow with their factors.                                         *)
LEMMA Product ==
  ASSUME NEW k \in Nat, NEW a \in Nat, NEW b \in Nat
  PROVE  /\ a * k \in Nat
         /\ a <= b => a * k <= b * k
         /\ (a + 1) * k = a * k + k
  <1>1. a * k \in Nat
    OBVIOUS
  <1>2. (a + 1) * k = a * k + k
    OBVIOUS
  <1>3. ASSUME a <= b PROVE a * k <= b * k
    <2>1. PICK c \in Nat : b = a + c
      <3>1. b - a \in Nat /\ b = a + (b - a)
        BY <1>3
      <3> QED BY <3>1
    <2>2. b * k = a * k + c * k
      BY <2>1
    <2>3. c * k \in Nat
      OBVIOUS
    <2> QED BY <1>1, <2>2, <2>3
  <1> QED BY <1>1, <1>2, <1>3

(* The lines hold all bytes, and each holds some.                            *)
LEMMA RowsIs ==
  ASSUME NEW bs \in Bin
  PROVE  /\ Len(bs) \in Nat /\ Rows(bs) \in Nat /\ LineBytes \in Nat \ {0}
         /\ Len(bs) <= Rows(bs) * LineBytes
         /\ \A l \in 1 .. Rows(bs) :
              /\ (l - 1) * LineBytes \in Nat /\ l * LineBytes = (l - 1) * LineBytes + LineBytes
              /\ (l - 1) * LineBytes < Len(bs)
  <1>1. PICK n : n = Len(bs)
    OBVIOUS
  <1>2. PICK k : k = LineBytes
    OBVIOUS
  <1>3. n \in Nat /\ k \in Nat \ {0}
    BY <1>1, <1>2, DumpAssumption DEF Bin
  <1>4. n + k - 1 \in Nat
    BY <1>3
  <1>5. PICK q : q = (n + k - 1) \div k
    OBVIOUS
  <1>6. q \in Nat /\ q * k <= n + k - 1 /\ n + k - 1 < q * k + k
    BY <1>3, <1>4, <1>5, Division
  <1>7. q * k \in Nat
    BY <1>3, <1>6, Product
  <1>8. n <= q * k
    BY <1>3, <1>6, <1>7
  <1>9. ASSUME NEW l \in 1 .. q
        PROVE  (l - 1) * k \in Nat /\ l * k = (l - 1) * k + k /\ (l - 1) * k < n
    <2>1. l - 1 \in Nat /\ l \in Nat /\ (l - 1) + 1 = l /\ l <= q
      BY <1>6
    <2>2. (l - 1) * k \in Nat /\ l * k = (l - 1) * k + k /\ l * k <= q * k
      BY <1>3, <1>6, <2>1, Product
    <2> QED BY <1>3, <1>6, <1>7, <2>2
  <1> QED BY <1>1, <1>2, <1>3, <1>5, <1>6, <1>8, <1>9 DEF Rows

(* Byte strings and their parts.                                             *)
LEMMA PartIs ==
  ASSUME NEW bs \in Bin, NEW a \in Nat, NEW b \in Nat, a <= b + 1, 1 <= a, b <= Len(bs)
  PROVE  /\ SubSeq(bs, a, b) \in Bin /\ Len(SubSeq(bs, a, b)) = b - a + 1
         /\ \A x \in 1 .. b - a + 1 : SubSeq(bs, a, b)[x] = bs[a + x - 1]
  BY DEF Bin

(* Two byte strings, one behind the other.                                   *)
LEMMA BinCat ==
  ASSUME NEW a \in Bin, NEW b \in Bin
  PROVE  /\ a \o b \in Bin /\ Len(a \o b) = Len(a) + Len(b)
         /\ Len(a) \in Nat /\ Len(b) \in Nat
         /\ \A x \in 1 .. Len(a) : (a \o b)[x] = a[x]
         /\ \A x \in 1 .. Len(b) : (a \o b)[Len(a) + x] = b[x]
  BY DEF Bin

(* Adjacent parts make one.                                                  *)
LEMMA Parts ==
  ASSUME NEW bs \in Bin, NEW a \in Nat, NEW b \in Nat, a <= b, b <= Len(bs)
  PROVE  SubSeq(bs, 1, a) \o SubSeq(bs, a + 1, b) = SubSeq(bs, 1, b)
  <1>1. bs \in Seq(Byte) /\ 1 \in 1 .. Len(bs) + 1 /\ a \in 1 - 1 .. Len(bs) /\ b \in a .. Len(bs)
    BY DEF Bin
  <1> QED BY <1>1, ConcatAdjacentSubSeq

(* The bytes of the lines carved, the last of them any.                      *)
LEMMA FlatRows ==
  ASSUME NEW bs \in Bin, NEW m \in 1 .. Rows(bs), NEW seqs, Len(seqs) = m,
         \A l \in 1 .. m - 1 : seqs[l] = Row(bs, l), seqs[m] \in Bin
  PROVE  FlattenSeq(seqs) = SubSeq(bs, 1, (m - 1) * LineBytes) \o seqs[m]
  <1>1. /\ Len(bs) \in Nat /\ Rows(bs) \in Nat /\ LineBytes \in Nat
        /\ \A l \in 1 .. Rows(bs) :
              /\ (l - 1) * LineBytes \in Nat /\ l * LineBytes = (l - 1) * LineBytes + LineBytes
              /\ (l - 1) * LineBytes < Len(bs)
    BY RowsIs
  <1>2. m \in Nat \ {0} /\ m <= Rows(bs)
    BY <1>1
  <1>3. PICK f : /\ FlattenSeq(seqs) = f[m]
                 /\ f[1] = seqs[1]
                 /\ \A n \in 2 .. m : f[n] = f[n - 1] \o seqs[n]
    BY <1>2, FlatIs
  <1> DEFINE S == {k \in Nat : k + 1 <= m - 1 => f[k + 1] = SubSeq(bs, 1, (k + 1) * LineBytes)}
  <1>4. ASSUME NEW l \in 1 .. m - 1
        PROVE  /\ l * LineBytes \in Nat /\ l * LineBytes < Len(bs)
               /\ (l - 1) * LineBytes \in Nat /\ (l - 1) * LineBytes <= l * LineBytes
               /\ seqs[l] = SubSeq(bs, (l - 1) * LineBytes + 1, l * LineBytes)
    <2>1. l \in 1 .. Rows(bs) /\ l + 1 \in 1 .. Rows(bs) /\ (l + 1) - 1 = l
      BY <1>1, <1>2
    <2>2. l * LineBytes \in Nat /\ l * LineBytes < Len(bs)
      BY <1>1, <2>1
    <2>3. (l - 1) * LineBytes \in Nat /\ (l - 1) * LineBytes <= l * LineBytes
      BY <1>1, <2>1, <2>2
    <2>4. seqs[l] = Row(bs, l)
      OBVIOUS
    <2> QED BY <2>2, <2>3, <2>4 DEF Row
  <1>5. 0 \in S
    <2> SUFFICES ASSUME 1 <= m - 1 PROVE f[1] = SubSeq(bs, 1, 1 * LineBytes)
      OBVIOUS
    <2>1. 1 \in 1 .. m - 1 /\ (1 - 1) * LineBytes = 0
      BY <1>1, <1>2
    <2>2. seqs[1] = SubSeq(bs, 0 + 1, 1 * LineBytes)
      BY <1>4, <2>1
    <2> QED BY <1>3, <2>2
  <1>6. \A k \in Nat : k \in S => k + 1 \in S
    <2> SUFFICES ASSUME NEW k \in Nat, k \in S, (k + 1) + 1 <= m - 1
                 PROVE  f[(k + 1) + 1] = SubSeq(bs, 1, ((k + 1) + 1) * LineBytes)
      OBVIOUS
    <2>1. PICK l : l = (k + 1) + 1
      OBVIOUS
    <2>2. l \in 1 .. m - 1 /\ l \in 2 .. m /\ l - 1 = k + 1 /\ k + 1 <= m - 1
      BY <1>2, <2>1
    <2>3. f[l] = f[l - 1] \o seqs[l] /\ f[l - 1] = SubSeq(bs, 1, (l - 1) * LineBytes)
      BY <1>3, <2>2
    <2>4. seqs[l] = SubSeq(bs, (l - 1) * LineBytes + 1, l * LineBytes)
      BY <1>4, <2>2
    <2>5. PICK a : a = (l - 1) * LineBytes
      OBVIOUS
    <2>6. PICK b : b = l * LineBytes
      OBVIOUS
    <2>7. a \in Nat /\ b \in Nat /\ a <= b /\ b <= Len(bs)
      <3>1. /\ l * LineBytes \in Nat /\ l * LineBytes < Len(bs)
            /\ (l - 1) * LineBytes \in Nat /\ (l - 1) * LineBytes <= l * LineBytes
        BY <1>4, <2>2
      <3>2. b < Len(bs) /\ a \in Nat /\ b \in Nat /\ a <= b
        BY <2>5, <2>6, <3>1
      <3> QED BY <1>1, <3>2
    <2>8. f[l] = SubSeq(bs, 1, b)
      BY <2>3, <2>4, <2>5, <2>6, <2>7, Parts
    <2> QED BY <2>1, <2>6, <2>8
  <1>7. Nat \subseteq S
    <2> HIDE DEF S
    <2> QED BY <1>5, <1>6, Upward
  <1>8. CASE m = 1
    <2>1. FlattenSeq(seqs) = seqs[1]
      BY <1>3, <1>8
    <2>2. (m - 1) * LineBytes = 0
      BY <1>1, <1>8
    <2>3. SubSeq(bs, 1, 0) = <<>> /\ <<>> \o seqs[1] = seqs[1]
      BY <1>8 DEF Bin
    <2> QED BY <1>8, <2>1, <2>2, <2>3
  <1>9. CASE m # 1
    <2>1. (m - 1) - 1 \in Nat /\ ((m - 1) - 1) + 1 = m - 1 /\ m \in 2 .. m
      BY <1>2, <1>9
    <2>2. f[m - 1] = SubSeq(bs, 1, (m - 1) * LineBytes)
      <3>1. (m - 1) - 1 \in S
        <4> HIDE DEF S
        <4> QED BY <1>7, <2>1
      <3> QED BY <2>1, <3>1
    <2>3. f[m] = f[m - 1] \o seqs[m]
      BY <1>3, <2>1
    <2> QED BY <1>3, <2>2, <2>3
  <1> QED BY <1>8, <1>9

(* A line of bytes that was cut has lost some, and its last may be wrong.    *)
LEMMA CutBytesIs ==
  ASSUME NEW bs \in Bin, NEW c \in CutBytes(bs)
  PROVE  c \in Bin /\ Len(c) <= Len(bs) /\ \A k \in 1 .. Len(c) - 1 : c[k] = bs[k]
  <1>0. PICK k \in 1 .. Len(bs) :
             c \in {Append(SubSeq(bs, 1, k - 1), d) : d \in {bs[k]} \cup Digits(bs[k])}
    BY DEF CutBytes
  <1>1. PICK d \in {bs[k]} \cup Digits(bs[k]) : c = Append(SubSeq(bs, 1, k - 1), d)
    BY <1>0
  <1>2. Len(bs) \in Nat /\ bs[k] \in Byte
    BY DEF Bin
  <1>3. d \in Byte
    <2>1. CASE d = bs[k]
      BY <1>2, <2>1
    <2>2. CASE d \in Digits(bs[k])
      <3>1. PICK t \in Tens : d = bs[k] \div t
        BY <2>2 DEF Digits
      <3>2. t \in Nat \ {0}
        BY DEF Tens
      <3>3. PICK n : n = bs[k]
        OBVIOUS
      <3>4. n \in Nat /\ n <= 255
        <4>1. n \in Byte
          BY <1>2, <3>3
        <4> QED BY <4>1 DEF Byte
      <3>5. d \in Nat /\ d * t <= n
        BY <3>1, <3>2, <3>3, <3>4, Division
      <3>6. d <= d * t
        BY <3>2, <3>5
      <3> QED BY <3>2, <3>4, <3>5, <3>6 DEF Byte
    <2> QED BY <2>1, <2>2
  <1>4. PICK pre : pre = SubSeq(bs, 1, k - 1)
    OBVIOUS
  <1>5. pre \in Bin /\ Len(pre) = k - 1 /\ \A x \in 1 .. k - 1 : pre[x] = bs[x]
    <2>1. k - 1 \in Nat /\ 1 <= (k - 1) + 1 /\ k - 1 <= Len(bs) /\ (k - 1) - 1 + 1 = k - 1
      BY <1>2
    <2>2. /\ pre \in Bin /\ Len(pre) = (k - 1) - 1 + 1
          /\ \A x \in 1 .. (k - 1) - 1 + 1 : pre[x] = bs[1 + x - 1]
      BY <1>4, <2>1, PartIs
    <2> QED BY <2>1, <2>2
  <1>6. c = Append(pre, d)
    BY <1>1, <1>4
  <1>7. c \in Bin /\ Len(c) = Len(pre) + 1 /\ \A x \in 1 .. Len(pre) : c[x] = pre[x]
    BY <1>3, <1>5, <1>6 DEF Bin
  <1> QED BY <1>2, <1>5, <1>7

(* The bytes of the first m lines, the last of them whole or cut.            *)
LEMMA BodyIs ==
  ASSUME NEW bs \in Bin, NEW m \in 0 .. Rows(bs), NEW seqs, Len(seqs) = m,
         m = 0 => seqs = <<>>,
         \A l \in 1 .. m - 1 : seqs[l] = Row(bs, l),
         m # 0 => seqs[m] = Row(bs, m) \/ seqs[m] \in CutBytes(Row(bs, m)),
         NEW whole \in BOOLEAN, whole => m = 0 \/ seqs[m] = Row(bs, m)
  PROVE  /\ FlattenSeq(seqs) \in Bin
         /\ Len(FlattenSeq(seqs)) <= Len(bs)
         /\ \A k \in 1 .. Len(FlattenSeq(seqs)) :
              whole \/ k < Len(FlattenSeq(seqs)) => FlattenSeq(seqs)[k] = bs[k]
         /\ whole /\ m = Rows(bs) => FlattenSeq(seqs) = bs
  <1>1. /\ Len(bs) \in Nat /\ Rows(bs) \in Nat /\ LineBytes \in Nat \ {0}
        /\ Len(bs) <= Rows(bs) * LineBytes
        /\ \A l \in 1 .. Rows(bs) :
              /\ (l - 1) * LineBytes \in Nat /\ l * LineBytes = (l - 1) * LineBytes + LineBytes
              /\ (l - 1) * LineBytes < Len(bs)
    BY RowsIs
  <1>2. PICK body : body = FlattenSeq(seqs)
    OBVIOUS
  <1>3. CASE m = 0
    <2>1. body = <<>>
      BY <1>2, <1>3 DEF FlattenSeq
    <2>2. m = Rows(bs) => Len(bs) = 0
      BY <1>1, <1>3
    <2>3. <<>> \in Bin /\ Len(<<>>) = 0 /\ (Len(bs) = 0 => bs = <<>>)
      BY DEF Bin
    <2> QED BY <1>1, <1>2, <2>1, <2>2, <2>3
  <1>4. CASE m # 0
    <2>1. m \in 1 .. Rows(bs) /\ m \in Nat
      BY <1>1, <1>4
    <2>2. PICK a : a = (m - 1) * LineBytes
      OBVIOUS
    <2>3. PICK b : b = IF m * LineBytes < Len(bs) THEN m * LineBytes ELSE Len(bs)
      OBVIOUS
    <2>4. a \in Nat /\ a < Len(bs) /\ m * LineBytes = a + LineBytes
      BY <1>1, <2>1, <2>2
    <2>5. b \in Nat /\ a <= b /\ b <= Len(bs) /\ (m = Rows(bs) => b = Len(bs))
      BY <1>1, <2>3, <2>4
    <2>6. PICK pre : pre = SubSeq(bs, 1, a)
      OBVIOUS
    <2>7. pre \in Bin /\ Len(pre) = a /\ \A x \in 1 .. a : pre[x] = bs[x]
      <3>1. pre \in Bin /\ Len(pre) = a - 1 + 1 /\ \A x \in 1 .. a - 1 + 1 : pre[x] = bs[1 + x - 1]
        BY <1>1, <2>4, <2>6, PartIs
      <3> QED BY <2>4, <3>1
    <2>8. PICK row : row = Row(bs, m)
      OBVIOUS
    <2>9. row = SubSeq(bs, a + 1, b)
      BY <2>2, <2>3, <2>8 DEF Row
    <2>10. row \in Bin /\ Len(row) = b - a /\ \A x \in 1 .. b - a : row[x] = bs[a + x]
      <3>1. a + 1 \in Nat /\ a + 1 <= b + 1 /\ 1 <= a + 1 /\ b - (a + 1) + 1 = b - a
        BY <2>4, <2>5
      <3>2. row \in Bin /\ Len(row) = b - (a + 1) + 1
            /\ \A x \in 1 .. b - (a + 1) + 1 : row[x] = bs[(a + 1) + x - 1]
        BY <2>5, <2>9, <3>1, PartIs
      <3>3. \A x \in 1 .. b - a : (a + 1) + x - 1 = a + x
        BY <2>4, <2>5
      <3> QED BY <3>1, <3>2, <3>3
    <2>11. PICK c : c = seqs[m]
      OBVIOUS
    <2>12. /\ c \in Bin /\ Len(c) <= Len(row)
           /\ \A x \in 1 .. Len(c) : whole \/ x < Len(c) => c[x] = row[x]
      <3>1. CASE c = row
        BY <2>10, <3>1
      <3>2. CASE c # row
        <4>1. c \in CutBytes(row) /\ ~whole
          BY <1>4, <2>8, <2>11, <3>2
        <4>2. c \in Bin /\ Len(c) <= Len(row) /\ \A k \in 1 .. Len(c) - 1 : c[k] = row[k]
          BY <2>10, <4>1, CutBytesIs
        <4>3. Len(c) \in Nat
          BY <4>2 DEF Bin
        <4>4. \A x \in 1 .. Len(c) : x < Len(c) => x \in 1 .. Len(c) - 1
          BY <4>3
        <4> QED BY <4>1, <4>2, <4>4
      <3> QED BY <3>1, <3>2
    <2>13. body = pre \o c
      BY <1>2, <2>1, <2>2, <2>6, <2>11, <2>12, FlatRows
    <2>14. /\ body \in Bin /\ Len(body) = a + Len(c) /\ Len(c) \in Nat
           /\ \A x \in 1 .. a : body[x] = pre[x]
           /\ \A x \in 1 .. Len(c) : body[a + x] = c[x]
      BY <2>7, <2>12, <2>13, BinCat
    <2>15. Len(body) <= Len(bs)
      BY <1>1, <2>4, <2>5, <2>10, <2>12, <2>14
    <2>16. ASSUME NEW k \in 1 .. Len(body), whole \/ k < Len(body) PROVE body[k] = bs[k]
      <3>1. CASE k <= a
        BY <2>4, <2>7, <2>14, <3>1
      <3>2. CASE k > a
        <4>1. PICK x \in 1 .. Len(c) : k = a + x
          <5>1. k - a \in 1 .. Len(c) /\ k = a + (k - a)
            BY <2>4, <2>14, <3>2
          <5> QED BY <5>1
        <4>2. whole \/ x < Len(c)
          BY <2>4, <2>14, <2>16, <4>1
        <4>3. x \in 1 .. b - a
          BY <2>4, <2>5, <2>10, <2>12, <2>14
        <4> QED BY <2>10, <2>12, <2>14, <4>1, <4>2, <4>3
      <3> QED BY <2>4, <2>14, <3>1, <3>2
    <2>17. ASSUME whole, m = Rows(bs) PROVE body = bs
      <3>1. c = row /\ b = Len(bs)
        BY <1>4, <2>5, <2>8, <2>11, <2>17
      <3>2. body = SubSeq(bs, 1, b)
        BY <2>4, <2>5, <2>6, <2>9, <2>13, <3>1, Parts
      <3>3. SubSeq(bs, 1, Len(bs)) = bs
        BY SubSeqFull DEF Bin
      <3> QED BY <3>1, <3>2, <3>3
    <2> QED BY <1>2, <2>14, <2>15, <2>16, <2>17
  <1> QED BY <1>3, <1>4
-----------------------------------------------------------------------------
(* The lines there are, and sequences of them.                               *)
Keys == {"check-errors", "ir-defs", "emit-errors", "emit-diags",
         "header-len", "content-len", "tail-len"}
Names == {"symbols", "header", "content", "tail"}
Line == [kind : {"pair"}, key : Keys, val : Nat]
        \cup [kind : {"mark"}, key : Names]
        \cup [kind : {"bytes"}, val : Bin]
        \cup [kind : {"dot", "diag", "symbol", "halted", "end", "text"}]
Text == Seq(Line)

(* What each line is made of.                                                *)
LEMMA LinesAre ==
  /\ \A k \in Keys, n \in Nat : Pair(k, n) \in Line
  /\ \A p \in Names : Mark(p) \in Line
  /\ \A bs \in Bin : Bytes(bs) \in Line
  /\ \A k \in {"dot", "diag", "symbol", "halted", "end", "text"} : Other(k) \in Line
  BY DEF Pair, Mark, Bytes, Other, Line

(* One text behind the other, under a name of its own.                       *)
Cat(a, b) == a \o b

(* What is where in the two.                                                 *)
LEMMA TextCat ==
  ASSUME NEW a \in Text, NEW b \in Text
  PROVE  /\ Cat(a, b) \in Text /\ Len(Cat(a, b)) = Len(a) + Len(b)
         /\ \A x \in 1 .. Len(a) : Cat(a, b)[x] = a[x]
         /\ \A x \in 1 .. Len(b) : Cat(a, b)[Len(a) + x] = b[x]
  BY DEF Text, Cat

(* Texts of a line, and of the same line over and over.                      *)
LEMMA TextOne ==
  ASSUME NEW line \in Line
  PROVE  /\ <<line>> \in Text /\ Len(<<line>>) = 1 /\ <<line>>[1] = line
         /\ \A n \in Nat : /\ Repeated(line, n) \in Text /\ Len(Repeated(line, n)) = n
                           /\ \A x \in 1 .. n : Repeated(line, n)[x] = line
  BY DEF Text, Repeated

(* A section as it stands in a text from line at on.                         *)
Printed(d, at, name, bs) ==
  /\ d[at] = Mark(name)
  /\ \A l \in 1 .. Rows(bs) : d[at + l] = Bytes(Row(bs, l))
  /\ d[at + Rows(bs) + 1] = Dot

(* The lines of a byte string.                                               *)
LEMMA ByteLinesAre ==
  ASSUME NEW bs \in Bin
  PROVE  /\ ByteLines(bs) \in Text /\ Len(ByteLines(bs)) = Rows(bs)
         /\ \A l \in 1 .. Rows(bs) : ByteLines(bs)[l] = Bytes(Row(bs, l)) /\ Row(bs, l) \in Bin
  <1>1. PICK N \in Nat : N = Rows(bs)
    BY RowsIs
  <1>2. ASSUME NEW l \in 1 .. N PROVE Row(bs, l) \in Bin
    <2>1. /\ Len(bs) \in Nat /\ LineBytes \in Nat \ {0}
          /\ (l - 1) * LineBytes \in Nat /\ l * LineBytes = (l - 1) * LineBytes + LineBytes
          /\ (l - 1) * LineBytes < Len(bs)
      BY <1>1, RowsIs
    <2>2. PICK a : a = (l - 1) * LineBytes
      OBVIOUS
    <2>3. PICK b : b = IF l * LineBytes < Len(bs) THEN l * LineBytes ELSE Len(bs)
      OBVIOUS
    <2>4. a \in Nat /\ b \in Nat /\ a + 1 \in Nat /\ a + 1 <= b + 1 /\ 1 <= a + 1 /\ b <= Len(bs)
      BY <2>1, <2>2, <2>3
    <2>5. SubSeq(bs, a + 1, b) \in Bin
      BY <2>4, PartIs
    <2> QED BY <2>2, <2>3, <2>5 DEF Row
  <1>3. ByteLines(bs) = [l \in 1 .. N |-> Bytes(Row(bs, l))]
    BY <1>1 DEF ByteLines, Rows, Row
  <1>4. \A l \in 1 .. N : Bytes(Row(bs, l)) \in Line
    BY <1>2, LinesAre
  <1>5. ByteLines(bs) \in Seq(Line) /\ Len(ByteLines(bs)) = N
    <2> DEFINE F(l) == Bytes(Row(bs, l))
    <2>1. \A l \in 1 .. N : F(l) \in Line
      BY <1>4
    <2> HIDE DEF F
    <2>2. [l \in 1 .. N |-> F(l)] \in Seq(Line) /\ Len([l \in 1 .. N |-> F(l)]) = N
      BY <2>1
    <2> QED BY <1>3, <2>2 DEF F
  <1> QED BY <1>1, <1>2, <1>3, <1>5 DEF Text

(* A section.                                                                *)
LEMMA SectionIs ==
  ASSUME NEW bs \in Bin, NEW name \in Names
  PROVE  /\ Section(name, bs) \in Text /\ Len(Section(name, bs)) = Rows(bs) + 2
         /\ Rows(bs) \in Nat
         /\ Printed(Section(name, bs), 1, name, bs)
  <1>1. PICK a : a = <<Mark(name)>>
    OBVIOUS
  <1>2. PICK b : b = ByteLines(bs)
    OBVIOUS
  <1>3. PICK c : c = <<Dot>>
    OBVIOUS
  <1>4. a \in Text /\ Len(a) = 1 /\ a[1] = Mark(name)
    BY <1>1, TextOne, LinesAre
  <1>5. /\ b \in Text /\ Len(b) = Rows(bs) /\ Rows(bs) \in Nat
        /\ \A l \in 1 .. Rows(bs) : b[l] = Bytes(Row(bs, l))
    BY <1>2, ByteLinesAre, RowsIs
  <1>6. c \in Text /\ Len(c) = 1 /\ c[1] = Dot
    <2>1. Dot \in Line
      BY LinesAre DEF Dot
    <2> QED BY <1>3, <2>1, TextOne
  <1>7. PICK ab : ab = Cat(a, b)
    OBVIOUS
  <1>8. /\ ab \in Text /\ Len(ab) = 1 + Rows(bs) /\ ab[1] = Mark(name)
        /\ \A l \in 1 .. Rows(bs) : ab[1 + l] = Bytes(Row(bs, l))
    <2>1. /\ ab \in Text /\ Len(ab) = Len(a) + Len(b)
          /\ \A x \in 1 .. Len(a) : ab[x] = a[x]
          /\ \A x \in 1 .. Len(b) : ab[Len(a) + x] = b[x]
      BY <1>4, <1>5, <1>7, TextCat
    <2> QED BY <1>4, <1>5, <2>1
  <1>9. PICK s : s = Cat(ab, c)
    OBVIOUS
  <1>10. s = Section(name, bs)
    BY <1>1, <1>2, <1>3, <1>7, <1>9 DEF Section, Cat
  <1>11. /\ s \in Text /\ Len(s) = (1 + Rows(bs)) + 1
         /\ \A x \in 1 .. 1 + Rows(bs) : s[x] = ab[x]
         /\ s[(1 + Rows(bs)) + 1] = c[1]
    <2>1. /\ s \in Text /\ Len(s) = Len(ab) + Len(c)
          /\ \A x \in 1 .. Len(ab) : s[x] = ab[x]
          /\ \A x \in 1 .. Len(c) : s[Len(ab) + x] = c[x]
      BY <1>6, <1>8, <1>9, TextCat
    <2> QED BY <1>6, <1>8, <2>1
  <1>12. s[1] = Mark(name)
    BY <1>5, <1>8, <1>11
  <1>13. \A l \in 1 .. Rows(bs) : s[1 + l] = Bytes(Row(bs, l))
    <2> TAKE l \in 1 .. Rows(bs)
    <2>1. 1 + l \in 1 .. 1 + Rows(bs)
      BY <1>5
    <2> QED BY <1>8, <1>11, <2>1
  <1>14. s[1 + Rows(bs) + 1] = Dot
    BY <1>6, <1>11
  <1> QED BY <1>5, <1>10, <1>11, <1>12, <1>13, <1>14 DEF Printed

(* A section further on in a text is printed there.                          *)
LEMMA PrintedAt ==
  ASSUME NEW bs \in Bin, NEW name, NEW s, NEW d, NEW k \in Nat, Printed(s, 1, name, bs),
         \A x \in 1 .. Rows(bs) + 2 : d[k + x] = s[x]
  PROVE  Printed(d, k + 1, name, bs)
  <1>1. PICK n \in Nat : n = Rows(bs)
    BY RowsIs
  <1>2. /\ s[1] = Mark(name) /\ s[1 + n + 1] = Dot
        /\ \A l \in 1 .. n : s[1 + l] = Bytes(Row(bs, l))
        /\ \A x \in 1 .. n + 2 : d[k + x] = s[x]
    BY <1>1 DEF Printed
  <1>3. d[k + 1] = Mark(name)
    BY <1>2
  <1>4. ASSUME NEW l \in 1 .. n PROVE d[(k + 1) + l] = Bytes(Row(bs, l))
    <2>1. 1 + l \in 1 .. n + 2 /\ k + (1 + l) = (k + 1) + l
      OBVIOUS
    <2> QED BY <1>2, <2>1
  <1>5. d[(k + 1) + n + 1] = Dot
    <2>1. 1 + n + 1 \in 1 .. n + 2 /\ k + (1 + n + 1) = (k + 1) + n + 1
      OBVIOUS
    <2> QED BY <1>2, <2>1
  <1> QED BY <1>1, <1>3, <1>4, <1>5 DEF Printed

(* Four lines, n of a kind, and a dot.                                       *)
Leads(lead, p, line, n) ==
  /\ lead \in Text /\ Len(lead) = 5 + n
  /\ \A x \in 1 .. 4 : lead[x] = p[x]
  /\ \A x \in 5 .. 4 + n : lead[x] = line
  /\ lead[5 + n] = Dot

(* So begin a dump and its second part.                                      *)
LEMMA LeadIs ==
  ASSUME NEW p \in Text, Len(p) = 4, NEW line \in Line, NEW n \in Nat
  PROVE  Leads(Cat(Cat(p, Repeated(line, n)), <<Dot>>), p, line, n)
  <1>1. PICK r : r = Repeated(line, n)
    OBVIOUS
  <1>2. PICK c : c = <<Dot>>
    OBVIOUS
  <1>3. r \in Text /\ Len(r) = n /\ \A x \in 1 .. n : r[x] = line
    BY <1>1, TextOne
  <1>4. c \in Text /\ Len(c) = 1 /\ c[1] = Dot
    BY <1>2, TextOne, LinesAre DEF Dot
  <1>5. PICK a : a = Cat(p, r)
    OBVIOUS
  <1>6. PICK b : b = Cat(a, c)
    OBVIOUS
  <1>7. /\ a \in Text /\ Len(a) = 4 + n
        /\ \A x \in 1 .. 4 : a[x] = p[x]
        /\ \A x \in 1 .. n : a[4 + x] = r[x]
    <2>1. /\ a \in Text /\ Len(a) = Len(p) + Len(r)
          /\ \A x \in 1 .. Len(p) : a[x] = p[x]
          /\ \A x \in 1 .. Len(r) : a[Len(p) + x] = r[x]
      BY <1>3, <1>5, TextCat
    <2> QED BY <1>3, <2>1
  <1>8. /\ b \in Text /\ Len(b) = (4 + n) + 1
        /\ \A x \in 1 .. 4 + n : b[x] = a[x]
        /\ b[(4 + n) + 1] = c[1]
    <2>1. /\ b \in Text /\ Len(b) = Len(a) + Len(c)
          /\ \A x \in 1 .. Len(a) : b[x] = a[x]
          /\ \A x \in 1 .. Len(c) : b[Len(a) + x] = c[x]
      BY <1>4, <1>6, <1>7, TextCat
    <2> QED BY <1>4, <1>7, <2>1
  <1>9. \A x \in 1 .. 4 : b[x] = p[x]
    BY <1>7, <1>8
  <1>10. \A x \in 5 .. 4 + n : b[x] = line
    <2> TAKE x \in 5 .. 4 + n
    <2>1. x - 4 \in 1 .. n /\ 4 + (x - 4) = x /\ x \in 1 .. 4 + n
      OBVIOUS
    <2> QED BY <1>3, <1>7, <1>8, <2>1
  <1>11. b[5 + n] = Dot
    BY <1>4, <1>8
  <1> QED BY <1>1, <1>2, <1>5, <1>6, <1>8, <1>9, <1>10, <1>11 DEF Leads

(* Where each section of a dump is, and its end.                             *)
H(e) == 11 + e.diags + e.symbols
C(e) == H(e) + Rows(e.header) + 2
T(e) == C(e) + Rows(e.content) + 2
E(e) == T(e) + Rows(e.tail) + 2

(* The head of a dump.                                                       *)
HeadShape(e, d) ==
  /\ d[1] = Pair("check-errors", e.checks) /\ d[2] = Pair("ir-defs", 1)
  /\ d[3] = Pair("emit-errors", e.errors) /\ d[4] = Pair("emit-diags", e.diags)
  /\ \A l \in 5 .. 4 + e.diags : d[l] = Other("diag")
  /\ d[5 + e.diags] = Dot

(* And what follows it where there were no errors.                           *)
BodyShape(e, d) ==
  /\ Len(d) = E(e) /\ d[E(e)] = Other("end")
  /\ d[6 + e.diags] = Pair("header-len", Len(e.header))
  /\ d[7 + e.diags] = Pair("content-len", Len(e.content))
  /\ d[8 + e.diags] = Pair("tail-len", Len(e.tail))
  /\ d[9 + e.diags] = Mark("symbols")
  /\ \A l \in 10 + e.diags .. 9 + e.diags + e.symbols : d[l] = Other("symbol")
  /\ d[10 + e.diags + e.symbols] = Dot
  /\ Printed(d, H(e), "header", e.header)
  /\ Printed(d, C(e), "content", e.content)
  /\ Printed(d, T(e), "tail", e.tail)

(* What an emission is made of.                                              *)
LEMMA EmissionIs ==
  ASSUME NEW e \in Emissions
  PROVE  /\ e.checks \in Nat /\ e.symbols \in Nat /\ e.diags \in Nat /\ e.errors \in Nat
         /\ e.header \in Bin /\ e.content \in Bin /\ e.tail \in Bin
         /\ Len(e.header) \in Nat /\ Len(e.content) \in Nat /\ Len(e.tail) \in Nat
         /\ Rows(e.header) \in Nat /\ Rows(e.content) \in Nat /\ Rows(e.tail) \in Nat
  <1>1. /\ e.checks \in Nat /\ e.symbols \in Nat /\ e.diags \in Nat /\ e.errors \in Nat
        /\ e.header \in Bin /\ e.content \in Bin /\ e.tail \in Bin
    BY DumpAssumption DEF Bin
  <1> QED BY <1>1, RowsIs

(* The four lines a dump and its second part begin with.                     *)
LEMMA FourAre ==
  ASSUME NEW a \in Line, NEW b \in Line, NEW c \in Line, NEW d \in Line
  PROVE  /\ <<a, b, c, d>> \in Text /\ Len(<<a, b, c, d>>) = 4
         /\ <<a, b, c, d>>[1] = a /\ <<a, b, c, d>>[2] = b
         /\ <<a, b, c, d>>[3] = c /\ <<a, b, c, d>>[4] = d
  BY DEF Text

(* A text with a section behind it.                                          *)
Extends(t, a, n, name, bs) ==
  /\ t \in Text /\ Len(t) = n + Rows(bs) + 2
  /\ \A x \in 1 .. n : t[x] = a[x]
  /\ Printed(t, n + 1, name, bs)

(* As Dump puts them together.                                               *)
LEMMA WithSection ==
  ASSUME NEW a \in Text, NEW n \in Nat, Len(a) = n, NEW bs \in Bin, NEW name \in Names
  PROVE  Extends(Cat(a, Section(name, bs)), a, n, name, bs)
  <1>1. PICK s : s = Section(name, bs)
    OBVIOUS
  <1>2. PICK t : t = Cat(a, s)
    OBVIOUS
  <1>3. s \in Text /\ Len(s) = Rows(bs) + 2 /\ Rows(bs) \in Nat /\ Printed(s, 1, name, bs)
    BY <1>1, SectionIs
  <1>4. /\ t \in Text /\ Len(t) = Len(a) + Len(s)
        /\ \A x \in 1 .. Len(a) : t[x] = a[x]
        /\ \A x \in 1 .. Len(s) : t[Len(a) + x] = s[x]
    BY <1>2, <1>3, TextCat
  <1>5. /\ Len(t) = n + Rows(bs) + 2
        /\ \A x \in 1 .. n : t[x] = a[x]
        /\ \A x \in 1 .. Rows(bs) + 2 : t[n + x] = s[x]
    BY <1>3, <1>4
  <1>6. Printed(t, n + 1, name, bs)
    BY <1>3, <1>5, PrintedAt
  <1> QED BY <1>1, <1>2, <1>4, <1>5, <1>6 DEF Extends

(* A section stays where it is in a longer text.                             *)
LEMMA PrintedStill ==
  ASSUME NEW bs \in Bin, NEW name, NEW s, NEW d, NEW k \in Nat, NEW at \in Nat, NEW n \in Nat,
         Printed(s, at, name, bs), 1 <= at, at + Rows(bs) + 1 <= n,
         \A x \in 1 .. n : d[k + x] = s[x]
  PROVE  Printed(d, k + at, name, bs)
  <1>1. PICK r \in Nat : r = Rows(bs)
    BY RowsIs
  <1>2. /\ s[at] = Mark(name) /\ s[at + r + 1] = Dot
        /\ \A l \in 1 .. r : s[at + l] = Bytes(Row(bs, l))
        /\ at + r + 1 <= n
    BY <1>1 DEF Printed
  <1>3. d[k + at] = Mark(name)
    <2>1. at \in 1 .. n
      BY <1>2
    <2> QED BY <1>2, <2>1
  <1>4. ASSUME NEW l \in 1 .. r PROVE d[(k + at) + l] = Bytes(Row(bs, l))
    <2>1. at + l \in 1 .. n /\ k + (at + l) = (k + at) + l
      BY <1>2
    <2> QED BY <1>2, <2>1
  <1>5. d[(k + at) + r + 1] = Dot
    <2>1. at + r + 1 \in 1 .. n /\ k + (at + r + 1) = (k + at) + r + 1
      BY <1>2
    <2> QED BY <1>2, <2>1
  <1> QED BY <1>1, <1>3, <1>4, <1>5 DEF Printed

(* What is printed of an emission without errors.                            *)
Second(e) ==
  Cat(Cat(Cat(
    Cat(Cat(<<Pair("header-len", Len(e.header)), Pair("content-len", Len(e.content)),
              Pair("tail-len", Len(e.tail)), Mark("symbols")>>,
            Repeated(Other("symbol"), e.symbols)), <<Dot>>),
    Section("header", e.header)), Section("content", e.content)), Section("tail", e.tail))

(* Line by line.                                                             *)
LEMMA SecondIs ==
  ASSUME NEW e \in Emissions
  PROVE  LET h == 6 + e.symbols
             c == h + Rows(e.header) + 2
             t == c + Rows(e.content) + 2
             n == t + Rows(e.tail) + 1
             s == Second(e)
         IN /\ s \in Text /\ Len(s) = n
            /\ s[1] = Pair("header-len", Len(e.header))
            /\ s[2] = Pair("content-len", Len(e.content))
            /\ s[3] = Pair("tail-len", Len(e.tail)) /\ s[4] = Mark("symbols")
            /\ \A x \in 5 .. 4 + e.symbols : s[x] = Other("symbol")
            /\ s[5 + e.symbols] = Dot
            /\ Printed(s, h, "header", e.header)
            /\ Printed(s, c, "content", e.content)
            /\ Printed(s, t, "tail", e.tail)
  <1>1. PICK y \in Nat, hs \in Bin, cs \in Bin, ts \in Bin :
             y = e.symbols /\ hs = e.header /\ cs = e.content /\ ts = e.tail
    BY EmissionIs
  <1>2. PICK nh \in Nat, nc \in Nat, nt \in Nat :
             nh = Rows(hs) /\ nc = Rows(cs) /\ nt = Rows(ts)
    BY RowsIs
  <1>3. PICK p : p = <<Pair("header-len", Len(hs)), Pair("content-len", Len(cs)),
                       Pair("tail-len", Len(ts)), Mark("symbols")>>
    OBVIOUS
  <1>4. /\ p \in Text /\ Len(p) = 4
        /\ p[1] = Pair("header-len", Len(hs)) /\ p[2] = Pair("content-len", Len(cs))
        /\ p[3] = Pair("tail-len", Len(ts)) /\ p[4] = Mark("symbols")
    <2>1. Len(hs) \in Nat /\ Len(cs) \in Nat /\ Len(ts) \in Nat
      BY RowsIs
    <2>2. /\ Pair("header-len", Len(hs)) \in Line /\ Pair("content-len", Len(cs)) \in Line
          /\ Pair("tail-len", Len(ts)) \in Line /\ Mark("symbols") \in Line
      BY <2>1, LinesAre DEF Keys, Names
    <2> QED BY <1>3, <2>2, FourAre
  <1>5. PICK a : a = Cat(Cat(p, Repeated(Other("symbol"), y)), <<Dot>>)
    OBVIOUS
  <1>6. /\ a \in Text /\ Len(a) = 5 + y
        /\ \A x \in 1 .. 4 : a[x] = p[x]
        /\ \A x \in 5 .. 4 + y : a[x] = Other("symbol")
        /\ a[5 + y] = Dot
    <2>1. Other("symbol") \in Line
      BY LinesAre
    <2>2. Leads(a, p, Other("symbol"), y)
      BY <1>4, <1>5, <2>1, LeadIs
    <2> QED BY <2>2 DEF Leads
  <1>7. PICK b : b = Cat(a, Section("header", hs))
    OBVIOUS
  <1>8. PICK c : c = Cat(b, Section("content", cs))
    OBVIOUS
  <1>9. PICK s : s = Cat(c, Section("tail", ts))
    OBVIOUS
  <1>10. /\ b \in Text /\ Len(b) = (5 + y) + nh + 2
         /\ \A x \in 1 .. 5 + y : b[x] = a[x]
         /\ Printed(b, (5 + y) + 1, "header", hs)
    <2>1. "header" \in Names /\ 5 + y \in Nat
      BY DEF Names
    <2>2. Extends(b, a, 5 + y, "header", hs)
      BY <1>6, <1>7, <2>1, WithSection
    <2> QED BY <1>2, <2>2 DEF Extends
  <1>11. PICK nb \in Nat : nb = (5 + y) + nh + 2
    OBVIOUS
  <1>12. /\ c \in Text /\ Len(c) = nb + nc + 2
         /\ \A x \in 1 .. nb : c[x] = b[x]
         /\ Printed(c, nb + 1, "content", cs)
    <2>1. "content" \in Names
      BY DEF Names
    <2>2. Extends(c, b, nb, "content", cs)
      BY <1>8, <1>10, <1>11, <2>1, WithSection
    <2> QED BY <1>2, <2>2 DEF Extends
  <1>13. PICK nn \in Nat : nn = nb + nc + 2
    OBVIOUS
  <1>14. /\ s \in Text /\ Len(s) = nn + nt + 2
         /\ \A x \in 1 .. nn : s[x] = c[x]
         /\ Printed(s, nn + 1, "tail", ts)
    <2>1. "tail" \in Names
      BY DEF Names
    <2>2. Extends(s, c, nn, "tail", ts)
      BY <1>9, <1>12, <1>13, <2>1, WithSection
    <2> QED BY <1>2, <2>2 DEF Extends
  <1>15. Printed(s, nb + 1, "content", cs)
    <2>1. PICK at \in Nat : at = nb + 1
      OBVIOUS
    <2>2. 1 <= at /\ at + Rows(cs) + 1 <= nn /\ \A x \in 1 .. nn : s[0 + x] = c[x]
      BY <1>2, <1>13, <1>14, <2>1
    <2>3. Printed(c, at, "content", cs)
      BY <1>12, <2>1
    <2>4. Printed(s, 0 + at, "content", cs)
      BY <2>2, <2>3, PrintedStill
    <2> QED BY <2>1, <2>4
  <1>16. Printed(s, 6 + y, "header", hs)
    <2>1. (6 + y) + Rows(hs) + 1 <= nb /\ nb <= nn
      BY <1>2, <1>11, <1>13
    <2>2. \A x \in 1 .. nb : s[0 + x] = b[x]
      BY <1>12, <1>14, <2>1
    <2>3. Printed(b, 6 + y, "header", hs)
      <3>1. (5 + y) + 1 = 6 + y
        OBVIOUS
      <3> QED BY <1>10, <3>1
    <2>4. Printed(s, 0 + (6 + y), "header", hs)
      BY <2>1, <2>2, <2>3, PrintedStill
    <2> QED BY <2>4
  <1>17. \A x \in 1 .. 5 + y : s[x] = a[x]
    BY <1>10, <1>11, <1>12, <1>13, <1>14
  <1>18. s = Second(e)
    BY <1>1, <1>3, <1>5, <1>7, <1>8, <1>9 DEF Second
  <1>19. /\ s[1] = p[1] /\ s[2] = p[2] /\ s[3] = p[3] /\ s[4] = p[4]
         /\ \A x \in 5 .. 4 + y : s[x] = Other("symbol")
         /\ s[5 + y] = Dot
    BY <1>6, <1>17
  <1>20. Len(s) = (((6 + y) + nh + 2) + nc + 2) + nt + 1
    BY <1>11, <1>13, <1>14
  <1>21. nb + 1 = (6 + y) + nh + 2 /\ nn + 1 = ((6 + y) + nh + 2) + nc + 2
    BY <1>11, <1>13
  <1> QED BY <1>1, <1>2, <1>4, <1>14, <1>15, <1>16, <1>18, <1>19, <1>20, <1>21

(* A dump, line by line.                                                     *)
LEMMA DumpIs ==
  ASSUME NEW e \in Emissions
  PROVE  /\ Dump(e) \in Text /\ HeadShape(e, Dump(e))
         /\ e.errors = 0 => BodyShape(e, Dump(e))
         /\ e.errors # 0 => /\ Len(Dump(e)) = 7 + e.diags
                            /\ Dump(e)[6 + e.diags] = Other("halted")
                            /\ Dump(e)[7 + e.diags] = Other("end")
  <1>1. PICK n \in Nat : n = e.diags
    BY EmissionIs
  <1>2. PICK p : p = <<Pair("check-errors", e.checks), Pair("ir-defs", 1),
                       Pair("emit-errors", e.errors), Pair("emit-diags", e.diags)>>
    OBVIOUS
  <1>3. /\ p \in Text /\ Len(p) = 4
        /\ p[1] = Pair("check-errors", e.checks) /\ p[2] = Pair("ir-defs", 1)
        /\ p[3] = Pair("emit-errors", e.errors) /\ p[4] = Pair("emit-diags", e.diags)
    <2>1. e.checks \in Nat /\ e.errors \in Nat /\ e.diags \in Nat
      BY EmissionIs
    <2>2. /\ Pair("check-errors", e.checks) \in Line /\ Pair("ir-defs", 1) \in Line
          /\ Pair("emit-errors", e.errors) \in Line /\ Pair("emit-diags", e.diags) \in Line
      BY <2>1, LinesAre DEF Keys
    <2> QED BY <1>2, <2>2, FourAre
  <1>4. PICK a : a = Cat(Cat(p, Repeated(Other("diag"), n)), <<Dot>>)
    OBVIOUS
  <1>5. /\ a \in Text /\ Len(a) = 5 + n
        /\ \A x \in 1 .. 4 : a[x] = p[x]
        /\ \A x \in 5 .. 4 + n : a[x] = Other("diag")
        /\ a[5 + n] = Dot
    <2>1. Other("diag") \in Line
      BY LinesAre
    <2>2. Leads(a, p, Other("diag"), n)
      BY <1>3, <1>4, <2>1, LeadIs
    <2> QED BY <2>2 DEF Leads
  <1>6. PICK s : s = IF e.errors = 0 THEN Second(e) ELSE <<Other("halted")>>
    OBVIOUS
  <1>7. PICK m \in Nat : s \in Text /\ Len(s) = m
    <2>1. CASE e.errors = 0
      <3>1. s \in Text
        BY <1>6, <2>1, SecondIs
      <3> QED BY <3>1 DEF Text
    <2>2. CASE e.errors # 0
      <3>1. s \in Text
        BY <1>6, <2>2, TextOne, LinesAre
      <3> QED BY <3>1 DEF Text
    <2> QED BY <2>1, <2>2
  <1>8. PICK z : z = <<Other("end")>>
    OBVIOUS
  <1>9. z \in Text /\ Len(z) = 1 /\ z[1] = Other("end")
    <2>1. Other("end") \in Line
      BY LinesAre
    <2> QED BY <1>8, <2>1, TextOne
  <1>10. PICK b : b = Cat(a, s)
    OBVIOUS
  <1>11. PICK d : d = Cat(b, z)
    OBVIOUS
  <1>12. d = Dump(e)
    <2>1. e.errors = 0 => d = Dump(e)
      BY <1>1, <1>2, <1>4, <1>6, <1>8, <1>10, <1>11 DEF Dump, BytesPrinted, Second, Cat
    <2>2. e.errors # 0 => d = Dump(e)
      BY <1>1, <1>2, <1>4, <1>6, <1>8, <1>10, <1>11 DEF Dump, BytesPrinted, Cat
    <2> QED BY <2>1, <2>2
  <1>13. /\ b \in Text /\ Len(b) = (5 + n) + m
         /\ \A x \in 1 .. 5 + n : b[x] = a[x]
         /\ \A x \in 1 .. m : b[(5 + n) + x] = s[x]
    <2>1. /\ b \in Text /\ Len(b) = Len(a) + Len(s)
          /\ \A x \in 1 .. Len(a) : b[x] = a[x]
          /\ \A x \in 1 .. Len(s) : b[Len(a) + x] = s[x]
      BY <1>5, <1>7, <1>10, TextCat
    <2> QED BY <1>5, <1>7, <2>1
  <1>14. /\ d \in Text /\ Len(d) = (5 + n + m) + 1
         /\ \A x \in 1 .. 5 + n + m : d[x] = b[x]
         /\ d[(5 + n + m) + 1] = z[1]
    <2>1. /\ d \in Text /\ Len(d) = Len(b) + Len(z)
          /\ \A x \in 1 .. Len(b) : d[x] = b[x]
          /\ \A x \in 1 .. Len(z) : d[Len(b) + x] = z[x]
      BY <1>9, <1>11, <1>13, TextCat
    <2> QED BY <1>9, <1>13, <2>1
  <1>15. \A x \in 1 .. 5 + n : d[x] = a[x]
    BY <1>13, <1>14
  <1>16. \A x \in 1 .. m : d[(5 + n) + x] = s[x]
    <2> TAKE x \in 1 .. m
    <2>1. (5 + n) + x \in 1 .. 5 + n + m
      OBVIOUS
    <2> QED BY <1>13, <1>14, <2>1
  <1>17. HeadShape(e, d)
    <2>1. d[1] = p[1] /\ d[2] = p[2] /\ d[3] = p[3] /\ d[4] = p[4]
      BY <1>5, <1>15
    <2>2. \A x \in 5 .. 4 + n : d[x] = Other("diag")
      BY <1>5, <1>15
    <2>3. d[5 + n] = Dot
      BY <1>5, <1>15
    <2> QED BY <1>1, <1>3, <2>1, <2>2, <2>3 DEF HeadShape
  <1>18. ASSUME e.errors # 0
         PROVE  Len(d) = 7 + n /\ d[6 + n] = Other("halted") /\ d[7 + n] = Other("end")
    <2>1. m = 1 /\ s[1] = Other("halted")
      <3>1. Other("halted") \in Line
        BY LinesAre
      <3>2. s = <<Other("halted")>>
        BY <1>6, <1>18
      <3> QED BY <1>7, <3>1, <3>2, TextOne
    <2>2. (5 + n) + 1 = 6 + n /\ (5 + n + m) + 1 = 7 + n
      BY <2>1
    <2> QED BY <1>9, <1>14, <1>16, <2>1, <2>2
  <1>19. ASSUME e.errors = 0 PROVE BodyShape(e, d)
    <2>1. s = Second(e)
      BY <1>6, <1>19
    <2>2. PICK y \in Nat, nh \in Nat, nc \in Nat, nt \in Nat :
               y = e.symbols /\ nh = Rows(e.header) /\ nc = Rows(e.content) /\ nt = Rows(e.tail)
      BY EmissionIs
    <2>3. PICK h \in Nat, c \in Nat, t \in Nat :
               h = 6 + y /\ c = h + nh + 2 /\ t = c + nc + 2
      OBVIOUS
    <2>4. /\ m = t + nt + 1
          /\ s[1] = Pair("header-len", Len(e.header))
          /\ s[2] = Pair("content-len", Len(e.content))
          /\ s[3] = Pair("tail-len", Len(e.tail)) /\ s[4] = Mark("symbols")
          /\ \A x \in 5 .. 4 + y : s[x] = Other("symbol")
          /\ s[5 + y] = Dot
          /\ Printed(s, h, "header", e.header)
          /\ Printed(s, c, "content", e.content)
          /\ Printed(s, t, "tail", e.tail)
      BY <1>7, <2>1, <2>2, <2>3, SecondIs
    <2>5. PICK k \in Nat : k = 5 + n
      OBVIOUS
    <2>6. \A x \in 1 .. m : d[k + x] = s[x]
      BY <1>16, <2>5
    <2>7. m = t + nt + 1
      BY <2>4
    <2>8. H(e) = k + h /\ C(e) = k + c /\ T(e) = k + t /\ E(e) = (5 + n + m) + 1
      <3>1. /\ H(e) = 11 + n + y /\ C(e) = H(e) + nh + 2 /\ T(e) = C(e) + nc + 2
            /\ E(e) = T(e) + nt + 2
        BY <1>1, <2>2 DEF H, C, T, E
      <3>2. H(e) = k + h
        BY <2>3, <2>5, <3>1
      <3>3. C(e) = k + c
        BY <2>3, <3>1, <3>2
      <3>4. T(e) = k + t
        BY <2>3, <3>1, <3>3
      <3>5. E(e) = (5 + n + m) + 1
        BY <2>5, <2>7, <3>1, <3>4
      <3> QED BY <3>2, <3>3, <3>4, <3>5
    <2>9. 1 <= h /\ h + nh + 1 <= m /\ 1 <= c /\ c + nc + 1 <= m /\ 1 <= t /\ t + nt + 1 <= m
           /\ 5 + y <= m
      BY <2>3, <2>7
    <2>10. Printed(d, k + h, "header", e.header)
      <3>1. e.header \in Bin /\ 1 <= h /\ h + Rows(e.header) + 1 <= m
        BY <2>2, <2>9, EmissionIs
      <3> QED BY <2>4, <2>6, <3>1, PrintedStill
    <2>11. Printed(d, k + c, "content", e.content)
      <3>1. e.content \in Bin /\ 1 <= c /\ c + Rows(e.content) + 1 <= m
        BY <2>2, <2>9, EmissionIs
      <3> QED BY <2>4, <2>6, <3>1, PrintedStill
    <2>12. Printed(d, k + t, "tail", e.tail)
      <3>1. e.tail \in Bin /\ 1 <= t /\ t + Rows(e.tail) + 1 <= m
        BY <2>2, <2>9, EmissionIs
      <3> QED BY <2>4, <2>6, <3>1, PrintedStill
    <2>13. /\ d[6 + n] = s[1] /\ d[7 + n] = s[2] /\ d[8 + n] = s[3] /\ d[9 + n] = s[4]
           /\ d[10 + n + y] = s[5 + y]
      <3>1. /\ k + 1 = 6 + n /\ k + 2 = 7 + n /\ k + 3 = 8 + n /\ k + 4 = 9 + n
            /\ k + (5 + y) = 10 + n + y /\ m >= 5 + y
        BY <2>5, <2>9
      <3>2. /\ d[k + 1] = s[1] /\ d[k + 2] = s[2] /\ d[k + 3] = s[3] /\ d[k + 4] = s[4]
            /\ d[k + (5 + y)] = s[5 + y]
        BY <2>6, <3>1
      <3> QED BY <3>1, <3>2
    <2>14. \A l \in 10 + n .. 9 + n + y : d[l] = Other("symbol")
      <3> TAKE l \in 10 + n .. 9 + n + y
      <3>1. PICK x \in 5 .. 4 + y : l = k + x
        <4>1. l - k \in 5 .. 4 + y /\ l = k + (l - k)
          BY <2>5
        <4> QED BY <4>1
      <3>2. x \in 1 .. m
        BY <2>9
      <3> QED BY <2>4, <2>6, <3>1, <3>2
    <2>15. Len(d) = E(e) /\ d[E(e)] = Other("end")
      BY <1>9, <1>14, <2>8
    <2> QED BY <1>1, <2>2, <2>4, <2>8, <2>10, <2>11, <2>12, <2>13, <2>14, <2>15 DEF BodyShape
  <1> QED BY <1>1, <1>12, <1>14, <1>17, <1>18, <1>19
-----------------------------------------------------------------------------
(* What is left of a line that was cut: no dot is ever cut.                  *)
Left(a, line) ==
  /\ line # Dot
  /\ \/ a = line
     \/ a = Other("text")
     \/ line.kind = "pair" /\ \E v \in Nat : a = Pair(line.key, v)
     \/ line.kind = "bytes" /\ \E bs \in CutBytes(line.val) : a = Bytes(bs)

(* A cut line is such a line.                                                *)
LEMMA CutLineIs ==
  ASSUME NEW line \in Line, NEW a \in CutLines(line)
  PROVE  a \in Line /\ Left(a, line)
  <1>1. Other("text") \in Line
    BY LinesAre
  <1>2. CASE line \in [kind : {"pair"}, key : Keys, val : Nat]
    <2>1. line.kind = "pair" /\ line.key \in Keys /\ line.val \in Nat /\ line # Dot
      BY <1>2 DEF Dot, Other
    <2>2. CutLines(line) = {Other("text")} \cup {Pair(line.key, d) : d \in Digits(line.val)}
      BY <2>1 DEF CutLines
    <2>3. CASE a = Other("text")
      BY <1>1, <2>1, <2>3 DEF Left
    <2>4. CASE a # Other("text")
      <3>1. PICK v \in Digits(line.val) : a = Pair(line.key, v)
        BY <2>2, <2>4
      <3>2. PICK t \in Tens : v = line.val \div t
        BY DEF Digits
      <3>3. t \in Nat \ {0}
        BY DEF Tens
      <3>4. v \in Nat
        BY <2>1, <3>2, <3>3, Division
      <3>5. a \in Line
        BY <2>1, <3>1, <3>4, LinesAre
      <3> QED BY <2>1, <3>1, <3>4, <3>5 DEF Left
    <2> QED BY <2>3, <2>4
  <1>3. CASE line \in [kind : {"mark"}, key : Names]
    <2>1. line.kind = "mark" /\ line # Dot
      BY <1>3 DEF Dot, Other
    <2>2. CutLines(line) = {line, Other("text")}
      BY <2>1 DEF CutLines
    <2> QED BY <1>1, <2>1, <2>2 DEF Left
  <1>4. CASE line \in [kind : {"bytes"}, val : Bin]
    <2>1. line.kind = "bytes" /\ line.val \in Bin /\ line # Dot
      BY <1>4 DEF Dot, Other
    <2>2. CutLines(line) = {Bytes(bs) : bs \in CutBytes(line.val)}
      BY <2>1 DEF CutLines
    <2>3. PICK bs \in CutBytes(line.val) : a = Bytes(bs)
      BY <2>2
    <2>4. bs \in Bin
      BY <2>1, CutBytesIs
    <2>5. a \in Line
      BY <2>3, <2>4, LinesAre
    <2> QED BY <2>1, <2>3, <2>5 DEF Left
  <1>5. CASE line \in [kind : {"dot", "diag", "symbol", "halted", "end", "text"}]
    <2>1. line.kind \in {"dot", "diag", "symbol", "halted", "end", "text"}
      BY <1>5
    <2>2. CASE line.kind = "dot"
      <3>1. CutLines(line) = {}
        BY <2>2 DEF CutLines
      <3> QED BY <3>1
    <2>3. CASE line.kind = "end"
      <3>1. CutLines(line) = {line, Other("text")} /\ line # Dot
        BY <2>3 DEF CutLines, Dot, Other
      <3> QED BY <1>1, <3>1 DEF Left
    <2>4. CASE line.kind \in {"diag", "symbol", "halted", "text"}
      <3>1. CutLines(line) = {Other("text")} /\ line # Dot
        BY <2>4 DEF CutLines, Dot, Other
      <3> QED BY <1>1, <3>1 DEF Left
    <2> QED BY <2>1, <2>2, <2>3, <2>4
  <1> QED BY <1>2, <1>3, <1>4, <1>5 DEF Line

(* All but the last line is as it was.                                       *)
CutFrom(d, whole) ==
  /\ d \in Text /\ Len(d) <= Len(whole) /\ Len(d) \in Nat /\ Len(whole) \in Nat
  /\ \A l \in 1 .. Len(d) : d[l] = whole[l] \/ (l = Len(d) /\ Left(d[l], whole[l]))

(* A cut dump.                                                               *)
LEMMA CutIs ==
  ASSUME NEW whole \in Text, NEW d \in Cuts(whole)
  PROVE  CutFrom(d, whole)
  <1>1. Len(whole) \in Nat /\ \A l \in 1 .. Len(whole) : whole[l] \in Line
    BY DEF Text
  <1>2. ASSUME NEW n \in 0 .. Len(whole)
        PROVE  /\ SubSeq(whole, 1, n) \in Text /\ Len(SubSeq(whole, 1, n)) = n
               /\ \A l \in 1 .. n : SubSeq(whole, 1, n)[l] = whole[l]
    BY DEF Text
  <1>3. ASSUME NEW n \in 0 .. Len(whole), d = SubSeq(whole, 1, n) PROVE CutFrom(d, whole)
    BY <1>1, <1>2, <1>3 DEF CutFrom
  <1>4. ASSUME NEW n \in 1 .. Len(whole), NEW line \in CutLines(whole[n]),
               d = Append(SubSeq(whole, 1, n - 1), line)
        PROVE  CutFrom(d, whole)
    <2>1. line \in Line /\ Left(line, whole[n])
      BY <1>1, CutLineIs
    <2>2. n - 1 \in 0 .. Len(whole) /\ n \in Nat
      BY <1>1
    <2>3. PICK pre : pre = SubSeq(whole, 1, n - 1)
      OBVIOUS
    <2>4. pre \in Text /\ Len(pre) = n - 1 /\ \A l \in 1 .. n - 1 : pre[l] = whole[l]
      BY <1>2, <2>2, <2>3
    <2>5. d = Append(pre, line)
      BY <1>4, <2>3
    <2>6. /\ d \in Text /\ Len(d) = Len(pre) + 1
          /\ \A l \in 1 .. Len(pre) : d[l] = pre[l]
          /\ d[Len(pre) + 1] = line
      BY <2>1, <2>4, <2>5 DEF Text
    <2>7. Len(d) = n /\ d[n] = line /\ \A l \in 1 .. n - 1 : d[l] = whole[l]
      BY <2>2, <2>4, <2>6
    <2> QED BY <1>1, <2>1, <2>2, <2>6, <2>7 DEF CutFrom
  <1>5. CASE \E n \in 0 .. Len(whole) : d = SubSeq(whole, 1, n)
    BY <1>3, <1>5
  <1>6. CASE \E n \in 1 .. Len(whole) :
               d \in {Append(SubSeq(whole, 1, n - 1), line) : line \in CutLines(whole[n])}
    BY <1>4, <1>6
  <1> QED BY <1>5, <1>6 DEF Cuts

(* What may be told of the whole dump's line from what is left of it.        *)
LEMMA Told ==
  ASSUME NEW a, NEW line \in Line, a = line \/ Left(a, line)
  PROVE  /\ a.kind \in {line.kind, "text"}
         /\ a = Dot <=> line = Dot
         /\ a.kind = "mark" \/ a.kind = "symbol" \/ a.kind = "end" => a = line
         /\ a.kind = "pair" => line.kind = "pair" /\ a.key = line.key
         /\ a.kind = "bytes" =>
              line.kind = "bytes" /\ (a = line \/ \E bs \in CutBytes(line.val) : a = Bytes(bs))
  <1>1. CASE a = line
    BY <1>1
  <1>2. CASE a = Other("text") /\ line # Dot
    BY <1>2 DEF Other, Dot
  <1>3. ASSUME NEW v \in Nat, a = Pair(line.key, v), line.kind = "pair", line # Dot
        PROVE  a.kind = "pair" /\ a.key = line.key /\ a # Dot
    BY <1>3 DEF Pair, Dot, Other
  <1>4. ASSUME NEW bs \in CutBytes(line.val), a = Bytes(bs), line.kind = "bytes", line # Dot
        PROVE  a.kind = "bytes" /\ a # Dot
    BY <1>4 DEF Bytes, Dot, Other
  <1> QED BY <1>1, <1>2, <1>3, <1>4 DEF Left
-----------------------------------------------------------------------------
(* The inductive invariant.  What the reader was given is the dump, whole or *)
(* cut.                                                                      *)
Whole == Dump(emission)

Given ==
  /\ emission \in Emissions /\ CutFrom(dump, Whole)
  /\ i \in 1 .. Len(dump) + 2
  /\ mode \in {"head", "sections", "done"}
  /\ verdict \in {"none", "accepted", "refused"}
  /\ \A k \in DOMAIN lens : lens[k] \in Nat
  /\ DOMAIN sections \subseteq {"header", "content", "tail"}
  /\ mode = "done" <=> verdict # "none"

Has(k, n) == k \in DOMAIN lens /\ lens[k] = n

(* In the head the reader is at a line that is a pair in the whole dump, or  *)
(* where there should be one, and has the lengths of those behind it.        *)
InHead ==
  \/ i \in 1 .. 4
  \/ emission.errors # 0 /\ i = 6 + emission.diags
  \/ /\ emission.errors = 0 /\ i \in 6 + emission.diags .. 9 + emission.diags
     /\ i > 6 + emission.diags => Has("header-len", Len(emission.header))
     /\ i > 7 + emission.diags => Has("content-len", Len(emission.content))
     /\ i > 8 + emission.diags => Has("tail-len", Len(emission.tail))
  \/ i = Len(dump) + 1 /\ dump # Whole

HeadInv == mode = "head" => DOMAIN sections = {} /\ InHead

(* What CarvedAsEmitted asks of the sections of a binary that is accepted.   *)
Sound == Len(emission.tail) - (IF IsPrefix(dump, Whole) THEN 0 ELSE 1)
Right ==
  /\ emission.errors = 0
  /\ sections["header"] = emission.header /\ sections["content"] = emission.content
  /\ Len(sections["tail"]) = Len(emission.tail)
  /\ \A k \in 1 .. Sound : sections["tail"][k] = emission.tail[k]

(* Behind the head it is at the start of a section with those before it      *)
(* carved as emitted, or past the end of a dump that was cut.                *)
AtSection ==
  /\ emission.errors = 0
  /\ Has("header-len", Len(emission.header)) /\ Has("content-len", Len(emission.content))
  /\ Has("tail-len", Len(emission.tail))
  /\ \/ i \in {9 + emission.diags, H(emission)} /\ DOMAIN sections = {}
     \/ i = C(emission) /\ DOMAIN sections = {"header"} /\ sections["header"] = emission.header
     \/ /\ i = T(emission) /\ DOMAIN sections = {"header", "content"}
        /\ sections["header"] = emission.header /\ sections["content"] = emission.content
     \/ i = E(emission) /\ DOMAIN sections = {"header", "content", "tail"} /\ Right

PastEnd ==
  /\ i > Len(dump) /\ dump # Whole
  /\ DOMAIN sections = {"header", "content", "tail"} => Right

SectionsInv == mode = "sections" => AtSection \/ PastEnd

(* And the verdict is right.                                                 *)
VerdictInv ==
  /\ verdict = "accepted" => Right
  /\ verdict = "refused" => ~(dump = Whole /\ emission.errors = 0)

Inv == Given /\ HeadInv /\ SectionsInv /\ VerdictInv
-----------------------------------------------------------------------------
(* Where the parts of a dump lie.                                            *)
LEMMA Sizes ==
  ASSUME NEW e \in Emissions
  PROVE  /\ e.diags \in Nat /\ e.symbols \in Nat /\ e.errors \in Nat
         /\ H(e) \in Nat /\ C(e) \in Nat /\ T(e) \in Nat /\ E(e) \in Nat
         /\ H(e) = 11 + e.diags + e.symbols
         /\ C(e) = H(e) + Rows(e.header) + 2 /\ Rows(e.header) \in Nat
         /\ T(e) = C(e) + Rows(e.content) + 2 /\ Rows(e.content) \in Nat
         /\ E(e) = T(e) + Rows(e.tail) + 2 /\ Rows(e.tail) \in Nat
  <1>1. PICK n \in Nat, y \in Nat : n = e.diags /\ y = e.symbols
    BY EmissionIs
  <1>2. PICK a \in Nat, b \in Nat, c \in Nat :
          a = Rows(e.header) /\ b = Rows(e.content) /\ c = Rows(e.tail)
    BY EmissionIs
  <1>3. H(e) = 11 + n + y
    BY <1>1 DEF H
  <1>4. C(e) = H(e) + a + 2
    BY <1>2 DEF C
  <1>5. T(e) = C(e) + b + 2
    BY <1>2 DEF T
  <1>6. E(e) = T(e) + c + 2
    BY <1>2 DEF E
  <1>7. H(e) \in Nat
    BY <1>3
  <1>8. C(e) \in Nat
    BY <1>4, <1>7
  <1>9. T(e) \in Nat
    BY <1>5, <1>8
  <1>10. E(e) \in Nat
    BY <1>6, <1>9
  <1>11. e.errors \in Nat
    BY EmissionIs
  <1> QED BY <1>1, <1>2, <1>3, <1>4, <1>5, <1>6, <1>7, <1>8, <1>9, <1>10, <1>11

(* The whole dump in hand.                                                   *)
LEMMA WholeIs ==
  ASSUME Given
  PROVE  /\ emission \in Emissions /\ Whole \in Text /\ CutFrom(dump, Whole)
         /\ HeadShape(emission, Whole)
         /\ emission.errors = 0 => BodyShape(emission, Whole)
         /\ emission.errors # 0 => /\ Len(Whole) = 7 + emission.diags
                                   /\ Whole[6 + emission.diags] = Other("halted")
         /\ Len(Whole) \in Nat /\ Len(dump) \in Nat /\ Len(dump) <= Len(Whole)
         /\ Len(Whole) >= 7 + emission.diags
         /\ emission.errors = 0 => Len(Whole) >= 17 + emission.diags
  <1>1. emission \in Emissions /\ CutFrom(dump, Whole)
    BY DEF Given
  <1>2. /\ Whole \in Text /\ HeadShape(emission, Whole)
        /\ emission.errors = 0 => BodyShape(emission, Whole)
        /\ emission.errors # 0 => /\ Len(Whole) = 7 + emission.diags
                                  /\ Whole[6 + emission.diags] = Other("halted")
    BY <1>1, DumpIs DEF Whole
  <1>3. Len(Whole) \in Nat /\ Len(dump) \in Nat /\ Len(dump) <= Len(Whole)
    BY <1>1 DEF CutFrom
  <1>4. emission.errors = 0 => Len(Whole) >= 17 + emission.diags
    <2>1. emission.errors = 0 => Len(Whole) = E(emission)
      BY <1>2 DEF BodyShape
    <2>2. E(emission) >= 17 + emission.diags
      BY <1>1, Sizes
    <2>3. emission.diags \in Nat
      BY <1>1, Sizes
    <2> QED BY <2>1, <2>2, <2>3
  <1>5. Len(Whole) >= 7 + emission.diags
    <2>1. emission.diags \in Nat
      BY <1>1, Sizes
    <2> QED BY <1>2, <1>3, <1>4, <2>1
  <1> QED BY <1>1, <1>2, <1>3, <1>4, <1>5

(* A line the reader has.                                                    *)
LEMMA Seen ==
  ASSUME Given, NEW l \in Lines
  PROVE  /\ l \in 1 .. Len(Whole) /\ dump[l] \in Line /\ Whole[l] \in Line
         /\ dump[l] = Whole[l] \/ (l = Len(dump) /\ Left(dump[l], Whole[l]))
         /\ dump[l].kind \in {Whole[l].kind, "text"}
         /\ dump[l] = Dot <=> Whole[l] = Dot
         /\ dump[l].kind = "mark" \/ dump[l].kind = "symbol" \/ dump[l].kind = "end"
              => dump[l] = Whole[l]
         /\ dump[l].kind = "pair" => Whole[l].kind = "pair" /\ dump[l].key = Whole[l].key
         /\ dump[l].kind = "bytes" =>
              /\ Whole[l].kind = "bytes"
              /\ \/ dump[l] = Whole[l]
                 \/ \E bs \in CutBytes(Whole[l].val) : dump[l] = Bytes(bs)
  <1>1. l \in 1 .. Len(dump) /\ Whole \in Text /\ dump \in Text /\ Len(dump) <= Len(Whole)
        /\ Len(dump) \in Nat /\ Len(Whole) \in Nat
    BY WholeIs DEF Lines, CutFrom
  <1>2. l \in 1 .. Len(Whole)
    BY <1>1
  <1>3. dump[l] \in Line /\ Whole[l] \in Line
    BY <1>1, <1>2 DEF Text
  <1>4. dump[l] = Whole[l] \/ (l = Len(dump) /\ Left(dump[l], Whole[l]))
    BY <1>1, WholeIs DEF CutFrom
  <1> QED BY <1>2, <1>3, <1>4, Told

(* The value of a pair is a number.                                          *)
LEMMA PairVal ==
  ASSUME NEW line \in Line, line.kind = "pair" PROVE line.val \in Nat
  BY DEF Line

(* A count or a section more.                                                *)
LEMMA WithIs ==
  ASSUME NEW f, NEW k, NEW v
  PROVE  /\ DOMAIN With(f, k, v) = DOMAIN f \cup {k} /\ With(f, k, v)[k] = v
         /\ \A x \in DOMAIN f : x # k => With(f, k, v)[x] = f[x]
  BY DEF With

(* What the whole dump has where the reader is in the head.                  *)
LEMMA HeadAt ==
  ASSUME Given, InHead
  PROVE  \/ i = Len(dump) + 1 /\ dump # Whole
         \/ /\ i \in 1 .. 3
            /\ Whole[i].kind = "pair" /\ Whole[i].key \in {"check-errors", "ir-defs", "emit-errors"}
         \/ i = 4 /\ Whole[i] = Pair("emit-diags", emission.diags)
         \/ /\ emission.errors # 0 /\ i = 6 + emission.diags
            /\ Whole[i] = Other("halted")
         \/ /\ emission.errors = 0 /\ i = 6 + emission.diags
            /\ Whole[i] = Pair("header-len", Len(emission.header))
         \/ /\ emission.errors = 0 /\ i = 7 + emission.diags
            /\ Whole[i] = Pair("content-len", Len(emission.content))
            /\ Has("header-len", Len(emission.header))
         \/ /\ emission.errors = 0 /\ i = 8 + emission.diags
            /\ Whole[i] = Pair("tail-len", Len(emission.tail))
            /\ Has("header-len", Len(emission.header))
            /\ Has("content-len", Len(emission.content))
         \/ /\ emission.errors = 0 /\ i = 9 + emission.diags
            /\ Whole[i] = Mark("symbols")
            /\ Has("header-len", Len(emission.header))
            /\ Has("content-len", Len(emission.content))
            /\ Has("tail-len", Len(emission.tail))
  <1>1. PICK n \in Nat : n = emission.diags
    BY WholeIs, Sizes
  <1>2. CASE i \in 1 .. 4
    <2>1. /\ Whole[1] = Pair("check-errors", emission.checks) /\ Whole[2] = Pair("ir-defs", 1)
          /\ Whole[3] = Pair("emit-errors", emission.errors)
          /\ Whole[4] = Pair("emit-diags", emission.diags)
      BY WholeIs DEF HeadShape
    <2>2. i = 1 \/ i = 2 \/ i = 3 \/ i = 4
      BY <1>2
    <2> QED BY <2>1, <2>2 DEF Pair
  <1>3. CASE emission.errors # 0 /\ i = 6 + emission.diags
    BY <1>3, WholeIs
  <1>4. CASE /\ emission.errors = 0 /\ i \in 6 + n .. 9 + n
             /\ i > 6 + n => Has("header-len", Len(emission.header))
             /\ i > 7 + n => Has("content-len", Len(emission.content))
             /\ i > 8 + n => Has("tail-len", Len(emission.tail))
    <2>1. /\ Whole[6 + n] = Pair("header-len", Len(emission.header))
          /\ Whole[7 + n] = Pair("content-len", Len(emission.content))
          /\ Whole[8 + n] = Pair("tail-len", Len(emission.tail))
          /\ Whole[9 + n] = Mark("symbols")
      BY <1>1, <1>4, WholeIs DEF BodyShape
    <2>2. i = 6 + n \/ i = 7 + n \/ i = 8 + n \/ i = 9 + n
      BY <1>4
    <2>3. CASE i = 6 + n
      BY <1>1, <1>4, <2>1, <2>3
    <2>4. CASE i = 7 + n
      BY <1>1, <1>4, <2>1, <2>4
    <2>5. CASE i = 8 + n
      BY <1>1, <1>4, <2>1, <2>5
    <2>6. CASE i = 9 + n
      BY <1>1, <1>4, <2>1, <2>6
    <2> QED BY <2>2, <2>3, <2>4, <2>5, <2>6
  <1>5. CASE i = Len(dump) + 1 /\ dump # Whole
    BY <1>5
  <1> QED BY <1>1, <1>2, <1>3, <1>4, <1>5 DEF InHead
-----------------------------------------------------------------------------
(* r is the first of n .. top in B, or the number behind top.                *)
Firstly(r, n, top, B) ==
  /\ r \in n .. top + 1
  /\ \A x \in n .. r - 1 : x \notin B
  /\ r <= top => r \in B

(* What a search through the rest of a text finds, as the readers use it.    *)
LEMMA FirstIs ==
  ASSUME NEW n \in Nat, NEW top \in Nat, 1 <= n, n <= top + 1, NEW B,
         NEW r, NEW I \in SUBSET 1 .. top + 1 - n,
         \A x \in 1 .. top + 1 - n : x \in I <=> n - 1 + x \in B,
         r = IF I # {} THEN n - 1 + Min(I) ELSE top + 1
  PROVE  Firstly(r, n, top, B)
  <1>1. CASE I # {}
    <2>1. I \in SUBSET Nat
      OBVIOUS
    <2>2. Min(I) \in I /\ \A y \in I : Min(I) <= y
      BY <1>1, <2>1, MinIs
    <2>3. PICK k \in 1 .. top + 1 - n : k = Min(I) /\ n - 1 + k \in B
      BY <2>2
    <2>4. r = n - 1 + k /\ r \in n .. top
      BY <1>1, <2>3
    <2>5. ASSUME NEW x \in n .. r - 1 PROVE x \notin B
      <3>1. PICK y \in 1 .. top + 1 - n : y = x - n + 1
        BY <2>4, <2>5
      <3>2. n - 1 + y = x /\ ~(k <= y)
        BY <2>4, <2>5, <3>1
      <3>3. y \notin I
        BY <2>2, <2>3, <3>2
      <3> QED BY <3>1, <3>2, <3>3
    <2> QED BY <2>3, <2>4, <2>5 DEF Firstly
  <1>2. CASE I = {}
    <2>1. r = top + 1 /\ r \in n .. top + 1
      BY <1>2
    <2>2. ASSUME NEW x \in n .. top PROVE x \notin B
      <3>1. PICK y \in 1 .. top + 1 - n : y = x - n + 1
        BY <2>2
      <3>2. n - 1 + y = x
        BY <2>2, <3>1
      <3> QED BY <1>2, <3>1, <3>2
    <2> QED BY <2>1, <2>2 DEF Firstly
  <1> QED BY <1>1, <1>2

(* The rest of a text.                                                       *)
LEMMA RestIs ==
  ASSUME NEW d \in Text, NEW n \in Nat, 1 <= n, n <= Len(d) + 1
  PROVE  /\ SubSeq(d, n, Len(d)) \in Text /\ Len(SubSeq(d, n, Len(d))) = Len(d) + 1 - n
         /\ \A x \in 1 .. Len(d) + 1 - n : SubSeq(d, n, Len(d))[x] = d[n - 1 + x]
  BY DEF Text

(* Where a section ends: at the first dot behind its mark.                   *)
LEMMA SectionEndIs ==
  ASSUME dump \in Text, Len(dump) \in Nat, i \in Lines
  PROVE  Firstly(SectionEnd, i + 1, Len(dump), {l \in Lines : dump[l] = Dot})
  <1> DEFINE rest == SubSeq(dump, i + 1, Len(dump))
             B == {l \in Lines : dump[l] = Dot}
             I == {x \in 1 .. Len(rest) : rest[x] = Dot}
  <1>1. i \in 1 .. Len(dump) /\ i + 1 \in Nat /\ 1 <= i + 1 /\ i + 1 <= Len(dump) + 1
    BY DEF Lines
  <1>2. Len(rest) = Len(dump) - i
        /\ \A x \in 1 .. Len(dump) - i : rest[x] = dump[i + x]
    BY <1>1, RestIs
  <1>3. /\ I \in SUBSET 1 .. Len(dump) + 1 - (i + 1)
        /\ \A x \in 1 .. Len(dump) + 1 - (i + 1) : x \in I <=> i + 1 - 1 + x \in B
    <2>1. ASSUME NEW x \in 1 .. Len(dump) - i PROVE rest[x] = Dot <=> i + 1 - 1 + x \in B
      <3>1. i + x \in Lines /\ i + 1 - 1 + x = i + x
        BY <1>1 DEF Lines
      <3> QED BY <1>2, <3>1
    <2>2. 1 .. Len(rest) = 1 .. Len(dump) + 1 - (i + 1)
      BY <1>1, <1>2
    <2>3. 1 .. Len(rest) = 1 .. Len(dump) - i
      BY <1>2
    <2> HIDE DEF rest, B
    <2> QED BY <2>1, <2>2, <2>3
  <1>4. SectionEnd = IF I # {} THEN i + 1 - 1 + Min(I) ELSE Len(dump) + 1
    <2> DEFINE j == SelectInSeq(rest, LAMBDA line : line = Dot)
    <2>1. j = IF I # {} THEN Min(I) ELSE 0
      BY DEF SelectInSeq
    <2>2. SectionEnd = IF j = 0 THEN Len(dump) + 1 ELSE i + j
      BY DEF SectionEnd
    <2>3. I # {} => Min(I) \in Nat /\ Min(I) # 0
      <3>1. I \in SUBSET Nat /\ 0 \notin I
        OBVIOUS
      <3> HIDE DEF I
      <3> QED BY <3>1, MinIs
    <2> HIDE DEF j, I
    <2> QED BY <1>1, <2>1, <2>2, <2>3
  <1> HIDE DEF B, I, rest
  <1>5. Firstly(SectionEnd, i + 1, Len(dump), B)
    BY <1>1, <1>3, <1>4, FirstIs
  <1> QED BY <1>5 DEF B

(* The dot of the whole dump closes a section, or it has been cut off.       *)
LEMMA DotAt ==
  ASSUME Given, i \in Lines, NEW stop \in Nat, i < stop, stop <= Len(Whole),
         Whole[stop] = Dot, \A l \in i + 1 .. stop - 1 : Whole[l] # Dot
  PROVE  SectionEnd = IF stop <= Len(dump) THEN stop ELSE Len(dump) + 1
  <1>1. PICK n \in Nat : n = Len(dump)
    BY WholeIs
  <1>2. i \in 1 .. n /\ Lines = 1 .. n
    BY <1>1 DEF Lines
  <1>3. dump \in Text
    BY WholeIs DEF CutFrom
  <1>4. PICK e : e = SectionEnd
    OBVIOUS
  <1>5. Firstly(e, i + 1, n, {l \in Lines : dump[l] = Dot})
    BY <1>1, <1>3, <1>4, SectionEndIs
  <1>6. /\ e \in i + 1 .. n + 1
        /\ \A x \in i + 1 .. e - 1 : x \notin {l \in Lines : dump[l] = Dot}
        /\ e <= n => e \in {l \in Lines : dump[l] = Dot}
    BY <1>5 DEF Firstly
  <1>7. \A l \in 1 .. n : dump[l] = Dot <=> Whole[l] = Dot
    BY <1>2, Seen
  <1>8. e <= n => Whole[e] = Dot /\ ~(e \in i + 1 .. stop - 1)
    BY <1>2, <1>6, <1>7
  <1>9. CASE stop <= n
    <2>1. stop \in {l \in Lines : dump[l] = Dot}
      BY <1>2, <1>7, <1>9
    <2>2. stop \notin i + 1 .. e - 1
      BY <1>6, <2>1
    <2>3. e <= stop
      BY <1>2, <1>6, <2>2
    <2>4. e = stop
      BY <1>2, <1>6, <1>8, <1>9, <2>3
    <2> QED BY <1>1, <1>4, <1>9, <2>4
  <1>10. CASE ~(stop <= n)
    <2>1. e = n + 1
      BY <1>2, <1>6, <1>8, <1>10
    <2> QED BY <1>1, <1>4, <1>10, <2>1
  <1> QED BY <1>9, <1>10
-----------------------------------------------------------------------------
(* A reader begins with the invariant.                                       *)
LEMMA InitInv == Init => Inv
  <1> SUFFICES ASSUME Init PROVE Inv
    OBVIOUS
  <1>1. emission \in Emissions /\ dump \in Cuts(Whole)
    BY DEF Init, Whole
  <1>2. Whole \in Text
    BY <1>1, DumpIs DEF Whole
  <1>3. CutFrom(dump, Whole)
    BY <1>1, <1>2, CutIs
  <1>4. Len(dump) \in Nat
    BY <1>3 DEF CutFrom
  <1>5. i = 1 /\ mode = "head" /\ verdict = "none" /\ DOMAIN lens = {} /\ DOMAIN sections = {}
    BY DEF Init
  <1>6. Given
    BY <1>1, <1>3, <1>4, <1>5 DEF Given
  <1>7. HeadInv
    BY <1>5 DEF HeadInv, InHead
  <1> QED BY <1>5, <1>6, <1>7 DEF Inv, SectionsInv, VerdictInv

(* What the reader was given stays.                                          *)
LEMMA StillGiven ==
  ASSUME Given, UNCHANGED given
  PROVE  /\ emission' = emission /\ dump' = dump /\ Whole' = Whole /\ Lines' = Lines
         /\ emission' \in Emissions /\ CutFrom(dump', Whole')
  BY DEF Given, given, Whole, Lines

(* Nothing but the mode and the verdict changes in a refusal.                *)
LEMMA RefuseInv ==
  ASSUME Inv, mode \in {"head", "sections"}, UNCHANGED given, Refuse,
         ~(dump = Whole /\ emission.errors = 0)
  PROVE  Inv'
  <1>1. Given
    BY DEF Inv
  <1>2. /\ mode' = "done" /\ verdict' = "refused" /\ i' = i /\ lens' = lens
        /\ sections' = sections
    BY DEF Refuse
  <1>3. /\ emission' = emission /\ dump' = dump /\ Whole' = Whole
        /\ emission' \in Emissions /\ CutFrom(dump', Whole')
    BY <1>1, StillGiven
  <1>4. Given'
    BY <1>1, <1>2, <1>3 DEF Given
  <1>5. VerdictInv'
    BY <1>2, <1>3 DEF VerdictInv
  <1> QED BY <1>2, <1>4, <1>5 DEF Inv, HeadInv, SectionsInv

(* A line of the head refused is not one of a whole dump of a binary.        *)
LEMMA HeadRefused ==
  ASSUME Given, InHead, i \in Lines, dump[i].kind # "mark", emission.errors = 0,
         dump = Whole
  PROVE  /\ dump[i].kind = "pair"
         /\ Extent(dump[i]) > 1 =>
              Following - 1 \in Lines /\ dump[Following - 1] = Dot
  <1>1. PICK n \in Nat : n = Len(dump)
    BY WholeIs
  <1>2. i \in 1 .. n /\ Lines = 1 .. n /\ i # Len(dump) + 1
    BY <1>1 DEF Lines
  <1>3. dump[i].kind = "pair"
    BY <1>2, HeadAt DEF Pair, Mark
  <1>4. dump[i].key = "emit-diags" => i = 4 /\ dump[4] = Pair("emit-diags", emission.diags)
    BY <1>2, <1>3, HeadAt DEF Pair, Mark
  <1>5. ASSUME Extent(dump[i]) > 1
        PROVE  Following - 1 \in Lines /\ dump[Following - 1] = Dot
    <2>1. dump[i].key = "emit-diags"
      BY <1>5 DEF Extent
    <2>2. PICK k \in Nat : k = emission.diags
      BY Sizes, WholeIs
    <2>3. i = 4 /\ dump[i].val = k
      BY <1>4, <2>1, <2>2 DEF Pair
    <2>4. Following - 1 = 5 + k
      BY <2>1, <2>3 DEF Extent, Following
    <2>5. dump[5 + k] = Dot
      BY <2>2, WholeIs DEF HeadShape
    <2>6. 5 + k <= n
      <3>1. n >= 17 + k
        BY <1>1, <2>2, WholeIs
      <3> QED BY <3>1
    <2> QED BY <1>2, <2>4, <2>5, <2>6
  <1> QED BY <1>3, <1>5

(* A pair of the head taken in.                                              *)
LEMMA HeadTaken ==
  ASSUME Given, InHead, i \in Lines, dump[i].kind = "pair",
         Extent(dump[i]) > 1 =>
           Following - 1 \in Lines /\ dump[Following - 1] = Dot,
         UNCHANGED given, lens' = With(lens, dump[i].key, dump[i].val),
         i' = Following
  PROVE  InHead' /\ i' \in 1 .. Len(dump) + 2 /\ \A k \in DOMAIN lens' : lens'[k] \in Nat
  <1>1. PICK n \in Nat : n = Len(dump)
    BY WholeIs
  <1>2. i \in 1 .. n /\ Lines = 1 .. n /\ i # Len(dump) + 1
    BY <1>1 DEF Lines
  <1>3. PICK k \in Nat : k = emission.diags
    BY Sizes, WholeIs
  <1>4. emission' = emission /\ dump' = dump /\ Whole' = Whole
    BY StillGiven
  <1>5. PICK v \in Nat : v = dump[i].val
    BY Seen, PairVal
  <1>6. /\ Whole[i].kind = "pair" /\ dump[i].key = Whole[i].key
        /\ dump[i] = Whole[i] \/ i = n
    BY <1>1, Seen
  <1>7. DOMAIN lens' = DOMAIN lens \cup {dump[i].key} /\ lens'[dump[i].key] = v
        /\ \A x \in DOMAIN lens : x # dump[i].key => lens'[x] = lens[x]
    <2>1. PICK f, key : f = lens /\ key = dump[i].key
      OBVIOUS
    <2>2. lens' = With(f, key, v)
      BY <1>5, <2>1
    <2>3. /\ DOMAIN With(f, key, v) = DOMAIN f \cup {key} /\ With(f, key, v)[key] = v
          /\ \A x \in DOMAIN f : x # key => With(f, key, v)[x] = f[x]
      BY DEF With
    <2> QED BY <2>1, <2>2, <2>3
  <1>8. \A x \in DOMAIN lens' : lens'[x] \in Nat
    BY <1>7 DEF Given
  <1>9. ASSUME dump[i].key # "emit-diags" PROVE i' = i + 1
    BY <1>2, <1>9 DEF Extent, Following
  <1>10. CASE dump[i].key = "emit-diags"
    <2>1. i = 4 /\ Whole[4] = Pair("emit-diags", k)
      <3>1. Whole[i].key = "emit-diags" /\ Whole[i].kind = "pair" /\ i # Len(dump) + 1
        BY <1>2, <1>6, <1>10
      <3>2. i = 4 /\ Whole[i] = Pair("emit-diags", emission.diags)
        BY <3>1, HeadAt DEF Pair, Mark, Other
      <3> QED BY <1>3, <3>2
    <2>2. Extent(dump[i]) = v + 2
      BY <1>5, <1>10 DEF Extent
    <2>3. v + 5 \in 1 .. n /\ i' = v + 6
      <3>1. Following = v + 6
        BY <2>1, <2>2 DEF Following
      <3>2. Extent(dump[i]) > 1
        BY <2>2
      <3>3. Following - 1 \in 1 .. n
        BY <1>2, <3>2
      <3> QED BY <3>1, <3>3
    <2>4. dump[i] = Whole[i]
      BY <1>6, <2>1, <2>3
    <2>5. v = k
      BY <1>5, <2>1, <2>4 DEF Pair
    <2>6. i' = 6 + k
      BY <2>3, <2>5
    <2>7. emission'.errors # 0 \/ emission'.errors = 0
      OBVIOUS
    <2>8. InHead'
      BY <1>3, <1>4, <2>6 DEF InHead
    <2> QED BY <1>1, <1>8, <2>3, <2>8
  <1>11. CASE i \in 1 .. 3
    <2>1. dump[i].key # "emit-diags"
      BY <1>6, <1>2, <1>3, <1>11, HeadAt DEF Pair, Mark
    <2>2. i' = i + 1
      BY <1>9, <2>1
    <2>3. i' \in 1 .. 4 /\ i' \in 1 .. n + 2
      BY <1>2, <1>11, <2>2
    <2> QED BY <1>1, <1>8, <2>3 DEF InHead
  <1>12. ASSUME i' = i + 1, dump[i] # Whole[i] PROVE InHead'
    <2>1. i' = Len(dump') + 1 /\ dump' # Whole'
      BY <1>1, <1>4, <1>6, <1>12
    <2> QED BY <2>1 DEF InHead
  <1>13. CASE /\ emission.errors = 0 /\ i = 6 + k
              /\ Whole[i] = Pair("header-len", Len(emission.header))
    <2>1. dump[i].key = "header-len" /\ i' = i + 1 /\ i' \in 1 .. n + 2
      BY <1>2, <1>6, <1>9, <1>13 DEF Pair
    <2>2. ASSUME dump[i] = Whole[i] PROVE InHead'
      <3>1. Has("header-len", Len(emission.header))'
        BY <1>4, <1>5, <1>7, <1>13, <2>1, <2>2 DEF Pair, Has
      <3>2. i' = 7 + k
        BY <1>13, <2>1
      <3>3. emission'.errors = 0 /\ emission'.diags = k
        BY <1>3, <1>4, <1>13
      <3>4. /\ i' \in 6 + k .. 9 + k
            /\ ~(i' > 7 + k) /\ ~(i' > 8 + k)
        BY <3>2
      <3> QED BY <3>1, <3>3, <3>4 DEF InHead
    <2> QED BY <1>1, <1>8, <1>12, <2>1, <2>2
  <1>14. CASE /\ emission.errors = 0 /\ i = 7 + k
              /\ Whole[i] = Pair("content-len", Len(emission.content))
              /\ Has("header-len", Len(emission.header))
    <2>1. dump[i].key = "content-len" /\ i' = i + 1 /\ i' \in 1 .. n + 2
      BY <1>2, <1>6, <1>9, <1>14 DEF Pair
    <2>2. ASSUME dump[i] = Whole[i] PROVE InHead'
      <3>1. Has("content-len", Len(emission.content))'
        BY <1>4, <1>5, <1>7, <1>14, <2>1, <2>2 DEF Pair, Has
      <3>2. Has("header-len", Len(emission.header))'
        BY <1>4, <1>7, <1>14, <2>1 DEF Has
      <3>3. i' = 8 + k
        BY <1>14, <2>1
      <3>4. emission'.errors = 0 /\ emission'.diags = k
        BY <1>3, <1>4, <1>14
      <3>5. i' \in 6 + k .. 9 + k /\ ~(i' > 8 + k)
        BY <3>3
      <3> QED BY <3>1, <3>2, <3>4, <3>5 DEF InHead
    <2> QED BY <1>1, <1>8, <1>12, <2>1, <2>2
  <1>15. CASE /\ emission.errors = 0 /\ i = 8 + k
              /\ Whole[i] = Pair("tail-len", Len(emission.tail))
              /\ Has("header-len", Len(emission.header))
              /\ Has("content-len", Len(emission.content))
    <2>1. dump[i].key = "tail-len" /\ i' = i + 1 /\ i' \in 1 .. n + 2
      BY <1>2, <1>6, <1>9, <1>15 DEF Pair
    <2>2. ASSUME dump[i] = Whole[i] PROVE InHead'
      <3>1. Has("tail-len", Len(emission.tail))'
        BY <1>4, <1>5, <1>7, <1>15, <2>1, <2>2 DEF Pair, Has
      <3>2. Has("header-len", Len(emission.header))' /\ Has("content-len", Len(emission.content))'
        BY <1>4, <1>7, <1>15, <2>1 DEF Has
      <3>3. i' = 9 + k
        BY <1>15, <2>1
      <3>4. emission'.errors = 0 /\ emission'.diags = k
        BY <1>3, <1>4, <1>15
      <3>5. i' \in 6 + k .. 9 + k
        BY <3>3
      <3> QED BY <3>1, <3>2, <3>4, <3>5 DEF InHead
    <2> QED BY <1>1, <1>8, <1>12, <2>1, <2>2
  <1>16. ~(Whole[i] = Other("halted")) /\ ~(Whole[i] = Mark("symbols"))
    BY <1>6 DEF Other, Mark
  <1>17. i = 4 => dump[i].key = "emit-diags"
    BY <1>6, WholeIs DEF HeadShape, Pair
  <1> QED BY <1>2, <1>3, <1>10, <1>11, <1>13, <1>14, <1>15, <1>16, <1>17, HeadAt

(* A step through the head.                                                  *)
LEMMA HeadLineInv == Inv /\ HeadLine => Inv'
  <1> SUFFICES ASSUME Inv, HeadLine PROVE Inv'
    OBVIOUS
  <1>1. /\ mode = "head" /\ i \in Lines /\ dump[i].kind # "mark" /\ UNCHANGED given
        /\ Given /\ InHead /\ DOMAIN sections = {} /\ verdict = "none"
    BY DEF HeadLine, Inv, HeadInv, Given
  <1>2. CASE /\ dump[i].kind = "pair"
             /\ Extent(dump[i]) > 1 => Following - 1 \in Lines /\ dump[Following - 1] = Dot
    <2>1. /\ lens' = With(lens, dump[i].key, dump[i].val) /\ i' = Following
          /\ mode' = mode /\ sections' = sections /\ verdict' = verdict
      BY <1>2 DEF HeadLine
    <2>2. InHead' /\ i' \in 1 .. Len(dump) + 2 /\ \A k \in DOMAIN lens' : lens'[k] \in Nat
      BY <1>1, <1>2, <2>1, HeadTaken
    <2>3. emission' \in Emissions /\ CutFrom(dump', Whole') /\ dump' = dump
      BY <1>1, StillGiven
    <2>4. Given'
      BY <1>1, <2>1, <2>2, <2>3 DEF Given
    <2> QED BY <1>1, <2>1, <2>2, <2>4 DEF Inv, HeadInv, SectionsInv, VerdictInv
  <1>3. CASE ~ /\ dump[i].kind = "pair"
               /\ Extent(dump[i]) > 1 => Following - 1 \in Lines /\ dump[Following - 1] = Dot
    <2>1. Refuse
      BY <1>3 DEF HeadLine
    <2>2. ~(dump = Whole /\ emission.errors = 0)
      BY <1>1, <1>3, HeadRefused
    <2> QED BY <1>1, <2>1, <2>2, RefuseInv
  <1> QED BY <1>2, <1>3

(* A step out of the head.                                                   *)
LEMMA HeadEndsInv == Inv /\ HeadEnds => Inv'
  <1> SUFFICES ASSUME Inv, HeadEnds PROVE Inv'
    OBVIOUS
  <1>1. /\ mode = "head" /\ (i \in Lines => dump[i].kind = "mark") /\ UNCHANGED given
        /\ Given /\ InHead /\ DOMAIN sections = {} /\ verdict = "none"
    BY DEF HeadEnds, Inv, HeadInv, Given
  <1>2. CASE Len(dump) = 0
    <2>1. Refuse
      BY <1>2 DEF HeadEnds
    <2>2. dump # Whole
      <3>1. emission.diags \in Nat /\ Len(Whole) \in Nat /\ Len(Whole) >= 7 + emission.diags
        BY <1>1, WholeIs, Sizes
      <3>2. Len(Whole) # 0
        BY <3>1
      <3> QED BY <1>2, <3>2
    <2> QED BY <1>1, <2>1, <2>2, RefuseInv
  <1>3. CASE Len(dump) # 0
    <2>1. mode' = "sections" /\ i' = i /\ lens' = lens /\ sections' = sections /\ verdict' = verdict
      BY <1>3 DEF HeadEnds
    <2>2. /\ emission' = emission /\ dump' = dump /\ Whole' = Whole
          /\ emission' \in Emissions /\ CutFrom(dump', Whole')
      BY <1>1, StillGiven
    <2>3. Given'
      BY <1>1, <2>1, <2>2 DEF Given
    <2>4. SectionsInv'
      <3>1. PICK n \in Nat : n = Len(dump)
        BY <1>1, WholeIs
      <3>2. i \in 1 .. n + 2 /\ Lines = 1 .. n
        BY <1>1, <3>1 DEF Lines, Given
      <3>3. CASE i \in Lines
        <4>1. Whole[i].kind = "mark"
          BY <1>1, <3>3, Seen
        <4>2. i # Len(dump) + 1
          BY <3>1, <3>2, <3>3
        <4>3. /\ emission.errors = 0 /\ i = 9 + emission.diags
              /\ Has("header-len", Len(emission.header))
              /\ Has("content-len", Len(emission.content))
              /\ Has("tail-len", Len(emission.tail))
          BY <1>1, <4>1, <4>2, HeadAt DEF Pair, Other
        <4>4. AtSection'
          BY <1>1, <2>1, <2>2, <4>3 DEF AtSection, Has
        <4> QED BY <4>4 DEF SectionsInv
      <3>4. CASE i \notin Lines
        <4>1. i > n
          BY <3>2, <3>4
        <4>2. dump # Whole
          <5>1. PICK k \in Nat : k = emission.diags
            BY <1>1, Sizes, WholeIs
          <5>2. PICK m \in Nat : m = Len(Whole)
            BY <1>1, WholeIs
          <5>3. m >= 7 + k /\ (emission.errors = 0 => m >= 17 + k)
            BY <1>1, <5>1, <5>2, WholeIs
          <5>4. CASE i = Len(dump) + 1 /\ dump # Whole
            BY <5>4
          <5>5. CASE i \in 1 .. 4 \/ i = 6 + k
            <6>1. i <= m
              BY <5>3, <5>5
            <6> QED BY <3>1, <3>2, <4>1, <5>2, <6>1
          <5>6. CASE emission.errors = 0 /\ i \in 6 + k .. 9 + k
            <6>1. i <= m
              BY <5>3, <5>6
            <6> QED BY <3>1, <3>2, <4>1, <5>2, <6>1
          <5> QED BY <1>1, <5>1, <5>4, <5>5, <5>6 DEF InHead
        <4>3. PastEnd'
          BY <1>1, <2>1, <2>2, <3>1, <4>1, <4>2 DEF PastEnd
        <4> QED BY <4>3 DEF SectionsInv
      <3> QED BY <3>3, <3>4
    <2> QED BY <1>1, <2>1, <2>3, <2>4 DEF Inv, HeadInv, VerdictInv
  <1> QED BY <1>2, <1>3
-----------------------------------------------------------------------------
(* What is carved of bs: bs as far as it goes, but for its last byte where   *)
(* the line that has it may have been cut.                                   *)
BodyOf(bytes, bs, whole) ==
  /\ bytes \in Bin /\ Len(bytes) <= Len(bs)
  /\ \A k \in 1 .. Len(bytes) : whole \/ k < Len(bytes) => bytes[k] = bs[k]

(* The last of the numbers up to m.                                          *)
LEMMA LastOf == ASSUME NEW m \in Nat PROVE m # 0 => m \in 1 .. m
  OBVIOUS

(* The bytes of a section the reader is at.                                  *)
LEMMA BodyRead ==
  ASSUME Given, i \in Lines, NEW bs \in Bin, NEW name, Printed(Whole, i, name, bs),
         NEW m \in 0 .. Rows(bs), i + m <= Len(dump), m = SectionEnd - i - 1,
         \A l \in i + 1 .. i + m : dump[l].kind = "bytes",
         NEW whole \in BOOLEAN, whole => m = 0 \/ dump[i + m] = Whole[i + m]
  PROVE  BodyOf(BodyBytes, bs, whole) /\ (whole /\ m = Rows(bs) => BodyBytes = bs)
  <1> DEFINE seqs == [l \in 1 .. m |-> dump[i + l].val]
  <1>1. PICK n \in Nat : n = Len(dump)
    BY WholeIs
  <1>2. i \in 1 .. n /\ Lines = 1 .. n /\ Rows(bs) \in Nat /\ m \in Nat
    BY <1>1, RowsIs DEF Lines
  <1>3. Len(seqs) = m /\ (m = 0 => seqs = <<>>)
    BY <1>2
  <1>4. ASSUME NEW l \in 1 .. m
        PROVE  /\ i + l \in Lines /\ seqs[l] = dump[i + l].val
               /\ Whole[i + l] = Bytes(Row(bs, l)) /\ dump[i + l].kind = "bytes"
    <2>1. i + l \in Lines /\ i + l \in i + 1 .. i + m /\ l \in 1 .. Rows(bs)
      BY <1>1, <1>2
    <2>2. seqs[l] = dump[i + l].val
      OBVIOUS
    <2>3. Whole[i + l] = Bytes(Row(bs, l))
      BY <2>1 DEF Printed
    <2> QED BY <2>1, <2>2, <2>3
  <1>5. BodyBytes = FlattenSeq(seqs)
    BY DEF BodyBytes
  <1> HIDE DEF seqs
  <1>6. m # 0 => m \in 1 .. m
    BY <1>2, LastOf
  <1>7. ASSUME NEW l \in 1 .. m, dump[i + l] = Whole[i + l] PROVE seqs[l] = Row(bs, l)
    <2>1. seqs[l] = Whole[i + l].val /\ Whole[i + l] = Bytes(Row(bs, l))
      BY <1>4, <1>7
    <2> QED BY <2>1 DEF Bytes
  <1>8. ASSUME NEW l \in 1 .. m - 1 PROVE seqs[l] = Row(bs, l)
    <2>1. l \in 1 .. m /\ i + l # n
      BY <1>1, <1>2
    <2>2. dump[i + l] = Whole[i + l]
      BY <1>1, <1>4, <2>1, Seen
    <2> QED BY <1>7, <2>1, <2>2
  <1>9. ASSUME m # 0 PROVE seqs[m] = Row(bs, m) \/ seqs[m] \in CutBytes(Row(bs, m))
    <2>1. m \in 1 .. m
      BY <1>6, <1>9
    <2>2. /\ i + m \in Lines /\ seqs[m] = dump[i + m].val
          /\ Whole[i + m] = Bytes(Row(bs, m)) /\ dump[i + m].kind = "bytes"
      BY <1>4, <2>1
    <2>3. \/ dump[i + m] = Whole[i + m]
          \/ \E b \in CutBytes(Whole[i + m].val) : dump[i + m] = Bytes(b)
      BY <2>2, Seen
    <2>4. CASE dump[i + m] = Whole[i + m]
      BY <1>7, <2>1, <2>4
    <2>5. ASSUME NEW b \in CutBytes(Whole[i + m].val), dump[i + m] = Bytes(b)
          PROVE  seqs[m] \in CutBytes(Row(bs, m))
      BY <2>2, <2>5 DEF Bytes
    <2> QED BY <2>3, <2>4, <2>5
  <1>10. ASSUME whole PROVE m = 0 \/ seqs[m] = Row(bs, m)
    BY <1>6, <1>7, <1>10
  <1>11. /\ FlattenSeq(seqs) \in Bin
         /\ Len(FlattenSeq(seqs)) <= Len(bs)
         /\ \A k \in 1 .. Len(FlattenSeq(seqs)) :
              whole \/ k < Len(FlattenSeq(seqs)) => FlattenSeq(seqs)[k] = bs[k]
         /\ whole /\ m = Rows(bs) => FlattenSeq(seqs) = bs
    BY <1>3, <1>8, <1>9, <1>10, BodyIs
  <1> QED BY <1>5, <1>11 DEF BodyOf

(* A section read to its dot, or to the end of what there is.                *)
LEMMA SectionRead ==
  ASSUME Given, i \in Lines, NEW bs \in Bin, NEW name, Printed(Whole, i, name, bs),
         i + Rows(bs) + 1 <= Len(Whole)
  PROVE  \/ /\ i + Rows(bs) + 1 <= Len(dump)
            /\ SectionEnd = i + Rows(bs) + 1 /\ BodyBytes = bs
            /\ \A l \in i + 1 .. SectionEnd - 1 : dump[l].kind = "bytes"
         \/ /\ SectionEnd = Len(dump) + 1 /\ dump # Whole
            /\ (\A l \in i + 1 .. SectionEnd - 1 : dump[l].kind = "bytes") =>
                 BodyOf(BodyBytes, bs, dump[Len(dump)] = Whole[Len(dump)])
  <1>1. PICK n \in Nat : n = Len(dump)
    BY WholeIs
  <1>2. PICK r \in Nat : r = Rows(bs)
    BY RowsIs
  <1>3. i \in 1 .. n /\ Lines = 1 .. n
    BY <1>1 DEF Lines
  <1>4. PICK stop \in Nat : stop = i + r + 1
    BY <1>3
  <1>5. Whole[stop] = Dot /\ \A l \in 1 .. r : Whole[i + l] = Bytes(Row(bs, l))
    BY <1>2, <1>4 DEF Printed
  <1>6. \A l \in i + 1 .. stop - 1 : Whole[l].kind = "bytes" /\ Whole[l] # Dot
    <2> SUFFICES ASSUME NEW l \in i + 1 .. stop - 1
                 PROVE  Whole[l].kind = "bytes" /\ Whole[l] # Dot
      OBVIOUS
    <2>1. PICK x \in 1 .. r : l = i + x
      <3>1. l - i \in 1 .. r /\ l = i + (l - i)
        BY <1>3, <1>4
      <3> QED BY <3>1
    <2>2. Whole[l] = Bytes(Row(bs, x))
      BY <1>5, <2>1
    <2> QED BY <2>2 DEF Bytes, Dot, Other
  <1>7. SectionEnd = IF stop <= Len(dump) THEN stop ELSE Len(dump) + 1
    <2>1. i < stop /\ stop <= Len(Whole)
      BY <1>2, <1>3, <1>4
    <2> QED BY <1>5, <1>6, <2>1, DotAt
  <1>8. CASE stop <= n
    <2>1. SectionEnd = stop /\ r = SectionEnd - i - 1 /\ i + r <= n
      BY <1>1, <1>3, <1>4, <1>7, <1>8
    <2>2. \A l \in i + 1 .. stop - 1 : dump[l] = Whole[l]
      <3> SUFFICES ASSUME NEW l \in i + 1 .. stop - 1 PROVE dump[l] = Whole[l]
        OBVIOUS
      <3>1. l \in Lines /\ l # n
        BY <1>3, <1>4, <1>8
      <3> QED BY <1>1, <3>1, Seen
    <2>3. \A l \in i + 1 .. stop - 1 : dump[l].kind = "bytes"
      BY <1>6, <2>2
    <2>4. i + 1 .. i + r = i + 1 .. stop - 1 /\ r \in 0 .. r
      BY <1>3, <1>4
    <2>5. r = 0 \/ dump[i + r] = Whole[i + r]
      <3>1. r # 0 => i + r \in i + 1 .. stop - 1
        BY <1>3, <1>4
      <3> QED BY <2>2, <3>1
    <2>6. BodyBytes = bs
      BY <1>1, <1>2, <2>1, <2>3, <2>4, <2>5, BodyRead
    <2> QED BY <1>1, <1>2, <1>4, <1>8, <2>1, <2>3, <2>6
  <1>9. CASE ~(stop <= n)
    <2>1. SectionEnd = n + 1
      BY <1>1, <1>7, <1>9
    <2>2. dump # Whole
      BY <1>1, <1>2, <1>4, <1>9
    <2>3. PICK m \in Nat : m = n - i
      BY <1>3
    <2>4. m = SectionEnd - i - 1 /\ m \in 0 .. r /\ i + m = n
      BY <1>3, <1>4, <1>9, <2>1, <2>3
    <2>5. ASSUME \A l \in i + 1 .. SectionEnd - 1 : dump[l].kind = "bytes"
          PROVE  BodyOf(BodyBytes, bs, dump[Len(dump)] = Whole[Len(dump)])
      <3>1. i + 1 .. i + m = i + 1 .. SectionEnd - 1
        BY <1>3, <2>1, <2>3
      <3>2. PICK whole \in BOOLEAN : whole = (dump[Len(dump)] = Whole[Len(dump)])
        OBVIOUS
      <3>3. whole => m = 0 \/ dump[i + m] = Whole[i + m]
        BY <1>1, <2>4, <3>2
      <3>4. \A l \in i + 1 .. i + m : dump[l].kind = "bytes"
        BY <2>5, <3>1
      <3>5. m \in 0 .. Rows(bs) /\ i + m <= Len(dump)
        BY <1>1, <1>2, <1>3, <2>4
      <3>6. BodyOf(BodyBytes, bs, whole)
        BY <2>4, <3>3, <3>4, <3>5, BodyRead
      <3> QED BY <3>2, <3>6
    <2> QED BY <1>1, <2>1, <2>2, <2>5
  <1> QED BY <1>8, <1>9

(* What a section must be to be taken in.                                    *)
Fits(name) ==
  /\ \A l \in i + 1 .. SectionEnd - 1 : dump[l].kind = "bytes"
  /\ LenKey(name) \in DOMAIN lens
  /\ LengthMatches(name, BodyBytes)

(* The outcomes of Carve.                                                    *)
LEMMA CarveIs ==
  ASSUME Carve
  PROVE  /\ mode = "sections" /\ i \in Lines /\ dump[i].kind # "end" /\ UNCHANGED given
         /\ \/ dump[i].kind # "mark" /\ Refuse
            \/ /\ dump[i].kind = "mark" /\ dump[i].key = "symbols"
               /\ i' = SectionEnd + 1 /\ UNCHANGED <<mode, lens, sections, verdict>>
            \/ /\ dump[i].kind = "mark" /\ dump[i].key # "symbols" /\ Fits(dump[i].key)
               /\ sections' = With(sections, dump[i].key, BodyBytes)
               /\ i' = SectionEnd + 1 /\ UNCHANGED <<mode, lens, verdict>>
            \/ /\ dump[i].kind = "mark" /\ dump[i].key # "symbols" /\ ~Fits(dump[i].key)
               /\ Refuse
  BY DEF Carve, Fits

(* A section of bytes, taken in or refused.                                  *)
Taken(name, bs) ==
  /\ sections' = With(sections, name, BodyBytes) /\ Len(BodyBytes) = Len(bs)
  /\ UNCHANGED <<mode, lens, verdict>>
  /\ \/ i' = i + Rows(bs) + 2 /\ i' <= Len(dump) + 1 /\ BodyBytes = bs
     \/ /\ i' = Len(dump) + 2 /\ dump # Whole
        /\ BodyOf(BodyBytes, bs, dump[Len(dump)] = Whole[Len(dump)])

LEMMA CarveStep ==
  ASSUME Given, Carve, NEW bs \in Bin, NEW name, name # "symbols",
         Printed(Whole, i, name, bs), i + Rows(bs) + 1 <= Len(Whole),
         Has(LenKey(name), Len(bs))
  PROVE  (Refuse /\ dump # Whole) \/ Taken(name, bs)
  <1>1. i \in Lines
    BY CarveIs
  <1>2. Whole[i] = Mark(name)
    BY DEF Printed
  <1>3. CASE dump[i].kind # "mark"
    <2>1. Refuse
      BY <1>3, CarveIs
    <2>2. dump # Whole
      BY <1>2, <1>3 DEF Mark
    <2> QED BY <2>1, <2>2
  <1>4. CASE dump[i].kind = "mark"
    <2>1. dump[i].key = name
      <3>1. dump[i] = Whole[i]
        BY <1>1, <1>4, Seen
      <3> QED BY <1>2, <3>1 DEF Mark
    <2>2. Fits(name) => LengthMatches(name, BodyBytes)
      BY DEF Fits
    <2>3. LengthMatches(name, BodyBytes) <=> Len(bs) = Len(BodyBytes)
      BY DEF LengthMatches, Has
    <2>4. \/ /\ Fits(name) /\ sections' = With(sections, name, BodyBytes)
             /\ i' = SectionEnd + 1 /\ UNCHANGED <<mode, lens, verdict>>
          \/ ~Fits(name) /\ Refuse
      BY <1>4, <2>1, CarveIs
    <2>5. PICK n \in Nat : n = Len(dump)
      BY WholeIs
    <2>6. PICK r \in Nat : r = Rows(bs)
      BY RowsIs
    <2>7. i \in 1 .. n
      BY <1>1, <2>5 DEF Lines
    <2>8. CASE /\ i + Rows(bs) + 1 <= Len(dump)
               /\ SectionEnd = i + Rows(bs) + 1 /\ BodyBytes = bs
               /\ \A l \in i + 1 .. SectionEnd - 1 : dump[l].kind = "bytes"
      <3>1. LenKey(name) \in DOMAIN lens
        BY DEF Has
      <3>2. Fits(name)
        BY <2>3, <2>8, <3>1 DEF Fits
      <3>3. i + r + 1 <= n /\ SectionEnd = i + r + 1
        BY <2>5, <2>6, <2>8
      <3>4. SectionEnd + 1 = i + r + 2 /\ SectionEnd + 1 <= n + 1
        BY <2>7, <3>3
      <3>5. i' = i + Rows(bs) + 2 /\ i' <= Len(dump) + 1
        BY <2>4, <2>5, <2>6, <3>2, <3>4
      <3> QED BY <2>4, <2>8, <3>2, <3>5 DEF Taken
    <2>9. CASE /\ SectionEnd = Len(dump) + 1 /\ dump # Whole
               /\ (\A l \in i + 1 .. SectionEnd - 1 : dump[l].kind = "bytes") =>
                    BodyOf(BodyBytes, bs, dump[Len(dump)] = Whole[Len(dump)])
      <3>1. CASE Fits(name)
        <4>1. BodyOf(BodyBytes, bs, dump[Len(dump)] = Whole[Len(dump)])
          BY <2>9, <3>1 DEF Fits
        <4>2. i' = Len(dump) + 2
          BY <2>4, <2>5, <2>9, <3>1
        <4> QED BY <2>2, <2>3, <2>4, <2>9, <3>1, <4>1, <4>2 DEF Taken
      <3>2. CASE ~Fits(name)
        BY <2>4, <2>9, <3>2
      <3> QED BY <3>1, <3>2
    <2> QED BY <1>1, <2>8, <2>9, SectionRead
  <1> QED BY <1>3, <1>4

(* A step within the sections.                                               *)
LEMMA SectionsStep ==
  ASSUME Inv, UNCHANGED given, mode = "sections", mode' = mode, verdict' = verdict,
         lens' = lens, i' \in 1 .. Len(dump) + 2,
         DOMAIN sections' \subseteq {"header", "content", "tail"},
         AtSection' \/ PastEnd'
  PROVE  Inv'
  <1>1. Given /\ verdict = "none"
    BY DEF Inv, Given
  <1>2. emission' \in Emissions /\ CutFrom(dump', Whole') /\ dump' = dump
    BY <1>1, StillGiven
  <1>3. Given'
    BY <1>1, <1>2 DEF Given
  <1> QED BY <1>1, <1>3 DEF Inv, HeadInv, SectionsInv, VerdictInv

(* What a prefix says of the last line.                                      *)
LEMMA PrefixIs ==
  ASSUME Given, IsPrefix(dump, Whole), i \in Lines
  PROVE  dump[Len(dump)] = Whole[Len(dump)]
  <1>1. PICK n \in Nat : n = Len(dump)
    BY WholeIs
  <1>2. n \in 1 .. n /\ n <= Len(Whole) /\ Len(Whole) \in Nat
    BY <1>1, WholeIs DEF Lines
  <1>3. SubSeq(dump, 1, n) = SubSeq(Whole, 1, n)
    BY <1>1 DEF IsPrefix
  <1>4. dump \in Text /\ Whole \in Text
    BY WholeIs DEF CutFrom
  <1>5. SubSeq(dump, 1, n)[n] = dump[n] /\ SubSeq(Whole, 1, n)[n] = Whole[n]
    BY <1>1, <1>2, <1>4 DEF Text
  <1> QED BY <1>1, <1>3, <1>5

(* The shape of a whole dump of a binary, as the carving uses it.            *)
LEMMA BodyAt ==
  ASSUME Given, emission.errors = 0
  PROVE  /\ Printed(Whole, H(emission), "header", emission.header)
         /\ Printed(Whole, C(emission), "content", emission.content)
         /\ Printed(Whole, T(emission), "tail", emission.tail)
         /\ Len(Whole) = E(emission) /\ Whole[E(emission)] = Other("end")
         /\ emission.header \in Bin /\ emission.content \in Bin /\ emission.tail \in Bin
         /\ Len(emission.header) \in Nat /\ Len(emission.content) \in Nat
         /\ Len(emission.tail) \in Nat
  <1>1. BodyShape(emission, Whole) /\ emission \in Emissions
    BY WholeIs
  <1> QED BY <1>1, EmissionIs DEF BodyShape

(* The symbols are stepped over.                                             *)
LEMMA SymbolsInv ==
  ASSUME Inv, Carve, AtSection, i = 9 + emission.diags, DOMAIN sections = {},
         i # H(emission)
  PROVE  Inv'
  <1>1. Given /\ emission.errors = 0 /\ mode = "sections" /\ i \in Lines /\ UNCHANGED given
        /\ dump[i].kind # "end"
    BY CarveIs DEF Inv, AtSection
  <1>2. PICK k \in Nat, y \in Nat : k = emission.diags /\ y = emission.symbols
    BY <1>1, WholeIs, Sizes
  <1>3. PICK n \in Nat, m \in Nat : n = Len(dump) /\ m = Len(Whole)
    BY <1>1, WholeIs
  <1>4. H(emission) = 11 + k + y /\ i = 9 + k
    BY <1>2 DEF H
  <1>5. m >= 17 + k + y
    <2>1. m = E(emission)
      BY <1>1, <1>3, BodyAt
    <2>2. PICK a \in Nat, b \in Nat, c \in Nat :
            a = Rows(emission.header) /\ b = Rows(emission.content) /\ c = Rows(emission.tail)
      BY <1>1, WholeIs, Sizes
    <2>3. E(emission) = 17 + k + y + a + b + c
      <3>1. C(emission) = 11 + k + y + a + 2
        BY <1>4, <2>2 DEF C
      <3>2. T(emission) = 11 + k + y + a + 2 + b + 2
        BY <2>2, <3>1 DEF T
      <3>3. E(emission) = 11 + k + y + a + 2 + b + 2 + c + 2
        BY <2>2, <3>2 DEF E
      <3> QED BY <3>3
    <2> QED BY <2>1, <2>3
  <1>6. /\ Whole[9 + k] = Mark("symbols") /\ Whole[10 + k + y] = Dot
        /\ \A l \in 10 + k .. 9 + k + y : Whole[l] = Other("symbol")
    BY <1>1, <1>2, WholeIs DEF BodyShape
  <1>7. CASE dump[i].kind # "mark"
    <2>1. Refuse
      BY <1>7, CarveIs
    <2>2. dump # Whole
      BY <1>4, <1>6, <1>7 DEF Mark
    <2> QED BY <1>1, <2>1, <2>2, RefuseInv
  <1>8. CASE dump[i].kind = "mark"
    <2>1. dump[i] = Mark("symbols")
      BY <1>1, <1>4, <1>6, <1>8, Seen
    <2>2. i' = SectionEnd + 1 /\ mode' = mode /\ lens' = lens /\ sections' = sections
          /\ verdict' = verdict
      BY <1>8, <2>1, CarveIs DEF Mark
    <2>3. SectionEnd = IF 10 + k + y <= Len(dump) THEN 10 + k + y ELSE Len(dump) + 1
      <3>1. \A l \in i + 1 .. 10 + k + y - 1 : Whole[l] # Dot
        <4>1. i + 1 .. 10 + k + y - 1 = 10 + k .. 9 + k + y
          BY <1>4
        <4> QED BY <1>6, <4>1 DEF Dot, Other
      <3>2. i < 10 + k + y /\ 10 + k + y <= Len(Whole) /\ 10 + k + y \in Nat
        BY <1>3, <1>4, <1>5
      <3> QED BY <1>1, <1>6, <3>1, <3>2, DotAt
    <2>4. /\ emission' = emission /\ dump' = dump /\ Whole' = Whole
      BY <1>1, StillGiven
    <2>5. CASE 10 + k + y <= n
      <3>1. i' = H(emission) /\ i' \in 1 .. n + 2
        BY <1>3, <1>4, <2>2, <2>3, <2>5
      <3>2. AtSection'
        BY <2>2, <2>4, <3>1 DEF AtSection, Has
      <3> QED BY <1>1, <1>3, <2>2, <3>1, <3>2, SectionsStep
    <2>6. CASE ~(10 + k + y <= n)
      <3>1. i' = n + 2
        BY <1>3, <2>2, <2>3, <2>6
      <3>2. dump # Whole
        BY <1>3, <1>5, <2>6
      <3>3. DOMAIN sections' = {}
        BY <2>2
      <3>4. i' > Len(dump')
        BY <1>3, <2>4, <3>1
      <3>5. PastEnd'
        BY <2>4, <3>2, <3>3, <3>4 DEF PastEnd
      <3>6. i' \in 1 .. Len(dump) + 2
        BY <1>3, <3>1
      <3> QED BY <1>1, <2>2, <3>5, <3>6, SectionsStep
    <2> QED BY <2>5, <2>6
  <1> QED BY <1>7, <1>8

(* What holds of the reader within the sections.                             *)
LEMMA CarveFrom ==
  ASSUME Inv, Carve, AtSection
  PROVE  /\ Given /\ emission.errors = 0 /\ mode = "sections" /\ verdict = "none"
         /\ i \in Lines /\ dump[i].kind # "end" /\ UNCHANGED given
         /\ Has("header-len", Len(emission.header)) /\ Has("content-len", Len(emission.content))
         /\ Has("tail-len", Len(emission.tail))
         /\ emission' = emission /\ dump' = dump /\ Whole' = Whole
         /\ Len(dump) \in Nat /\ Len(Whole) = E(emission)
  <1>1. Given /\ emission.errors = 0 /\ mode = "sections"
        /\ i \in Lines /\ dump[i].kind # "end" /\ UNCHANGED given
        /\ Has("header-len", Len(emission.header)) /\ Has("content-len", Len(emission.content))
        /\ Has("tail-len", Len(emission.tail))
    BY CarveIs DEF Inv, AtSection
  <1>2. verdict = "none"
    BY <1>1 DEF Given
  <1>3. emission' = emission /\ dump' = dump /\ Whole' = Whole
    BY <1>1, StillGiven
  <1>4. Len(dump) \in Nat /\ Len(Whole) = E(emission)
    BY <1>1, WholeIs, BodyAt
  <1> QED BY <1>1, <1>2, <1>3, <1>4

(* Past the end of a cut dump with a section short of the three.             *)
LEMMA ShortOfThree ==
  ASSUME Inv, Carve, AtSection, i' = Len(dump) + 2, dump # Whole, mode' = mode,
         verdict' = verdict, lens' = lens,
         DOMAIN sections' \subseteq {"header", "content", "tail"}, "tail" \notin DOMAIN sections'
  PROVE  Inv'
  <1>1. /\ emission' = emission /\ dump' = dump /\ Whole' = Whole /\ UNCHANGED given
        /\ Len(dump) \in Nat /\ mode = "sections"
    BY CarveFrom
  <1>2. i' > Len(dump') /\ i' \in 1 .. Len(dump) + 2
    BY <1>1
  <1>3. PastEnd'
    BY <1>1, <1>2 DEF PastEnd
  <1> QED BY <1>1, <1>2, <1>3, SectionsStep

(* The header.                                                               *)
LEMMA HeaderInv ==
  ASSUME Inv, Carve, AtSection, i = H(emission), DOMAIN sections = {}
  PROVE  Inv'
  <1>1. /\ Given /\ emission.errors = 0 /\ mode = "sections" /\ UNCHANGED given
        /\ Has("header-len", Len(emission.header)) /\ Has("content-len", Len(emission.content))
        /\ Has("tail-len", Len(emission.tail))
        /\ emission' = emission /\ dump' = dump /\ Whole' = Whole /\ Len(dump) \in Nat
    BY CarveFrom
  <1>2. PICK bs \in Bin : bs = emission.header /\ Printed(Whole, i, "header", bs)
    BY <1>1, BodyAt
  <1>3. /\ i + Rows(bs) + 1 <= Len(Whole) /\ i + Rows(bs) + 2 = C(emission)
        /\ C(emission) \in Nat /\ C(emission) # 0
    <2>1. PICK h \in Nat, a \in Nat, b \in Nat, c \in Nat :
            h = H(emission) /\ a = Rows(bs) /\ b = Rows(emission.content)
            /\ c = Rows(emission.tail)
      BY <1>1, <1>2, WholeIs, Sizes
    <2>2. C(emission) = h + a + 2
      BY <1>2, <2>1 DEF C
    <2>3. T(emission) = h + a + 2 + b + 2
      BY <2>1, <2>2 DEF T
    <2>4. E(emission) = h + a + 2 + b + 2 + c + 2
      BY <2>1, <2>3 DEF E
    <2>5. Len(Whole) = h + a + 2 + b + 2 + c + 2
      BY <2>4, CarveFrom
    <2>6. h + a + 1 <= h + a + 2 + b + 2 + c + 2 /\ h + a + 2 \in Nat /\ h + a + 2 # 0
      OBVIOUS
    <2> QED BY <2>1, <2>2, <2>5, <2>6
  <1>4. Has(LenKey("header"), Len(bs))
    BY <1>1, <1>2 DEF LenKey
  <1>5. (Refuse /\ dump # Whole) \/ Taken("header", bs)
    BY <1>1, <1>2, <1>3, <1>4, CarveStep
  <1>6. CASE Refuse /\ dump # Whole
    BY <1>1, <1>6, RefuseInv
  <1>7. CASE Taken("header", bs)
    <2>1. /\ sections' = With(sections, "header", BodyBytes)
          /\ mode' = mode /\ lens' = lens /\ verdict' = verdict
          /\ \/ i' = i + Rows(bs) + 2 /\ i' <= Len(dump) + 1 /\ BodyBytes = bs
             \/ i' = Len(dump) + 2 /\ dump # Whole
      BY <1>7 DEF Taken
    <2>2. DOMAIN sections' = {"header"} /\ sections'["header"] = BodyBytes
      BY <2>1 DEF With
    <2>3. CASE i' = i + Rows(bs) + 2 /\ i' <= Len(dump) + 1 /\ BodyBytes = bs
      <3>1. i' = C(emission') /\ sections'["header"] = emission'.header
        BY <1>1, <1>2, <1>3, <2>2, <2>3
      <3>2. AtSection'
        BY <1>1, <2>1, <2>2, <3>1 DEF AtSection, Has
      <3>3. i' \in 1 .. Len(dump) + 2
        <4>1. i' \in Nat /\ i' # 0
          BY <1>1, <1>3, <2>3 DEF Given
        <4> QED BY <1>1, <2>3, <4>1
      <3> QED BY <1>1, <2>1, <2>2, <3>2, <3>3, SectionsStep
    <2>4. CASE i' = Len(dump) + 2 /\ dump # Whole
      BY <2>1, <2>2, <2>4, ShortOfThree
    <2> QED BY <2>1, <2>3, <2>4
  <1> QED BY <1>5, <1>6, <1>7

(* The content.                                                              *)
LEMMA ContentInv ==
  ASSUME Inv, Carve, AtSection, i = C(emission), DOMAIN sections = {"header"},
         sections["header"] = emission.header
  PROVE  Inv'
  <1>1. /\ Given /\ emission.errors = 0 /\ mode = "sections" /\ UNCHANGED given
        /\ Has("header-len", Len(emission.header)) /\ Has("content-len", Len(emission.content))
        /\ Has("tail-len", Len(emission.tail))
        /\ emission' = emission /\ dump' = dump /\ Whole' = Whole /\ Len(dump) \in Nat
    BY CarveFrom
  <1>2. PICK bs \in Bin : bs = emission.content /\ Printed(Whole, i, "content", bs)
    BY <1>1, BodyAt
  <1>3. /\ i + Rows(bs) + 1 <= Len(Whole) /\ i + Rows(bs) + 2 = T(emission)
        /\ T(emission) \in Nat /\ T(emission) # 0
    <2>1. PICK h \in Nat, a \in Nat, c \in Nat :
            h = C(emission) /\ a = Rows(bs) /\ c = Rows(emission.tail)
      BY <1>1, <1>2, WholeIs, Sizes
    <2>2. T(emission) = h + a + 2
      BY <1>2, <2>1 DEF T
    <2>3. E(emission) = h + a + 2 + c + 2
      BY <2>1, <2>2 DEF E
    <2>4. Len(Whole) = h + a + 2 + c + 2
      BY <2>3, CarveFrom
    <2>5. h + a + 1 <= h + a + 2 + c + 2 /\ h + a + 2 \in Nat /\ h + a + 2 # 0
      OBVIOUS
    <2> QED BY <2>1, <2>2, <2>4, <2>5
  <1>4. Has(LenKey("content"), Len(bs))
    BY <1>1, <1>2 DEF LenKey
  <1>5. (Refuse /\ dump # Whole) \/ Taken("content", bs)
    BY <1>1, <1>2, <1>3, <1>4, CarveStep
  <1>6. CASE Refuse /\ dump # Whole
    BY <1>1, <1>6, RefuseInv
  <1>7. CASE Taken("content", bs)
    <2>1. /\ sections' = With(sections, "content", BodyBytes)
          /\ mode' = mode /\ lens' = lens /\ verdict' = verdict
          /\ \/ i' = i + Rows(bs) + 2 /\ i' <= Len(dump) + 1 /\ BodyBytes = bs
             \/ i' = Len(dump) + 2 /\ dump # Whole
      BY <1>7 DEF Taken
    <2>2. /\ DOMAIN sections' = {"header", "content"} /\ sections'["content"] = BodyBytes
          /\ sections'["header"] = emission.header
      BY <2>1 DEF With
    <2>3. CASE i' = i + Rows(bs) + 2 /\ i' <= Len(dump) + 1 /\ BodyBytes = bs
      <3>1. i' = T(emission') /\ sections'["content"] = emission'.content
        BY <1>1, <1>2, <1>3, <2>2, <2>3
      <3>2. AtSection'
        BY <1>1, <2>1, <2>2, <3>1 DEF AtSection, Has
      <3>3. i' \in 1 .. Len(dump) + 2
        <4>1. i' \in Nat /\ i' # 0
          BY <1>1, <1>3, <2>3 DEF Given
        <4> QED BY <1>1, <2>3, <4>1
      <3> QED BY <1>1, <2>1, <2>2, <3>2, <3>3, SectionsStep
    <2>4. CASE i' = Len(dump) + 2 /\ dump # Whole
      BY <2>1, <2>2, <2>4, ShortOfThree
    <2> QED BY <2>1, <2>3, <2>4
  <1> QED BY <1>5, <1>6, <1>7

(* The tail.                                                                 *)
LEMMA TailInv ==
  ASSUME Inv, Carve, AtSection, i = T(emission), DOMAIN sections = {"header", "content"},
         sections["header"] = emission.header, sections["content"] = emission.content
  PROVE  Inv'
  <1>1. /\ Given /\ emission.errors = 0 /\ mode = "sections" /\ UNCHANGED given
        /\ Has("header-len", Len(emission.header)) /\ Has("content-len", Len(emission.content))
        /\ Has("tail-len", Len(emission.tail))
        /\ emission' = emission /\ dump' = dump /\ Whole' = Whole /\ Len(dump) \in Nat
    BY CarveFrom
  <1>2. PICK bs \in Bin : bs = emission.tail /\ Printed(Whole, i, "tail", bs)
    BY <1>1, BodyAt
  <1>3. /\ i + Rows(bs) + 1 <= Len(Whole) /\ i + Rows(bs) + 2 = E(emission)
        /\ E(emission) \in Nat /\ E(emission) # 0
    <2>1. PICK h \in Nat, a \in Nat : h = T(emission) /\ a = Rows(bs)
      BY <1>1, <1>2, WholeIs, Sizes
    <2>2. E(emission) = h + a + 2
      BY <1>2, <2>1 DEF E
    <2>3. Len(Whole) = h + a + 2
      BY <2>2, CarveFrom
    <2>4. h + a + 1 <= h + a + 2 /\ h + a + 2 \in Nat /\ h + a + 2 # 0
      OBVIOUS
    <2> QED BY <2>1, <2>2, <2>3, <2>4
  <1>4. Has(LenKey("tail"), Len(bs))
    BY <1>1, <1>2 DEF LenKey
  <1>5. (Refuse /\ dump # Whole) \/ Taken("tail", bs)
    BY <1>1, <1>2, <1>3, <1>4, CarveStep
  <1>6. CASE Refuse /\ dump # Whole
    BY <1>1, <1>6, RefuseInv
  <1>7. CASE Taken("tail", bs)
    <2>1. /\ sections' = With(sections, "tail", BodyBytes) /\ Len(BodyBytes) = Len(bs)
          /\ mode' = mode /\ lens' = lens /\ verdict' = verdict
          /\ \/ i' = i + Rows(bs) + 2 /\ i' <= Len(dump) + 1 /\ BodyBytes = bs
             \/ /\ i' = Len(dump) + 2 /\ dump # Whole
                /\ BodyOf(BodyBytes, bs, dump[Len(dump)] = Whole[Len(dump)])
      BY <1>7 DEF Taken
    <2>2. /\ DOMAIN sections' = {"header", "content", "tail"} /\ sections'["tail"] = BodyBytes
          /\ sections'["header"] = emission.header /\ sections'["content"] = emission.content
      BY <2>1 DEF With
    <2>3. PICK n \in Nat : n = Len(bs)
      BY <1>1, <1>2, BodyAt
    <2>4. Sound' = n - (IF IsPrefix(dump, Whole) THEN 0 ELSE 1)
      BY <1>1, <1>2, <2>3 DEF Sound
    <2>5. ASSUME \A k \in 1 .. Sound' : BodyBytes[k] = bs[k] PROVE Right'
      <3>1. emission'.errors = 0 /\ emission'.tail = bs
        BY <1>1, <1>2
      <3>2. \A k \in 1 .. Sound' : sections'["tail"][k] = emission'.tail[k]
        BY <2>2, <2>5, <3>1
      <3> HIDE DEF Sound
      <3> QED BY <1>1, <2>1, <2>2, <3>1, <3>2 DEF Right
    <2>6. CASE i' = i + Rows(bs) + 2 /\ i' <= Len(dump) + 1 /\ BodyBytes = bs
      <3>1. Right'
        BY <2>5, <2>6
      <3>2. i' = E(emission')
        BY <1>1, <1>3, <2>6
      <3>3. AtSection'
        BY <1>1, <2>1, <2>2, <3>1, <3>2 DEF AtSection, Has
      <3>4. i' \in 1 .. Len(dump) + 2
        <4>1. i' \in Nat /\ i' # 0
          BY <1>1, <1>3, <2>6 DEF Given
        <4> QED BY <1>1, <2>6, <4>1
      <3> QED BY <1>1, <2>1, <2>2, <3>3, <3>4, SectionsStep
    <2>7. CASE /\ i' = Len(dump) + 2 /\ dump # Whole
               /\ BodyOf(BodyBytes, bs, dump[Len(dump)] = Whole[Len(dump)])
      <3>1. \A k \in 1 .. n :
              dump[Len(dump)] = Whole[Len(dump)] \/ k < n => BodyBytes[k] = bs[k]
        BY <2>1, <2>3, <2>7 DEF BodyOf
      <3>2. ASSUME IsPrefix(dump, Whole) PROVE \A k \in 1 .. Sound' : BodyBytes[k] = bs[k]
        <4>1. dump[Len(dump)] = Whole[Len(dump)]
          BY <1>1, <3>2, CarveFrom, PrefixIs
        <4>2. Sound' = n
          BY <2>3, <2>4, <3>2
        <4> QED BY <3>1, <4>1, <4>2
      <3>3. ASSUME ~IsPrefix(dump, Whole) PROVE \A k \in 1 .. Sound' : BodyBytes[k] = bs[k]
        <4>1. Sound' = n - 1
          BY <2>4, <3>3
        <4>2. \A k \in 1 .. n - 1 : k \in 1 .. n /\ k < n
          BY <2>3
        <4> QED BY <3>1, <4>1, <4>2
      <3>4. Right'
        BY <2>5, <3>2, <3>3
      <3>5. i' > Len(dump') /\ i' \in 1 .. Len(dump) + 2
        BY <1>1, <2>7
      <3>6. PastEnd'
        BY <1>1, <2>7, <3>4, <3>5 DEF PastEnd
      <3> QED BY <1>1, <2>1, <2>2, <3>5, <3>6, SectionsStep
    <2> QED BY <2>1, <2>6, <2>7
  <1> QED BY <1>5, <1>6, <1>7

(* A step through the sections.                                              *)
LEMMA CarveInv == Inv /\ Carve => Inv'
  <1> SUFFICES ASSUME Inv, Carve PROVE Inv'
    OBVIOUS
  <1>1. i \in Lines /\ mode = "sections" /\ dump[i].kind # "end" /\ UNCHANGED given /\ Given
    BY CarveIs DEF Inv
  <1>2. AtSection
    <2>1. ~PastEnd
      <3>1. i \in 1 .. Len(dump) /\ Len(dump) \in Nat
        BY <1>1, WholeIs DEF Lines
      <3> QED BY <3>1 DEF PastEnd
    <2> QED BY <1>1, <2>1 DEF Inv, SectionsInv
  <1>3. CASE i = H(emission) /\ DOMAIN sections = {}
    BY <1>2, <1>3, HeaderInv
  <1>4. CASE i = 9 + emission.diags /\ i # H(emission) /\ DOMAIN sections = {}
    BY <1>2, <1>4, SymbolsInv
  <1>5. CASE /\ i = C(emission) /\ DOMAIN sections = {"header"}
             /\ sections["header"] = emission.header
    BY <1>2, <1>5, ContentInv
  <1>6. CASE /\ i = T(emission) /\ DOMAIN sections = {"header", "content"}
             /\ sections["header"] = emission.header /\ sections["content"] = emission.content
    BY <1>2, <1>6, TailInv
  <1>7. CASE i = E(emission)
    <2>1. Whole[i] = Other("end")
      BY <1>2, <1>7, CarveFrom, BodyAt
    <2>2. dump # Whole /\ dump[i].kind # "mark"
      BY <1>1, <2>1, Seen DEF Other
    <2>3. Refuse
      BY <2>2, CarveIs
    <2> QED BY <1>1, <2>2, <2>3, RefuseInv
  <1> QED BY <1>2, <1>3, <1>4, <1>5, <1>6, <1>7 DEF AtSection

(* The end of the carving.                                                   *)
LEMMA FinishInv == Inv /\ Finish => Inv'
  <1> SUFFICES ASSUME Inv, Finish PROVE Inv'
    OBVIOUS
  <1>1. /\ mode = "sections" /\ (i \in Lines => dump[i].kind = "end") /\ mode' = "done"
        /\ verdict' = IF DOMAIN sections = {"header", "content", "tail"}
                        THEN "accepted" ELSE "refused"
        /\ UNCHANGED given /\ i' = i /\ lens' = lens /\ sections' = sections
        /\ Given /\ (AtSection \/ PastEnd)
    BY DEF Finish, Inv, SectionsInv, given
  <1>2. /\ emission' = emission /\ dump' = dump /\ Whole' = Whole
        /\ emission' \in Emissions /\ CutFrom(dump', Whole')
    BY <1>1, StillGiven
  <1>3. Given'
    BY <1>1, <1>2 DEF Given
  <1>4. ASSUME DOMAIN sections = {"header", "content", "tail"} PROVE Right'
    <2>1. Right
      <3>1. "tail" \in DOMAIN sections
        BY <1>4
      <3>2. CASE AtSection
        BY <3>1, <3>2 DEF AtSection
      <3>3. CASE PastEnd
        BY <1>4, <3>3 DEF PastEnd
      <3> QED BY <1>1, <3>2, <3>3
    <2>2. Sound' = Sound
      BY <1>2 DEF Sound
    <2> HIDE DEF Sound
    <2> QED BY <1>1, <1>2, <2>1, <2>2 DEF Right
  <1>5. ASSUME DOMAIN sections # {"header", "content", "tail"}, dump = Whole,
               emission.errors = 0
        PROVE  FALSE
    <2>1. AtSection
      BY <1>1, <1>5 DEF PastEnd
    <2>2. PICK m \in Nat : m = Len(dump) /\ m = E(emission)
      BY <1>1, <1>5, WholeIs, BodyAt
    <2>3. PICK k \in Nat, y \in Nat, a \in Nat, b \in Nat, c \in Nat :
            /\ k = emission.diags /\ y = emission.symbols
            /\ a = Rows(emission.header) /\ b = Rows(emission.content)
            /\ c = Rows(emission.tail)
      BY <1>1, WholeIs, Sizes
    <2>4. H(emission) = 11 + k + y
      BY <2>3 DEF H
    <2>5. C(emission) = 11 + k + y + a + 2
      BY <2>3, <2>4 DEF C
    <2>6. T(emission) = 11 + k + y + a + 2 + b + 2
      BY <2>3, <2>5 DEF T
    <2>7. m = 11 + k + y + a + 2 + b + 2 + c + 2
      BY <2>2, <2>3, <2>6 DEF E
    <2>8. i \in {9 + k, H(emission), C(emission), T(emission)}
      BY <1>5, <2>1, <2>3 DEF AtSection
    <2>9. i \in 1 .. m
      BY <2>4, <2>5, <2>6, <2>7, <2>8
    <2>10. Whole[i].kind = "end"
      BY <1>1, <1>5, <2>2, <2>9 DEF Lines
    <2>11. /\ Whole[9 + k] = Mark("symbols") /\ Whole[H(emission)] = Mark("header")
           /\ Whole[C(emission)] = Mark("content") /\ Whole[T(emission)] = Mark("tail")
      BY <1>1, <1>5, <2>3, WholeIs DEF BodyShape, Printed
    <2> QED BY <2>8, <2>10, <2>11 DEF Mark
  <1>6. VerdictInv'
    BY <1>1, <1>2, <1>4, <1>5 DEF VerdictInv
  <1> QED BY <1>1, <1>3, <1>6 DEF Inv, HeadInv, SectionsInv

(* Every step keeps the invariant.                                           *)
LEMMA NextInv == Inv /\ [Next]_vars => Inv'
  <1> SUFFICES ASSUME Inv, [Next]_vars PROVE Inv'
    OBVIOUS
  <1>1. CASE HeadLine
    BY <1>1, HeadLineInv
  <1>2. CASE HeadEnds
    BY <1>2, HeadEndsInv
  <1>3. CASE Carve
    BY <1>3, CarveInv
  <1>4. CASE Finish
    BY <1>4, FinishInv
  <1>5. CASE UNCHANGED vars
    <2>1. /\ emission' = emission /\ dump' = dump /\ i' = i /\ mode' = mode /\ lens' = lens
          /\ sections' = sections /\ verdict' = verdict
      BY <1>5 DEF vars
    <2>2. Whole' = Whole
      BY <2>1 DEF Whole
    <2>3. Given' <=> Given
      BY <2>1, <2>2 DEF Given
    <2>4. HeadInv' <=> HeadInv
      BY <2>1, <2>2 DEF HeadInv, InHead, Has
    <2>5. Right' <=> Right
      BY <2>1, <2>2 DEF Right, Sound
    <2>6. SectionsInv' <=> SectionsInv
      BY <2>1, <2>2, <2>5 DEF SectionsInv, AtSection, PastEnd, Has
    <2>7. VerdictInv' <=> VerdictInv
      BY <2>1, <2>2, <2>5 DEF VerdictInv
    <2> QED BY <2>3, <2>4, <2>6, <2>7 DEF Inv
  <1> QED BY <1>1, <1>2, <1>3, <1>4, <1>5 DEF Next, Done
-----------------------------------------------------------------------------
(* The invariant holds of every reader at every step.                        *)
THEOREM Invariance == Spec => []Inv
  <1>1. Init => Inv
    BY InitInv
  <1>2. Inv /\ [Next]_vars => Inv'
    BY NextInv
  <1> QED BY <1>1, <1>2, PTL DEF Spec

(* Every variable keeps to its range: the reader never runs more than two    *)
(* lines past what it was given.                                             *)
THEOREM TypeCorrect == Spec => []TypeOK
  <1>1. Inv => TypeOK
    BY DEF Inv, Given, TypeOK
  <1> QED BY <1>1, Invariance, PTL

(* What is accepted is what the compiler emitted: wherever a dump was cut,   *)
(* nothing is missing and at most the last byte differs.                     *)
THEOREM CarvedRight == Spec => []CarvedAsEmitted
  <1>1. Inv => CarvedAsEmitted
    BY DEF Inv, VerdictInv, Right, Sound, Whole, CarvedAsEmitted
  <1> QED BY <1>1, Invariance, PTL
-----------------------------------------------------------------------------
(* The second reader.  Where the lines of bytes end.                         *)
LEMMA BytesEndIs ==
  ASSUME NEW d \in Text, NEW n \in Nat, 1 <= n, n <= Len(d) + 1
  PROVE  Firstly(ByteLinesEnd(d, n), n, Len(d), {x \in 1 .. Len(d) : d[x].kind # "bytes"})
  <1> DEFINE rest == SubSeq(d, n, Len(d))
             B == {x \in 1 .. Len(d) : d[x].kind # "bytes"}
             I == {x \in 1 .. Len(rest) : rest[x].kind # "bytes"}
  <1>1. Len(d) \in Nat
    BY DEF Text
  <1>2. Len(rest) = Len(d) + 1 - n
        /\ \A x \in 1 .. Len(d) + 1 - n : rest[x] = d[n - 1 + x]
    BY RestIs
  <1>3. /\ I \in SUBSET 1 .. Len(d) + 1 - n
        /\ \A x \in 1 .. Len(d) + 1 - n : x \in I <=> n - 1 + x \in B
    <2>1. ASSUME NEW x \in 1 .. Len(d) + 1 - n PROVE rest[x].kind # "bytes" <=> n - 1 + x \in B
      <3>1. n - 1 + x \in 1 .. Len(d)
        BY <1>1
      <3> QED BY <1>2, <3>1
    <2>2. 1 .. Len(rest) = 1 .. Len(d) + 1 - n
      BY <1>1, <1>2
    <2> HIDE DEF rest, B
    <2> QED BY <2>1, <2>2
  <1>4. ByteLinesEnd(d, n) = IF I # {} THEN n - 1 + Min(I) ELSE Len(d) + 1
    <2> DEFINE j == SelectInSeq(rest, LAMBDA l : l.kind # "bytes")
    <2>1. j = IF I # {} THEN Min(I) ELSE 0
      BY DEF SelectInSeq
    <2>2. ByteLinesEnd(d, n) = IF j = 0 THEN Len(d) + 1 ELSE n - 1 + j
      BY DEF ByteLinesEnd
    <2>3. I # {} => Min(I) \in Nat /\ Min(I) # 0
      <3>1. I \in SUBSET Nat /\ 0 \notin I
        OBVIOUS
      <3> HIDE DEF I
      <3> QED BY <3>1, MinIs
    <2> HIDE DEF j, I
    <2> QED BY <2>1, <2>2, <2>3
  <1> HIDE DEF B, I, rest
  <1>5. Firstly(ByteLinesEnd(d, n), n, Len(d), B)
    BY <1>1, <1>3, <1>4, FirstIs
  <1> QED BY <1>5 DEF B

(* Where the symbols end, as F3Parses finds it.                              *)
SymbolsEnd(d) == SelectInSeq(SubSeq(d, 10, Len(d)), LAMBDA l : l.kind # "symbol") + 9

LEMMA SymbolsEndIs ==
  ASSUME NEW d \in Text, Len(d) > 9
  PROVE  \/ SymbolsEnd(d) = 9 /\ \A x \in 10 .. Len(d) : d[x].kind = "symbol"
         \/ Firstly(SymbolsEnd(d), 10, Len(d), {x \in 1 .. Len(d) : d[x].kind # "symbol"})
            /\ SymbolsEnd(d) <= Len(d)
  <1> DEFINE rest == SubSeq(d, 10, Len(d))
             B == {x \in 1 .. Len(d) : d[x].kind # "symbol"}
             I == {x \in 1 .. Len(rest) : rest[x].kind # "symbol"}
  <1>1. Len(d) \in Nat
    BY DEF Text
  <1>2. Len(rest) = Len(d) + 1 - 10
        /\ \A x \in 1 .. Len(d) + 1 - 10 : rest[x] = d[10 - 1 + x]
    BY <1>1, RestIs
  <1>3. /\ I \in SUBSET 1 .. Len(d) + 1 - 10
        /\ \A x \in 1 .. Len(d) + 1 - 10 : x \in I <=> 10 - 1 + x \in B
    <2>1. ASSUME NEW x \in 1 .. Len(d) + 1 - 10
          PROVE  rest[x].kind # "symbol" <=> 10 - 1 + x \in B
      <3>1. 10 - 1 + x \in 1 .. Len(d)
        BY <1>1
      <3> QED BY <1>2, <3>1
    <2>2. 1 .. Len(rest) = 1 .. Len(d) + 1 - 10
      BY <1>1, <1>2
    <2> HIDE DEF rest, B
    <2> QED BY <2>1, <2>2
  <1>4. SymbolsEnd(d) = (IF I # {} THEN Min(I) ELSE 0) + 9
    BY DEF SelectInSeq, SymbolsEnd
  <1>5. I # {} => Min(I) \in 1 .. Len(d) + 1 - 10
    <2>1. I \in SUBSET Nat
      OBVIOUS
    <2> HIDE DEF I
    <2> QED BY <1>3, <2>1, MinIs
  <1> HIDE DEF B, I, rest
  <1>6. CASE I # {}
    <2>1. SymbolsEnd(d) = 10 - 1 + Min(I) /\ SymbolsEnd(d) <= Len(d)
      BY <1>1, <1>4, <1>5, <1>6
    <2>2. SymbolsEnd(d) = IF I # {} THEN 10 - 1 + Min(I) ELSE Len(d) + 1
      BY <1>6, <2>1
    <2>3. Firstly(SymbolsEnd(d), 10, Len(d), B)
      <3>1. PICK n \in Nat : n = 10
        OBVIOUS
      <3>2. 1 <= n /\ n <= Len(d) + 1
        BY <1>1, <3>1
      <3>3. /\ I \in SUBSET 1 .. Len(d) + 1 - n
            /\ \A x \in 1 .. Len(d) + 1 - n : x \in I <=> n - 1 + x \in B
        BY <1>3, <3>1
      <3>4. SymbolsEnd(d) = IF I # {} THEN n - 1 + Min(I) ELSE Len(d) + 1
        BY <2>2, <3>1
      <3>5. Firstly(SymbolsEnd(d), n, Len(d), B)
        BY <1>1, <3>2, <3>3, <3>4, FirstIs
      <3> QED BY <3>1, <3>5
    <2> QED BY <2>1, <2>3 DEF B
  <1>7. CASE I = {}
    <2>1. ASSUME NEW x \in 10 .. Len(d) PROVE d[x].kind = "symbol"
      <3>1. x - 9 \in 1 .. Len(d) + 1 - 10 /\ 10 - 1 + (x - 9) = x /\ x \in 1 .. Len(d)
        BY <1>1
      <3>2. x \notin B
        BY <1>3, <1>7, <3>1
      <3> QED BY <3>1, <3>2 DEF B
    <2> QED BY <1>4, <1>7, <2>1
  <1> QED BY <1>6, <1>7

(* The sections, as F3Parses finds them.                                     *)
F3Header(d) == F3Section(d, SymbolsEnd(d) + 1, "header", d[6].val)
F3Content(d) == F3Section(d, F3Header(d) + 1, "content", d[7].val)
F3Tail(d) == F3Section(d, F3Content(d) + 1, "tail", d[8].val)

LEMMA ParsesIs ==
  ASSUME NEW d
  PROVE  F3Parses(d) <=>
           /\ Len(d) > 9
           /\ d[1].kind = "pair" /\ d[1].key = "check-errors" /\ d[1].val = 0
           /\ d[2].kind = "pair" /\ d[2].key = "ir-defs"
           /\ d[3].kind = "pair" /\ d[3].key = "emit-errors" /\ d[3].val = 0
           /\ d[4].kind = "pair" /\ d[4].key = "emit-diags"
           /\ d[5] = Dot
           /\ d[6].kind = "pair" /\ d[6].key = "header-len"
           /\ d[7].kind = "pair" /\ d[7].key = "content-len"
           /\ d[8].kind = "pair" /\ d[8].key = "tail-len"
           /\ d[9] = Mark("symbols")
           /\ SymbolsEnd(d) > 9 /\ d[SymbolsEnd(d)] = Dot
           /\ F3Header(d) # 0 /\ F3Content(d) # 0 /\ F3Tail(d) # 0
  <1> DEFINE keys == <<"check-errors", "ir-defs", "emit-errors", "emit-diags">>
             lengths == <<"header-len", "content-len", "tail-len">>
  <1>1. F3Parses(d) <=>
           /\ Len(d) > 9
           /\ \A k \in 1 .. 4 : d[k].kind = "pair" /\ d[k].key = keys[k]
           /\ d[1].val = 0 /\ d[3].val = 0
           /\ d[5] = Dot
           /\ \A k \in 1 .. 3 : d[5 + k].kind = "pair" /\ d[5 + k].key = lengths[k]
           /\ d[9] = Mark("symbols")
           /\ SymbolsEnd(d) > 9 /\ d[SymbolsEnd(d)] = Dot
           /\ F3Header(d) # 0 /\ F3Content(d) # 0 /\ F3Tail(d) # 0
    BY DEF F3Parses, SymbolsEnd, F3Header, F3Content, F3Tail
  <1>2. (\A k \in 1 .. 4 : d[k].kind = "pair" /\ d[k].key = keys[k]) <=>
           /\ d[1].kind = "pair" /\ d[1].key = "check-errors"
           /\ d[2].kind = "pair" /\ d[2].key = "ir-defs"
           /\ d[3].kind = "pair" /\ d[3].key = "emit-errors"
           /\ d[4].kind = "pair" /\ d[4].key = "emit-diags"
    <2>1. 1 .. 4 = {1, 2, 3, 4}
      OBVIOUS
    <2>2. keys[1] = "check-errors" /\ keys[2] = "ir-defs" /\ keys[3] = "emit-errors"
          /\ keys[4] = "emit-diags"
      OBVIOUS
    <2> HIDE DEF keys
    <2> QED BY <2>1, <2>2
  <1>3. (\A k \in 1 .. 3 : d[5 + k].kind = "pair" /\ d[5 + k].key = lengths[k]) <=>
           /\ d[6].kind = "pair" /\ d[6].key = "header-len"
           /\ d[7].kind = "pair" /\ d[7].key = "content-len"
           /\ d[8].kind = "pair" /\ d[8].key = "tail-len"
    <2>1. 1 .. 3 = {1, 2, 3} /\ 5 + 1 = 6 /\ 5 + 2 = 7 /\ 5 + 3 = 8
      OBVIOUS
    <2>2. lengths[1] = "header-len" /\ lengths[2] = "content-len" /\ lengths[3] = "tail-len"
      OBVIOUS
    <2> HIDE DEF lengths
    <2> QED BY <2>1, <2>2
  <1> HIDE DEF keys, lengths
  <1> QED BY <1>1, <1>2, <1>3

(* A section closed in what f3_run is given is closed where it was written.  *)
LEMMA F3Closed ==
  ASSUME Given, NEW bs \in Bin, NEW p, NEW name, NEW want, NEW at \in Nat, 1 <= at,
         Printed(Whole, at, p, bs), at + Rows(bs) + 1 <= Len(Whole),
         F3Section(dump, at, name, want) # 0
  PROVE  F3Section(dump, at, name, want) = at + Rows(bs) + 1 /\ at + Rows(bs) + 1 <= Len(dump)
  <1>1. PICK n \in Nat : n = Len(dump)
    BY WholeIs
  <1>2. PICK r \in Nat : r = Rows(bs)
    BY RowsIs
  <1>3. PICK e : e = ByteLinesEnd(dump, at + 1)
    OBVIOUS
  <1>4. at \in DOMAIN dump /\ Closes(dump, e) /\ F3Section(dump, at, name, want) = e
    BY <1>3 DEF F3Section
  <1>5. dump \in Text /\ Lines = 1 .. n
    BY <1>1, WholeIs DEF CutFrom, Lines
  <1>6. DOMAIN dump = 1 .. n
    BY <1>1, <1>5 DEF Text
  <1>7. at \in 1 .. n /\ e \in 1 .. n /\ dump[e] = Dot
    BY <1>4, <1>6 DEF Closes
  <1>8. Firstly(e, at + 1, n, {x \in 1 .. n : dump[x].kind # "bytes"})
    <2>1. at + 1 \in Nat /\ 1 <= at + 1 /\ at + 1 <= n + 1
      BY <1>7
    <2> QED BY <1>1, <1>3, <1>5, <2>1, BytesEndIs
  <1>9. /\ e \in at + 1 .. n + 1
        /\ \A x \in at + 1 .. e - 1 : x \notin {y \in 1 .. n : dump[y].kind # "bytes"}
    BY <1>8 DEF Firstly
  <1>10. Whole[e] = Dot
    BY <1>5, <1>7, Seen
  <1>11. PICK stop \in Nat : stop = at + r + 1
    OBVIOUS
  <1>12. Whole[stop] = Dot /\ \A l \in 1 .. r : Whole[at + l] = Bytes(Row(bs, l))
    BY <1>2, <1>11 DEF Printed
  <1>13. ~(e < stop)
    <2> SUFFICES ASSUME e < stop PROVE FALSE
      OBVIOUS
    <2>1. PICK l \in 1 .. r : e = at + l
      <3>1. e - at \in 1 .. r /\ e = at + (e - at)
        BY <1>7, <1>9, <1>11
      <3> QED BY <3>1
    <2>2. Whole[e] = Bytes(Row(bs, l))
      BY <1>12, <2>1
    <2> QED BY <1>10, <2>2 DEF Bytes, Dot, Other
  <1>14. ~(stop < e)
    <2> SUFFICES ASSUME stop < e PROVE FALSE
      OBVIOUS
    <2>1. stop \in 1 .. n /\ stop \in at + 1 .. e - 1
      BY <1>7, <1>9, <1>11
    <2>2. dump[stop].kind = "bytes"
      BY <1>9, <2>1
    <2>3. dump[stop] = Dot
      BY <1>5, <1>12, <2>1, Seen
    <2> QED BY <2>2, <2>3 DEF Dot, Other
  <1>15. e = stop
    BY <1>7, <1>13, <1>14
  <1> QED BY <1>1, <1>2, <1>4, <1>7, <1>11, <1>15

(* f3_run goes on from one section to the next: it has seen all of them.     *)
LEMMA ParsedIsWhole ==
  ASSUME Given, F3Parses(dump)
  PROVE  emission.errors = 0 /\ emission.checks = 0 /\ Len(dump) >= Len(Whole) - 1
  <1>1. PICK n \in Nat : n = Len(dump)
    BY WholeIs
  <1>2. n > 9 /\ dump[1].val = 0 /\ dump[3].val = 0 /\ dump[5] = Dot
        /\ SymbolsEnd(dump) > 9 /\ dump[SymbolsEnd(dump)] = Dot
        /\ F3Header(dump) # 0 /\ F3Content(dump) # 0 /\ F3Tail(dump) # 0
    BY <1>1, ParsesIs
  <1>3. dump \in Text /\ Lines = 1 .. n /\ emission \in Emissions /\ HeadShape(emission, Whole)
    BY <1>1, WholeIs DEF CutFrom, Lines
  <1>4. 1 \in Lines /\ 3 \in Lines /\ 5 \in Lines /\ 1 # n /\ 3 # n
    BY <1>2, <1>3
  <1>5. dump[1] = Whole[1] /\ dump[3] = Whole[3] /\ Whole[5] = Dot
    BY <1>1, <1>2, <1>4, Seen
  <1>6. emission.checks = 0 /\ emission.errors = 0
    BY <1>2, <1>3, <1>5 DEF HeadShape, Pair
  <1>7. PICK k \in Nat, y \in Nat : k = emission.diags /\ y = emission.symbols
    BY <1>3, Sizes
  <1>8. k = 0
    <2>1. \A l \in 5 .. 4 + k : Whole[l] = Other("diag")
      BY <1>3, <1>7 DEF HeadShape
    <2>2. 5 \notin 5 .. 4 + k
      BY <1>5, <2>1 DEF Dot, Other
    <2> QED BY <2>2
  <1>9. /\ \A l \in 10 .. 9 + y : Whole[l] = Other("symbol")
        /\ Whole[10 + y] = Dot
    <2>1. /\ \A l \in 10 + k .. 9 + k + y : Whole[l] = Other("symbol")
          /\ Whole[10 + k + y] = Dot
      BY <1>6, <1>7, WholeIs DEF BodyShape
    <2>2. 10 + k = 10 /\ 9 + k + y = 9 + y /\ 10 + k + y = 10 + y
      BY <1>8
    <2> QED BY <2>1, <2>2
  <1>10. PICK s : s = SymbolsEnd(dump)
    OBVIOUS
  <1>11. /\ s \in 10 .. n /\ dump[s] = Dot
         /\ \A x \in 10 .. s - 1 : x \notin {l \in 1 .. n : dump[l].kind # "symbol"}
    <2>1. s # 9
      BY <1>2, <1>10
    <2>2. Firstly(s, 10, n, {x \in 1 .. n : dump[x].kind # "symbol"}) /\ s <= n
      BY <1>1, <1>2, <1>3, <1>10, <2>1, SymbolsEndIs
    <2> QED BY <1>2, <1>10, <2>2 DEF Firstly
  <1>12. s = 10 + y
    <2>1. Whole[s] = Dot
      <3>1. s \in Lines
        BY <1>3, <1>11
      <3> QED BY <1>11, <3>1, Seen
    <2>2. s \notin 10 .. 9 + y
      BY <1>9, <2>1 DEF Dot, Other
    <2>3. ~(10 + y < s)
      <3> SUFFICES ASSUME 10 + y < s PROVE FALSE
        OBVIOUS
      <3>1. 10 + y \in 1 .. n /\ 10 + y \in 10 .. s - 1
        BY <1>11
      <3>2. dump[10 + y].kind = "symbol"
        BY <1>11, <3>1
      <3>3. dump[10 + y] = Dot
        BY <1>3, <1>9, <3>1, Seen
      <3> QED BY <3>2, <3>3 DEF Dot, Other
    <2> QED BY <1>11, <2>2, <2>3
  <1>13. /\ Printed(Whole, H(emission), "header", emission.header)
         /\ Printed(Whole, C(emission), "content", emission.content)
         /\ Printed(Whole, T(emission), "tail", emission.tail)
         /\ Len(Whole) = E(emission)
         /\ emission.header \in Bin /\ emission.content \in Bin /\ emission.tail \in Bin
    BY <1>6, BodyAt
  <1>14. PICK a \in Nat, b \in Nat, c \in Nat :
           /\ a = Rows(emission.header) /\ b = Rows(emission.content)
           /\ c = Rows(emission.tail)
    BY <1>3, Sizes
  <1>15. PICK h \in Nat : h = H(emission) /\ h = 11 + y
    <2>1. H(emission) = 11 + k + y
      BY <1>7 DEF H
    <2> QED BY <1>8, <2>1
  <1>16. C(emission) = h + a + 2
    BY <1>14, <1>15 DEF C
  <1>17. T(emission) = h + a + 2 + b + 2
    BY <1>14, <1>16 DEF T
  <1>18. Len(Whole) = h + a + 2 + b + 2 + c + 2
    BY <1>13, <1>14, <1>17 DEF E
  <1>19. F3Header(dump) = h + a + 1
    <2>1. F3Section(dump, h, "header", dump[6].val) = F3Header(dump)
      <3>1. SymbolsEnd(dump) + 1 = h
        BY <1>10, <1>12, <1>15
      <3> QED BY <3>1 DEF F3Header
    <2>2. 1 <= h /\ h + a + 1 <= Len(Whole)
      BY <1>15, <1>18
    <2> QED BY <1>2, <1>13, <1>14, <1>15, <2>1, <2>2, F3Closed
  <1>20. F3Content(dump) = h + a + 2 + b + 1
    <2>1. PICK at \in Nat : at = h + a + 2
      OBVIOUS
    <2>2. F3Section(dump, at, "content", dump[7].val) = F3Content(dump)
      <3>1. F3Header(dump) + 1 = at
        BY <1>19, <2>1
      <3> QED BY <3>1 DEF F3Content
    <2>3. 1 <= at /\ at + b + 1 <= Len(Whole) /\ at = C(emission)
      BY <1>16, <1>18, <2>1
    <2>4. F3Section(dump, at, "content", dump[7].val) = at + b + 1
      BY <1>2, <1>13, <1>14, <2>2, <2>3, F3Closed
    <2> QED BY <2>1, <2>2, <2>4
  <1>21. h + a + 2 + b + 2 + c + 1 <= n
    <2>1. PICK at \in Nat : at = h + a + 2 + b + 2
      OBVIOUS
    <2>2. F3Section(dump, at, "tail", dump[8].val) = F3Tail(dump)
      <3>1. F3Content(dump) + 1 = at
        BY <1>20, <2>1
      <3> QED BY <3>1 DEF F3Tail
    <2>3. 1 <= at /\ at + c + 1 <= Len(Whole) /\ at = T(emission)
      BY <1>17, <1>18, <2>1
    <2>4. at + c + 1 <= Len(dump)
      BY <1>2, <1>13, <1>14, <2>2, <2>3, F3Closed
    <2> QED BY <1>1, <2>1, <2>4
  <1>22. n >= Len(Whole) - 1
    BY <1>18, <1>21
  <1> QED BY <1>1, <1>6, <1>22

(* f3_run calls nothing cut short and nothing the compiler refused.          *)
THEOREM CalledWhole == Spec => []CalledIsWhole
  <1>1. Inv => CalledIsWhole
    BY ParsedIsWhole DEF Inv, CalledIsWhole, Whole
  <1> QED BY <1>1, Invariance, PTL

(* A section that was printed is one that f3_run takes.                      *)
LEMMA F3Whole ==
  ASSUME NEW d \in Text, NEW bs \in Bin, NEW name, NEW at \in Nat, 1 <= at,
         Printed(d, at, name, bs), at + Rows(bs) + 1 <= Len(d)
  PROVE  F3Section(d, at, name, Len(bs)) = at + Rows(bs) + 1
  <1>1. PICK n \in Nat : n = Len(d)
    BY DEF Text
  <1>2. PICK r \in Nat : r = Rows(bs)
    BY RowsIs
  <1>3. PICK stop \in Nat : stop = at + r + 1
    OBVIOUS
  <1>4. PICK e : e = ByteLinesEnd(d, at + 1)
    OBVIOUS
  <1>5. /\ d[at] = Mark(name) /\ d[stop] = Dot
        /\ \A l \in 1 .. r : d[at + l] = Bytes(Row(bs, l))
    BY <1>2, <1>3 DEF Printed
  <1>6. at \in 1 .. n /\ stop \in 1 .. n /\ stop \in at + 1 .. n + 1 /\ DOMAIN d = 1 .. n
    <2>1. DOMAIN d = 1 .. n
      BY <1>1 DEF Text
    <2>2. stop <= n
      BY <1>1, <1>2, <1>3
    <2> QED BY <1>3, <2>1, <2>2
  <1>7. Firstly(e, at + 1, n, {x \in 1 .. n : d[x].kind # "bytes"})
    <2>1. at + 1 \in Nat /\ 1 <= at + 1 /\ at + 1 <= n + 1
      BY <1>6
    <2> QED BY <1>1, <1>4, <2>1, BytesEndIs
  <1>8. /\ e \in at + 1 .. n + 1
        /\ \A x \in at + 1 .. e - 1 : x \notin {y \in 1 .. n : d[y].kind # "bytes"}
        /\ e <= n => e \in {y \in 1 .. n : d[y].kind # "bytes"}
    BY <1>7 DEF Firstly
  <1>9. e = stop
    <2>1. ~(e < stop)
      <3> SUFFICES ASSUME e < stop PROVE FALSE
        OBVIOUS
      <3>1. PICK l \in 1 .. r : e = at + l
        <4>1. e - at \in 1 .. r /\ e = at + (e - at)
          BY <1>3, <1>8
        <4> QED BY <4>1
      <3>2. d[e].kind = "bytes"
        <4>1. d[e] = Bytes(Row(bs, l))
          BY <1>5, <3>1
        <4> QED BY <4>1 DEF Bytes
      <3>3. e <= n
        BY <1>6, <1>8
      <3> QED BY <1>8, <3>2, <3>3
    <2>2. ~(stop < e)
      <3> SUFFICES ASSUME stop < e PROVE FALSE
        OBVIOUS
      <3>1. stop \in at + 1 .. e - 1
        BY <1>6, <1>8
      <3>2. d[stop].kind = "bytes"
        BY <1>6, <1>8, <3>1
      <3> QED BY <1>5, <3>2 DEF Dot, Other
    <2> QED BY <1>6, <1>8, <2>1, <2>2
  <1> DEFINE seqs == [l \in 1 .. e - at - 1 |-> d[at + l].val]
  <1>10. e - at - 1 = r
    BY <1>3, <1>9
  <1>11. Len(seqs) = r /\ (r = 0 => seqs = <<>>) /\ \A l \in 1 .. r : seqs[l] = d[at + l].val
    BY <1>10
  <1> HIDE DEF seqs
  <1>12. \A l \in 1 .. r : seqs[l] = Row(bs, l)
    <2> SUFFICES ASSUME NEW l \in 1 .. r PROVE seqs[l] = Row(bs, l)
      OBVIOUS
    <2>1. d[at + l] = Bytes(Row(bs, l)) /\ seqs[l] = d[at + l].val
      BY <1>5, <1>11
    <2> QED BY <2>1 DEF Bytes
  <1>13. FlattenSeq(seqs) = bs
    <2>1. r \in 0 .. Rows(bs)
      BY <1>2
    <2>2. \A l \in 1 .. r - 1 : seqs[l] = Row(bs, l)
      <3>1. \A l \in 1 .. r - 1 : l \in 1 .. r
        OBVIOUS
      <3> QED BY <1>12, <3>1
    <2>3. r # 0 => seqs[r] = Row(bs, r)
      BY <1>12, LastOf
    <2>4. PICK whole \in BOOLEAN : whole
      OBVIOUS
    <2>5. /\ FlattenSeq(seqs) \in Bin
          /\ Len(FlattenSeq(seqs)) <= Len(bs)
          /\ \A k \in 1 .. Len(FlattenSeq(seqs)) :
               whole \/ k < Len(FlattenSeq(seqs)) => FlattenSeq(seqs)[k] = bs[k]
          /\ whole /\ r = Rows(bs) => FlattenSeq(seqs) = bs
      BY <1>11, <2>1, <2>2, <2>3, BodyIs
    <2> QED BY <1>2, <2>4, <2>5
  <1>14. Closes(d, e)
    BY <1>5, <1>6, <1>9 DEF Closes
  <1>15. F3Section(d, at, name, Len(bs)) =
           IF /\ at \in DOMAIN d /\ d[at] = Mark(name)
              /\ Closes(d, e)
              /\ Len(bs) = Len(FlattenSeq(seqs))
             THEN e ELSE 0
    BY <1>4 DEF F3Section, seqs
  <1>16. F3Section(d, at, name, Len(bs)) = e
    BY <1>5, <1>6, <1>13, <1>14, <1>15
  <1> QED BY <1>2, <1>3, <1>9, <1>16

(* f3_run parses a whole dump without diagnostics and check errors.          *)
LEMMA WholeParses ==
  ASSUME NEW e \in Emissions, e.errors = 0, e.diags = 0, e.checks = 0
  PROVE  F3Parses(Dump(e))
  <1>1. PICK d \in Text : d = Dump(e)
    BY DumpIs
  <1>2. HeadShape(e, d) /\ BodyShape(e, d)
    BY <1>1, DumpIs
  <1>3. PICK y \in Nat, a \in Nat, b \in Nat, c \in Nat :
          /\ y = e.symbols /\ a = Rows(e.header) /\ b = Rows(e.content) /\ c = Rows(e.tail)
    BY Sizes
  <1>4. PICK h \in Nat : h = H(e) /\ h = 11 + y
    <2>1. H(e) = 11 + 0 + y
      BY <1>3 DEF H
    <2> QED BY <2>1
  <1>5. C(e) = h + a + 2
    BY <1>3, <1>4 DEF C
  <1>6. T(e) = h + a + 2 + b + 2
    BY <1>3, <1>5 DEF T
  <1>7. Len(d) = h + a + 2 + b + 2 + c + 2
    BY <1>2, <1>3, <1>6 DEF BodyShape, E
  <1>8. PICK n \in Nat : n = Len(d)
    BY <1>7
  <1>9. n >= 17 + y
    BY <1>4, <1>7, <1>8
  <1>10. /\ d[1] = Pair("check-errors", 0) /\ d[2] = Pair("ir-defs", 1)
         /\ d[3] = Pair("emit-errors", 0) /\ d[4] = Pair("emit-diags", 0)
         /\ d[5] = Dot
    <2>1. d[5 + 0] = Dot
      BY <1>2 DEF HeadShape
    <2> QED BY <1>2, <2>1 DEF HeadShape
  <1>11. /\ d[6] = Pair("header-len", Len(e.header)) /\ d[7] = Pair("content-len", Len(e.content))
         /\ d[8] = Pair("tail-len", Len(e.tail)) /\ d[9] = Mark("symbols")
         /\ \A l \in 10 .. 9 + y : d[l] = Other("symbol")
         /\ d[10 + y] = Dot
    <2>1. /\ d[6 + 0] = Pair("header-len", Len(e.header))
          /\ d[7 + 0] = Pair("content-len", Len(e.content))
          /\ d[8 + 0] = Pair("tail-len", Len(e.tail))
          /\ d[9 + 0] = Mark("symbols")
          /\ \A l \in 10 + 0 .. 9 + 0 + y : d[l] = Other("symbol")
          /\ d[10 + 0 + y] = Dot
      BY <1>2, <1>3 DEF BodyShape
    <2>2. 6 + 0 = 6 /\ 7 + 0 = 7 /\ 8 + 0 = 8 /\ 9 + 0 = 9 /\ 10 + 0 = 10
      OBVIOUS
    <2> QED BY <2>1, <2>2
  <1>12. /\ e.header \in Bin /\ e.content \in Bin /\ e.tail \in Bin
         /\ Printed(d, h, "header", e.header)
         /\ Printed(d, C(e), "content", e.content) /\ Printed(d, T(e), "tail", e.tail)
    BY <1>2, <1>4, EmissionIs DEF BodyShape
  <1>13. SymbolsEnd(d) = 10 + y
    <2>1. PICK s : s = SymbolsEnd(d)
      OBVIOUS
    <2>2. 10 + y \in 1 .. n /\ d[10 + y].kind # "symbol"
      BY <1>9, <1>11 DEF Dot, Other
    <2>3. 10 + y \in 10 .. n /\ n > 9
      BY <1>9
    <2>4. Firstly(s, 10, n, {x \in 1 .. n : d[x].kind # "symbol"}) /\ s <= n
      BY <1>8, <2>1, <2>2, <2>3, SymbolsEndIs
    <2>5. /\ s \in 10 .. n /\ d[s].kind # "symbol"
          /\ \A x \in 10 .. s - 1 : x \notin {l \in 1 .. n : d[l].kind # "symbol"}
      BY <2>4 DEF Firstly
    <2>6. s \notin 10 .. 9 + y
      BY <1>11, <2>5 DEF Other
    <2>7. 10 + y \notin 10 .. s - 1
      BY <2>2, <2>5
    <2>8. s = 10 + y
      BY <2>5, <2>6, <2>7
    <2> QED BY <2>1, <2>8
  <1>14. F3Header(d) = h + a + 1
    <2>1. F3Section(d, h, "header", Len(e.header)) = F3Header(d)
      <3>1. SymbolsEnd(d) + 1 = h /\ d[6].val = Len(e.header)
        BY <1>4, <1>11, <1>13 DEF Pair
      <3> QED BY <3>1 DEF F3Header
    <2>2. 1 <= h /\ h + a + 1 <= Len(d)
      BY <1>4, <1>7
    <2> QED BY <1>3, <1>12, <2>1, <2>2, F3Whole
  <1>15. F3Content(d) = h + a + 2 + b + 1
    <2>1. PICK at \in Nat : at = h + a + 2
      OBVIOUS
    <2>2. F3Section(d, at, "content", Len(e.content)) = F3Content(d)
      <3>1. F3Header(d) + 1 = at /\ d[7].val = Len(e.content)
        BY <1>11, <1>14, <2>1 DEF Pair
      <3> QED BY <3>1 DEF F3Content
    <2>3. 1 <= at /\ at + b + 1 <= Len(d) /\ at = C(e)
      BY <1>5, <1>7, <2>1
    <2>4. F3Section(d, at, "content", Len(e.content)) = at + b + 1
      BY <1>3, <1>12, <2>3, F3Whole
    <2> QED BY <2>1, <2>2, <2>4
  <1>16. F3Tail(d) = h + a + 2 + b + 2 + c + 1
    <2>1. PICK at \in Nat : at = h + a + 2 + b + 2
      OBVIOUS
    <2>2. F3Section(d, at, "tail", Len(e.tail)) = F3Tail(d)
      <3>1. F3Content(d) + 1 = at /\ d[8].val = Len(e.tail)
        BY <1>11, <1>15, <2>1 DEF Pair
      <3> QED BY <3>1 DEF F3Tail
    <2>3. 1 <= at /\ at + c + 1 <= Len(d) /\ at = T(e)
      BY <1>6, <1>7, <2>1
    <2>4. F3Section(d, at, "tail", Len(e.tail)) = at + c + 1
      BY <1>3, <1>12, <2>3, F3Whole
    <2> QED BY <2>1, <2>2, <2>4
  <1>17. F3Header(d) # 0 /\ F3Content(d) # 0 /\ F3Tail(d) # 0
    BY <1>14, <1>15, <1>16
  <1>18. SymbolsEnd(d) > 9 /\ d[SymbolsEnd(d)] = Dot /\ Len(d) > 9
    BY <1>8, <1>9, <1>11, <1>13
  <1>19. /\ d[1].kind = "pair" /\ d[1].key = "check-errors" /\ d[1].val = 0
         /\ d[2].kind = "pair" /\ d[2].key = "ir-defs"
         /\ d[3].kind = "pair" /\ d[3].key = "emit-errors" /\ d[3].val = 0
         /\ d[4].kind = "pair" /\ d[4].key = "emit-diags"
    BY <1>10 DEF Pair
  <1>20. /\ d[6].kind = "pair" /\ d[6].key = "header-len"
         /\ d[7].kind = "pair" /\ d[7].key = "content-len"
         /\ d[8].kind = "pair" /\ d[8].key = "tail-len"
    BY <1>11 DEF Pair
  <1>21. F3Parses(d)
    BY <1>10, <1>11, <1>17, <1>18, <1>19, <1>20, ParsesIs
  <1> QED BY <1>1, <1>21

(* Nothing whole and clean is refused: the boot verifier takes every dump of *)
(* a binary that reached it whole, and f3_run every one without diagnostics. *)
THEOREM CleanAccepted == Spec => []CleanIsAccepted
  <1>1. Inv => CleanIsAccepted
    <2> SUFFICES ASSUME Inv, mode = "done", dump = Dump(emission), emission.errors = 0
                 PROVE  /\ verdict = "accepted"
                        /\ emission.diags = 0 /\ emission.checks = 0 => F3Parses(dump)
      BY DEF CleanIsAccepted
    <2>1. verdict = "accepted"
      BY DEF Inv, Given, VerdictInv, Whole
    <2>2. emission \in Emissions
      BY DEF Inv, Given
    <2> QED BY <2>1, <2>2, WholeParses
  <1> QED BY <1>1, Invariance, PTL
=============================================================================
