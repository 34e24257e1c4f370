------------------------- MODULE SegmentPiecesProofs -------------------------
(***************************************************************************)
(* Theorems about SegmentPieces, for every segment and every number of     *)
(* pieces, and the arithmetic they and the theorems about SegmentIter and  *)
(* DownloadSession rest on.                                                *)
(***************************************************************************)
EXTENDS SegmentPieces, TLAPS

AnySegment == [start : Nat, remain : Nat \ {0}]

Apart(s, z) == s.start + s.remain <= z.start \/ z.start + z.remain <= s.start

LEMMA Quotient ==
  ASSUME NEW a \in Nat, NEW d \in Nat \ {0}
  PROVE  /\ a \div d \in Nat
         /\ (a \div d) * d <= a /\ a < (a \div d) * d + d
<1>1. a \div d \in Nat /\ a = d * (a \div d) + (a % d) /\ a % d \in 0 .. d - 1
  OBVIOUS
<1>2. d * (a \div d) = (a \div d) * d
  BY <1>1
<1> DEFINE q == (a \div d) * d
<1>3. q \in Nat
  BY <1>1
<1> QED
  BY <1>1, <1>2, <1>3

LEMMA Products ==
  ASSUME NEW i \in Nat, NEW k \in Nat, NEW d \in Nat \ {0}
  PROVE  /\ i * d \in Nat /\ k * d \in Nat
         /\ i < k => i * d + d <= k * d
         /\ i <= k => i * d <= k * d
<1>1. i * d \in Nat /\ k * d \in Nat
  OBVIOUS
<1>2. ASSUME i < k PROVE i * d + d <= k * d
  <2>1. PICK j \in Nat : k = i + 1 + j
    <3>1. k - i - 1 \in Nat /\ k = i + 1 + (k - i - 1)
      BY <1>2
    <3> QED
      BY <3>1
  <2>2. k * d = i * d + d + j * d
    BY <2>1
  <2>3. j * d \in Nat
    BY <2>1
  <2> QED
    BY <1>1, <2>2, <2>3
<1>3. ASSUME i <= k PROVE i * d <= k * d
  <2>1. CASE i = k
    BY <1>1, <2>1
  <2>2. CASE i < k
    BY <1>1, <1>2, <2>2
  <2> QED
    BY <1>3, <2>1, <2>2
<1> QED
  BY <1>1, <1>2, <1>3

(* A step is at least a byte long. *)
LEMMA StepPositive ==
  ASSUME NEW s \in AnySegment, NEW n \in Nat \ {0}
  PROVE  Step(s, n) \in Nat \ {0}
<1>1. s.remain \in Nat \ {0} /\ s.remain + n \in Nat
  BY DEF AnySegment
<1> DEFINE q == (s.remain + n) \div n
<1>2. q \in Nat /\ q * n <= s.remain + n /\ s.remain + n < q * n + n
  BY <1>1, Quotient
<1> HIDE DEF q
<1>3. ASSUME q = 0 PROVE FALSE
  <2>1. q * n = 0
    BY <1>3
  <2> QED
    BY <1>1, <1>2, <2>1
<1>4. Step(s, n) = q
  BY DEF Step, q
<1> QED
  BY <1>2, <1>3, <1>4

(* Piece i begins after i steps, inside the segment, and ends where the    *)
(* next one begins or where the segment ends.                              *)
LEMMA PieceBounds ==
  ASSUME NEW s \in AnySegment, NEW d \in Nat \ {0}, NEW i \in 0 .. (s.remain - 1) \div d
  PROVE  LET p == Piece(s, d, i) IN
         /\ i * d \in Nat /\ i * d < s.remain
         /\ p \in AnySegment
         /\ p.start = s.start + i * d
         /\ s.start <= p.start /\ p.start + p.remain <= s.start + s.remain
         /\ p.remain <= d
         /\ p.start + p.remain = s.start + i * d + d \/ p.start + p.remain = s.start + s.remain
<1> DEFINE p == Piece(s, d, i)
           m == (s.remain - 1) \div d
<1>0. s.start \in Nat /\ s.remain \in Nat \ {0}
  BY DEF AnySegment
<1>1. s.remain - 1 \in Nat
  BY <1>0
<1>2. m \in Nat /\ m * d <= s.remain - 1
  BY <1>1, Quotient
<1> HIDE DEF m
<1>3. i \in Nat /\ i <= m
  BY <1>2 DEF m
<1>4. i * d \in Nat /\ i * d <= m * d /\ m * d \in Nat
  BY <1>2, <1>3, Products
<1> DEFINE x == i * d
<1>5. x \in Nat /\ x < s.remain
  BY <1>0, <1>2, <1>4
<1>6. /\ p.start = s.start + x
      /\ p.remain = IF s.remain - x > d THEN d ELSE s.remain - x
      /\ p = [start |-> p.start, remain |-> p.remain]
  BY DEF Piece
<1> HIDE DEF p, x
<1>7. /\ p.remain \in Nat \ {0} /\ p.start \in Nat
      /\ s.start <= p.start /\ p.start + p.remain <= s.start + s.remain
      /\ p.remain <= d
      /\ p.start + p.remain = s.start + x + d \/ p.start + p.remain = s.start + s.remain
  BY <1>0, <1>5, <1>6
<1>8. p \in AnySegment
  BY <1>6, <1>7 DEF AnySegment
<1> QED
  BY <1>5, <1>6, <1>7, <1>8 DEF p, x

(* SegmentIter's pieces are segments inside the one that was cut, do not   *)
(* overlap, and leave no byte of it out.                                   *)
THEOREM PiecesTile ==
  ASSUME NEW s \in AnySegment, NEW n \in Nat \ {0}
  PROVE  /\ \A p \in Pieces(s, n) :
              /\ p \in AnySegment
              /\ s.start <= p.start /\ p.start + p.remain <= s.start + s.remain
         /\ \A p, q \in Pieces(s, n) : p # q => Apart(p, q)
         /\ \A b \in Nat : Covers(s, b) => \E p \in Pieces(s, n) : Covers(p, b)
<1> DEFINE d == Step(s, n)
           m == (s.remain - 1) \div d
<1>0. d \in Nat \ {0}
  BY StepPositive
<1>00. s.start \in Nat /\ s.remain \in Nat \ {0} /\ s.remain - 1 \in Nat
  BY DEF AnySegment
<1> HIDE DEF d
<1>1. \A p \in Pieces(s, n) : \E i \in 0 .. m : p = Piece(s, d, i)
  BY DEF Pieces, d
<1>2. \A i \in 0 .. m : Piece(s, d, i) \in Pieces(s, n)
  BY DEF Pieces, d
<1>3. m \in Nat /\ s.remain - 1 < m * d + d
  BY <1>0, <1>00, Quotient
<1>4. \A i \in 0 .. m :
        LET p == Piece(s, d, i) IN
        /\ i * d \in Nat
        /\ p \in AnySegment
        /\ p.start = s.start + i * d
        /\ s.start <= p.start /\ p.start + p.remain <= s.start + s.remain
        /\ p.remain <= d
        /\ p.start + p.remain = s.start + i * d + d \/ p.start + p.remain = s.start + s.remain
  BY <1>0, PieceBounds
<1> HIDE DEF m
<1>5. ASSUME NEW p \in Pieces(s, n)
      PROVE  /\ p \in AnySegment
             /\ s.start <= p.start /\ p.start + p.remain <= s.start + s.remain
  BY <1>1, <1>4
<1>6. ASSUME NEW i \in 0 .. m, NEW k \in 0 .. m, i < k
      PROVE  Apart(Piece(s, d, i), Piece(s, d, k))
  <2>1. i \in Nat /\ k \in Nat
    BY <1>3
  <2>2. i * d \in Nat /\ k * d \in Nat /\ i * d + d <= k * d
    BY <1>0, <1>6, <2>1, Products
  <2> DEFINE p == Piece(s, d, i)
             q == Piece(s, d, k)
  <2>3. /\ p.start = s.start + i * d /\ q.start = s.start + k * d
        /\ p.remain <= d /\ p.remain \in Nat
    BY <1>4 DEF AnySegment
  <2> HIDE DEF p, q
  <2>4. p.start + p.remain <= q.start
    BY <1>0, <1>00, <2>2, <2>3
  <2> QED
    BY <2>4 DEF Apart, p, q
<1>7. ASSUME NEW p \in Pieces(s, n), NEW q \in Pieces(s, n), p # q PROVE Apart(p, q)
  <2>1. PICK i \in 0 .. m : p = Piece(s, d, i)
    BY <1>1
  <2>2. PICK k \in 0 .. m : q = Piece(s, d, k)
    BY <1>1
  <2>3. i < k \/ k < i
    <3>1. i # k /\ i \in Nat /\ k \in Nat
      BY <1>3, <1>7, <2>1, <2>2
    <3> QED
      BY <3>1
  <2>4. Apart(p, q) \/ Apart(q, p)
    BY <1>6, <2>1, <2>2, <2>3
  <2> QED
    BY <2>4 DEF Apart
<1>8. ASSUME NEW b \in Nat, Covers(s, b) PROVE \E p \in Pieces(s, n) : Covers(p, b)
  <2> DEFINE a == b - s.start
             i == a \div d
  <2>1. a \in Nat /\ a <= s.remain - 1 /\ b \in Nat
    BY <1>00, <1>8 DEF Covers
  <2>2. i \in Nat /\ i * d <= a /\ a < i * d + d
    BY <1>0, <2>1, Quotient
  <2> HIDE DEF i
  <2>3. i <= m
    <3> SUFFICES ASSUME m < i PROVE FALSE
      BY <1>3, <2>2
    <3>1. m * d + d <= i * d /\ m * d \in Nat /\ i * d \in Nat
      BY <1>0, <1>3, <2>2, Products
    <3> QED
      BY <1>0, <1>00, <1>3, <2>1, <2>2, <3>1
  <2>4. i \in 0 .. m
    BY <1>3, <2>2, <2>3
  <2> DEFINE p == Piece(s, d, i)
  <2>5. /\ i * d \in Nat /\ p.start = s.start + i * d /\ p \in Pieces(s, n)
        /\ p.start + p.remain = s.start + i * d + d \/ p.start + p.remain = s.start + s.remain
    BY <1>2, <1>4, <2>4
  <2> HIDE DEF p
  <2>6. p.start <= b /\ b < p.start + p.remain
    <3>1. b = s.start + a
      BY <1>00, <2>1
    <3> QED
      BY <1>0, <1>00, <2>1, <2>2, <2>5, <3>1
  <2> QED
    BY <2>5, <2>6 DEF Covers
<1> QED
  BY <1>5, <1>7, <1>8

-----------------------------------------------------------------------------
(* How many pieces there are. *)

LEMMA QuotientUnique ==
  ASSUME NEW a \in Nat, NEW d \in Nat \ {0}, NEW q \in Nat,
         q * d <= a, a < q * d + d
  PROVE  a \div d = q
<1> DEFINE m == a \div d
<1>1. m \in Nat /\ m * d <= a /\ a < m * d + d
  BY Quotient
<1> HIDE DEF m
<1>2. m * d \in Nat /\ q * d \in Nat
  BY <1>1, Products
<1>3. ~(m < q)
  BY <1>1, <1>2, Products
<1>4. ~(q < m)
  BY <1>1, <1>2, Products
<1>5. m = q
  BY <1>1, <1>3, <1>4
<1> QED
  BY <1>5 DEF m

(* n steps are more than the segment. *)
LEMMA StepsCover ==
  ASSUME NEW s \in AnySegment, NEW n \in Nat \ {0}
  PROVE  Step(s, n) * n > s.remain
<1>1. s.remain \in Nat /\ s.remain + n \in Nat
  BY DEF AnySegment
<1> DEFINE q == (s.remain + n) \div n
<1>2. q \in Nat /\ s.remain + n < q * n + n
  BY <1>1, Quotient
<1> HIDE DEF q
<1>3. q * n \in Nat
  BY <1>2, Products
<1>4. q * n > s.remain
  BY <1>1, <1>2, <1>3
<1> QED
  BY <1>4 DEF Step, q
=============================================================================
