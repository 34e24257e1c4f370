-------------------------- MODULE SegmentIterProofs --------------------------
(***************************************************************************)
(* Theorems about SegmentIter, for every word width, segment and step.     *)
(***************************************************************************)
EXTENDS SegmentIter, SegmentPiecesProofs

(* The iterator's rest lies inside the segment it was made from.           *)
RestInside ==
  /\ start >= origin.start
  /\ start + remain <= End(origin)
  /\ remain # 0 => start + remain = End(origin)

IInv == TypeOK /\ RestInside /\ PiecesThenRest

LEMMA InitInv == Init => IInv
BY SegmentAssumption
   DEF Init, IInv, TypeOK, RestInside, PiecesThenRest, Contiguous, End, Segment,
       Word, NonZero

(* Before the first piece the iterator is the segment. *)
LEMMA CutInv ==
  ASSUME IInv, phase' \in {"whole", "cut", "panicked"},
         UNCHANGED <<origin, remain, start, out>>,
         times' \in Word, step' \in NonZero
  PROVE  IInv'
BY DEF IInv, TypeOK, RestInside, PiecesThenRest, Contiguous, End

LEMMA QuotientIsAWord ==
  ASSUME NEW n \in NonZero, origin \in Segment, FixRemain(n) \div n # 0
  PROVE  FixRemain(n) \div n \in NonZero
<1>1. origin.remain + n \in Nat /\ n \in Nat \ {0} /\ Modulus \in Nat \ {0}
  BY SegmentAssumption DEF Segment, NonZero, Word
<1>2. FixRemain(n) \in 0 .. Modulus - 1
  BY <1>1 DEF FixRemain
<1>3. FixRemain(n) \div n \in Nat /\ FixRemain(n) \div n <= FixRemain(n)
  BY <1>1, <1>2
<1> QED
  BY <1>1, <1>2, <1>3 DEF NonZero

(* One piece is cut off the front of the rest. *)
LEMMA PieceInv == IInv /\ NextPiece => IInv'
<1> SUFFICES ASSUME IInv, NextPiece PROVE IInv'
  OBVIOUS
<1> DEFINE piece == [start |-> start, remain |-> IF remain > step THEN step ELSE remain]
           n == Len(out)
<1> USE SegmentAssumption DEF Word, NonZero
<1>1. /\ out \in Seq(Segment) /\ n \in Nat
      /\ start \in Word /\ remain \in NonZero /\ step \in NonZero
      /\ origin \in Segment
      /\ start >= origin.start /\ start + remain = End(origin)
  BY DEF IInv, TypeOK, RestInside, NextPiece
<1>2. /\ out' = Append(out, piece)
      /\ remain' = IF remain > step THEN remain - step ELSE 0
      /\ start' = IF remain > step THEN start + step ELSE start
      /\ UNCHANGED <<phase, origin, times, step>>
  BY DEF NextPiece
<1>3. End(origin) < Modulus
  BY <1>1 DEF Segment, End
<1>4. piece \in Segment
  BY <1>1, <1>3 DEF Segment, End
<1>5. /\ out' \in Seq(Segment) /\ Len(out') = n + 1 /\ out'[n + 1] = piece
      /\ \A i \in 1 .. n : out'[i] = out[i]
  BY <1>1, <1>2, <1>4
<1>6. TypeOK'
  BY <1>1, <1>2, <1>3, <1>5 DEF IInv, TypeOK, End, Segment
<1>7. RestInside'
  BY <1>1, <1>2 DEF RestInside, End, Segment
<1>8. PiecesThenRest'
  <2>1. out'[1].start = origin.start
    <3>1. CASE out = <<>>
      BY <1>5, <3>1 DEF IInv, PiecesThenRest
    <3>2. CASE out # <<>>
      <4>1. 1 \in 1 .. n
        BY <1>1, <3>2
      <4> QED
        BY <1>5, <3>2, <4>1 DEF IInv, PiecesThenRest, Contiguous
    <3> QED
      BY <3>1, <3>2
  <2>2. ASSUME NEW i \in 1 .. n PROVE End(out'[i]) = out'[i + 1].start
    <3>1. CASE i < n
      <4>1. i \in 1 .. n - 1 /\ i + 1 \in 1 .. n
        BY <1>1, <3>1
      <4> QED
        BY <1>5, <4>1 DEF IInv, PiecesThenRest, Contiguous
    <3>2. CASE i = n
      <4>1. out # <<>> /\ remain # 0
        BY <1>1, <3>2
      <4>2. End(out[n]) = start
        BY <4>1 DEF IInv, PiecesThenRest
      <4> QED
        BY <1>5, <3>2, <4>2
    <3> QED
      BY <1>1, <3>1, <3>2
  <2>3. End(piece) = IF remain' = 0 THEN End(origin) ELSE start'
    BY <1>1, <1>2 DEF End
  <2>4. out' # <<>>
    BY <1>1, <1>5
  <2> QED
    BY <1>1, <1>2, <1>5, <1>7, <2>1, <2>2, <2>3, <2>4
       DEF PiecesThenRest, Contiguous, RestInside
<1> QED
  BY <1>6, <1>7, <1>8 DEF IInv

LEMMA NextInv == IInv /\ [Next]_vars => IInv'
<1> SUFFICES ASSUME IInv, [Next]_vars PROVE IInv'
  OBVIOUS
<1> USE DEF Word, NonZero
<1>1. ASSUME NEW n \in NonZero, SplitByStep(n) PROVE IInv'
  BY <1>1, CutInv DEF SplitByStep, IInv, TypeOK
<1>2. ASSUME NEW n \in NonZero, SplitByTimes(n) PROVE IInv'
  <2>1. CASE FixRemain(n) \div n # 0 /\ step' = FixRemain(n) \div n
    <3>1. step' \in NonZero
      BY <2>1, QuotientIsAWord DEF IInv, TypeOK
    <3> QED
      BY <1>2, <3>1, CutInv DEF SplitByTimes, Panic, IInv, TypeOK
  <2>2. CASE Panic
    BY <1>2, <2>2, CutInv DEF SplitByTimes, Panic, IInv, TypeOK
  <2> QED
    BY <1>2, <2>1, <2>2 DEF SplitByTimes
<1>3. ASSUME NEW n \in NonZero, SplitAt(n) PROVE IInv'
  BY <1>3, CutInv DEF SplitAt, Panic, IInv, TypeOK
<1>4. CASE NextPiece
  BY <1>4, PieceInv
<1>5. CASE UNCHANGED vars
  BY <1>5, CutInv DEF vars, IInv, TypeOK
<1> QED
  BY <1>1, <1>2, <1>3, <1>4, <1>5 DEF Next, NextNone, Panicked

LEMMA Invariant == Spec => []IInv
BY InitInv, NextInv, PTL DEF Spec

(* No u64 of the iterator or of a piece overflows, whatever is cut. *)
THEOREM SegmentTypeCorrect == Spec => []TypeOK
<1>1. IInv => TypeOK
  BY DEF IInv
<1> QED
  BY <1>1, Invariant, PTL

(* The pieces and the rest partition the segment. *)
THEOREM PiecesCoverSegment == Spec => []PiecesThenRest
<1>1. IInv => PiecesThenRest
  BY DEF IInv
<1> QED
  BY <1>1, Invariant, PTL

-----------------------------------------------------------------------------
(* Sizes and number of the pieces.                                         *)

(* After k pieces k steps are gone; times steps are more than the segment. *)
CountInv ==
  /\ phase # "cut" => out = <<>> /\ remain # 0
  /\ phase = "whole" => times = 0
  /\ phase = "cut" =>
       IF remain # 0 THEN Len(out) * step + remain = origin.remain
                     ELSE /\ Len(out) # 0 /\ (Len(out) - 1) * step < origin.remain
                          /\ origin.remain <= (Len(out) - 1) * step + step
  /\ times # 0 /\ phase = "cut" /\ origin.remain + times < Modulus =>
       step * times > origin.remain /\ step = Step(origin, times)
  /\ \A i \in 1 .. Len(out) : out[i] = Piece(origin, step, i - 1)

LEMMA InitCount == Init => CountInv /\ FullSteps
BY DEF Init, CountInv, FullSteps, Segment, NonZero

LEMMA SegmentIsOne == \A s \in Segment : s \in AnySegment
BY SegmentAssumption DEF Segment, AnySegment, Word, NonZero

LEMMA PieceCount ==
  ASSUME IInv, CountInv, FullSteps, NextPiece
  PROVE  CountInv' /\ FullSteps'
<1> DEFINE n == Len(out)
           piece == [start |-> start, remain |-> IF remain > step THEN step ELSE remain]
<1> USE SegmentAssumption DEF Word, NonZero
<1>1. /\ out \in Seq(Segment) /\ n \in Nat /\ phase = "cut"
      /\ start \in Word /\ remain \in NonZero /\ step \in NonZero
      /\ origin.remain \in Nat /\ n * step + remain = origin.remain
  BY DEF IInv, TypeOK, NextPiece, CountInv, Segment
<1>2. /\ out' = Append(out, piece)
      /\ remain' = IF remain > step THEN remain - step ELSE 0
      /\ UNCHANGED <<phase, origin, times, step>>
  BY DEF NextPiece
<1>3. piece \in [start : Word, remain : NonZero]
  BY <1>1
<1>4. /\ Len(out') = n + 1 /\ out'[n + 1] = piece
      /\ \A i \in 1 .. n : out'[i] = out[i]
  BY <1>1, <1>2
<1>5. n * step \in Nat /\ (n + 1) * step = n * step + step
  BY <1>1
<1>6. CountInv'
  <2>1. IF remain' # 0 THEN (n + 1) * step + remain' = origin.remain
                       ELSE n * step < origin.remain /\ origin.remain <= n * step + step
    <3> DEFINE done == n * step
    <3>1. done \in Nat /\ (n + 1) * step = done + step /\ done + remain = origin.remain
      BY <1>1, <1>5
    <3> HIDE DEF done
    <3>2. remain \in Nat /\ step \in Nat /\ remain > 0
      BY <1>1
    <3>3. CASE remain > step
      <4>1. remain' = remain - step /\ remain' # 0
        BY <1>2, <3>2, <3>3
      <4> QED
        BY <1>1, <3>1, <3>2, <4>1
    <3>4. CASE ~(remain > step)
      <4>1. remain' = 0 /\ done < origin.remain
        BY <1>1, <1>2, <3>1, <3>2, <3>4
      <4>2. origin.remain <= done + step
        BY <3>1, <3>2, <3>4
      <4> QED
        BY <4>1, <4>2 DEF done
    <3> QED
      BY <3>3, <3>4
  <2>2. piece = Piece(origin, step, n)
    <3> DEFINE x == n * step
    <3>1. x \in Nat /\ x + remain = origin.remain
      BY <1>1, <1>5
    <3>2. start = origin.start + x /\ remain = origin.remain - x
      <4>1. start + remain = origin.start + origin.remain /\ origin.start \in Nat
        BY <1>1 DEF IInv, TypeOK, RestInside, End, Segment
      <4> HIDE DEF x
      <4> QED
        BY <1>1, <3>1, <4>1
    <3> QED
      BY <3>2 DEF Piece
  <2>3. \A i \in 1 .. n + 1 : out'[i] = Piece(origin, step, i - 1)
    <3> SUFFICES ASSUME NEW i \in 1 .. n + 1 PROVE out'[i] = Piece(origin, step, i - 1)
      OBVIOUS
    <3>1. CASE i = n + 1
      <4>1. i - 1 = n
        BY <1>1, <3>1
      <4> QED
        BY <1>4, <2>2, <3>1, <4>1
    <3>2. CASE i # n + 1
      <4>1. i \in 1 .. n
        BY <1>1, <3>2
      <4> QED
        BY <1>4, <4>1 DEF CountInv
    <3> QED
      BY <3>1, <3>2
  <2>4. Len(out') = n + 1 /\ n + 1 # 0 /\ n + 1 - 1 = n
    BY <1>1, <1>4
  <2> HIDE DEF n, piece
  <2> QED
    BY <1>1, <1>2, <2>1, <2>3, <2>4 DEF CountInv
<1>7. ASSUME NEW i \in 1 .. n + 1
      PROVE  /\ out'[i].remain <= step
             /\ i < n + 1 \/ remain' # 0 => out'[i].remain = step
  <2>1. CASE i = n + 1
    BY <1>1, <1>2, <1>4, <2>1
  <2>2. CASE i # n + 1
    <3>1. i \in 1 .. n
      BY <1>1, <2>2
    <3> QED
      BY <1>1, <1>4, <3>1 DEF FullSteps
  <2> QED
    BY <2>1, <2>2
<1> QED
  BY <1>2, <1>4, <1>6, <1>7 DEF FullSteps

LEMMA NextCount == IInv /\ CountInv /\ FullSteps /\ [Next]_vars => CountInv' /\ FullSteps'
<1> SUFFICES ASSUME IInv, CountInv, FullSteps, [Next]_vars PROVE CountInv' /\ FullSteps'
  OBVIOUS
<1> USE DEF Word, NonZero
<1>1. ASSUME NEW n \in NonZero, SplitByStep(n) PROVE CountInv' /\ FullSteps'
  <2>1. /\ out = <<>> /\ out' = <<>> /\ phase' = "cut" /\ step' = n
        /\ remain # 0 /\ UNCHANGED <<origin, times, remain>>
    BY <1>1 DEF SplitByStep, CountInv
  <2>2. times = 0 /\ remain = origin.remain /\ remain \in Nat
    BY <1>1, <2>1 DEF SplitByStep, IInv, TypeOK, PiecesThenRest, CountInv
  <2> QED
    BY <2>1, <2>2 DEF CountInv, FullSteps
<1>2. ASSUME NEW n \in NonZero, SplitByTimes(n) PROVE CountInv' /\ FullSteps'
  <2>1. /\ out = <<>> /\ out' = <<>> /\ remain # 0 /\ times' = n
        /\ UNCHANGED <<origin, remain>>
    BY <1>2 DEF SplitByTimes, Panic, CountInv
  <2>2. remain = origin.remain /\ remain \in Nat
    BY <2>1 DEF IInv, TypeOK, PiecesThenRest
  <2>3. CASE phase' = "cut" /\ step' = FixRemain(n) \div n /\ FixRemain(n) \div n # 0
    <3>1. step' \in NonZero
      BY <2>3, QuotientIsAWord DEF IInv, TypeOK
    <3>2. ASSUME origin.remain + n < Modulus
          PROVE  step' * n > origin.remain /\ step' = Step(origin, n)
      <4>1. FixRemain(n) = origin.remain + n
        BY <2>2, <3>2, SegmentAssumption DEF FixRemain
      <4>2. origin \in AnySegment /\ n \in Nat \ {0}
        BY SegmentIsOne, SegmentAssumption DEF IInv, TypeOK
      <4>3. step' = Step(origin, n)
        BY <2>3, <4>1 DEF Step
      <4> QED
        BY <4>2, <4>3, StepsCover
    <3> QED
      BY <2>1, <2>2, <2>3, <3>1, <3>2 DEF CountInv, FullSteps
  <2>4. CASE Panic
    BY <2>1, <2>2, <2>4 DEF Panic, CountInv, FullSteps
  <2> QED
    BY <1>2, <2>3, <2>4 DEF SplitByTimes
<1>3. ASSUME NEW n \in NonZero, SplitAt(n) PROVE CountInv' /\ FullSteps'
  BY <1>3 DEF SplitAt, Panic, CountInv, FullSteps
<1>4. CASE NextPiece
  BY <1>4, PieceCount
<1>5. CASE UNCHANGED vars
  BY <1>5 DEF vars, CountInv, FullSteps
<1> QED
  BY <1>1, <1>2, <1>3, <1>4, <1>5 DEF Next, NextNone, Panicked

LEMMA CountInvariant == Spec => [](IInv /\ CountInv /\ FullSteps)
BY InitInv, InitCount, NextInv, NextCount, PTL DEF Spec

(* All pieces but the last have the full step, and none is longer. *)
THEOREM StepsAreFull == Spec => []FullSteps
BY CountInvariant, PTL

(* split_by_times(n) yields n pieces at most when remain + n fits a u64. *)
THEOREM TimesIsABound == Spec => []AtMostTimes
<1>1. IInv /\ CountInv => AtMostTimes
  <2> SUFFICES ASSUME IInv, CountInv, times # 0, phase = "cut",
                      origin.remain + times < Modulus
               PROVE  Len(out) <= times
    BY DEF AtMostTimes
  <2> DEFINE n == Len(out)
  <2>1. /\ n \in Nat /\ step \in Nat \ {0} /\ times \in Nat /\ remain \in Nat
        /\ origin.remain \in Nat
    BY SegmentAssumption DEF IInv, TypeOK, Word, NonZero, Segment
  <2>2. step * times > origin.remain
    BY DEF CountInv
  <2>3. (n - 1) * step < origin.remain
    <3>1. CASE remain # 0
      <4>1. n * step + remain = origin.remain
        BY <3>1 DEF CountInv
      <4>2. (n - 1) * step = n * step - step /\ n * step \in Nat
        BY <2>1
      <4> QED
        BY <2>1, <4>1, <4>2
    <3>2. CASE remain = 0
      BY <3>2 DEF CountInv
    <3> QED
      BY <3>1, <3>2
  <2>4. ASSUME n - 1 >= times PROVE FALSE
    <3>1. (n - 1) * step >= times * step
      BY <2>1, <2>4
    <3>2. times * step = step * times /\ times * step \in Nat /\ (n - 1) * step \in Int
      BY <2>1
    <3> QED
      BY <2>1, <2>2, <2>3, <3>1, <3>2
  <2> QED
    BY <2>1, <2>4
<1> QED
  BY <1>1, CountInvariant, PTL

(* An iterator of split_by_times(n) that is exhausted has handed out the   *)
(* pieces DownloadSession launches its tasks with, in their order.         *)
THEOREM PiecesAreHandedOut == Spec => []HandsOutPieces
<1>1. IInv /\ CountInv => HandsOutPieces
  <2> SUFFICES ASSUME IInv, CountInv PROVE HandsOutPieces
    OBVIOUS
  <2> DEFINE n == Len(out)
             R == origin.remain
  <2>1. n \in Nat /\ step \in Nat \ {0} /\ R \in Nat \ {0}
    BY SegmentAssumption DEF IInv, TypeOK, NonZero, Segment
  <2>2. \A i \in 1 .. n : out[i] = Piece(origin, step, i - 1)
    BY DEF CountInv
  <2>3. ASSUME times # 0, phase = "cut", remain = 0, R + times < Modulus
        PROVE  {out[i] : i \in 1 .. n} = Pieces(origin, times)
    <3>1. step = Step(origin, times)
      BY <2>3 DEF CountInv
    <3>2. n - 1 \in Nat /\ (n - 1) * step < R /\ R <= (n - 1) * step + step
      BY <2>1, <2>3 DEF CountInv
    <3>3. (R - 1) \div step = n - 1
      <4> DEFINE q == n - 1
      <4>1. q \in Nat /\ q * step < R /\ R <= q * step + step
        BY <3>2
      <4> HIDE DEF q, R
      <4>2. q * step \in Nat
        BY <2>1, <4>1, Products
      <4>3. R - 1 \in Nat /\ q * step <= R - 1 /\ R - 1 < q * step + step
        BY <2>1, <4>1, <4>2
      <4>4. (R - 1) \div step = q
        BY <2>1, <4>1, <4>3, QuotientUnique
      <4> QED
        BY <4>4 DEF q
    <3>4. Pieces(origin, times) = {Piece(origin, step, i) : i \in 0 .. n - 1}
      BY <3>1, <3>3 DEF Pieces
    <3>5. \A i \in 0 .. n - 1 : i + 1 \in 1 .. n /\ i + 1 - 1 = i
      BY <2>1
    <3>6. \A i \in 1 .. n : i - 1 \in 0 .. n - 1
      BY <2>1
    <3> HIDE DEF n
    <3>7. \A i \in 0 .. n - 1 : out[i + 1] = Piece(origin, step, i)
      BY <2>2, <3>5
    <3> QED
      BY <2>2, <3>4, <3>5, <3>6, <3>7
  <2> QED
    BY <2>2, <2>3 DEF HandsOutPieces
<1> QED
  BY <1>1, CountInvariant, PTL
=============================================================================
