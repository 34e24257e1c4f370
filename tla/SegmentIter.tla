----------------------------- MODULE SegmentIter -----------------------------
(***************************************************************************)
(* segment.rs: how one Segment {start, remain} is cut into the segments    *)
(* that are downloaded side by side.  A segment is chosen and cut by       *)
(* split_by_step, split_by_times or split_at; each call of the iterator's  *)
(* next() hands out one piece.                                             *)
(***************************************************************************)
EXTENDS SegmentPieces, Sequences

CONSTANTS
  Modulus,         \* 2^64 in the code: u64 holds 0 .. Modulus - 1
  OverflowChecks   \* TRUE in a debug build: an overflowing + panics

ASSUME SegmentAssumption ==
  Modulus \in Nat /\ Modulus > 1 /\ OverflowChecks \in BOOLEAN

VARIABLES
  phase,   \* "whole", "cut" (a SegmentIter), "panicked"
  origin,  \* the segment that is cut
  times,   \* the argument of split_by_times, 0 when it was not called
  step,    \* SegmentIter.step
  remain,  \* SegmentIter.remain, 0 for None
  start,   \* SegmentIter.start
  out      \* the segments handed out so far

vars == <<phase, origin, times, step, remain, start, out>>

Word    == 0 .. Modulus - 1
NonZero == 1 .. Modulus - 1

(* Segment::full starts at 0 and the pieces of a segment stay inside it,   *)
(* so that end() fits a u64 for every segment there is.                    *)
Segment == {s \in [start : Word, remain : NonZero] : s.start + s.remain < Modulus}

End(s) == s.start + s.remain

Init ==
  /\ phase = "whole"
  /\ origin \in Segment
  /\ times = 0 /\ step = 1
  /\ remain = origin.remain /\ start = origin.start
  /\ out = <<>>

Panic ==
  /\ phase' = "panicked"
  /\ UNCHANGED <<step, remain, start, out>>

SplitByStep(n) ==
  /\ phase = "whole"
  /\ phase' = "cut" /\ step' = n
  /\ UNCHANGED <<origin, times, remain, start, out>>

(* Mutant: the quotient rounded down. *)
FixRemainFloor(n) == origin.remain

(* fix_remain = remain + times wraps around when overflows go unchecked; a *)
(* quotient of zero is refused by NonZeroU64's try_into().unwrap().        *)
FixRemain(n) == (origin.remain + n) % Modulus

SplitByTimes(n) ==
  /\ phase = "whole"
  /\ times' = n
  /\ IF \/ OverflowChecks /\ origin.remain + n >= Modulus
        \/ FixRemain(n) \div n = 0
     THEN Panic
     ELSE /\ phase' = "cut" /\ step' = FixRemain(n) \div n
          /\ UNCHANGED <<remain, start, out>>
  /\ UNCHANGED origin

(* Mutants: start not advanced; the rest handed out in place of a step;    *)
(* a full step handed out at the end.                                      *)
NextPieceStuck ==
  /\ phase = "cut" /\ remain # 0
  /\ out' = Append(out, [start |-> start, remain |-> IF remain > step THEN step ELSE remain])
  /\ remain' = IF remain > step THEN remain - step ELSE 0
  /\ UNCHANGED <<phase, origin, times, step, start>>
NextPieceWhole ==
  /\ phase = "cut" /\ remain # 0
  /\ out' = Append(out, [start |-> start, remain |-> remain])
  /\ remain' = IF remain > step THEN remain - step ELSE 0
  /\ start' = IF remain > step THEN start + step ELSE start
  /\ UNCHANGED <<phase, origin, times, step>>
NextPieceLong ==
  /\ phase = "cut" /\ remain # 0
  /\ out' = Append(out, [start |-> start, remain |-> step])
  /\ remain' = IF remain > step THEN remain - step ELSE 0
  /\ start' = IF remain > step THEN start + step ELSE start
  /\ UNCHANGED <<phase, origin, times, step>>

(* next(): a piece of a full step, or what is left. *)
NextPiece ==
  /\ phase = "cut" /\ remain # 0
  /\ IF remain > step
     THEN /\ out' = Append(out, [start |-> start, remain |-> step])
          /\ remain' = remain - step
          /\ start' = start + step
     ELSE /\ out' = Append(out, [start |-> start, remain |-> remain])
          /\ remain' = 0
          /\ UNCHANGED start
  /\ UNCHANGED <<phase, origin, times, step>>

(* next() of an exhausted iterator: None, again and again. *)
NextNone ==
  /\ phase = "cut" /\ remain = 0
  /\ UNCHANGED vars

(* split_at takes the first piece and then converts the iterator, whose    *)
(* TryFrom is todo!().                                                     *)
SplitAt(n) ==
  /\ phase = "whole"
  /\ Panic
  /\ UNCHANGED <<origin, times>>

Panicked == phase = "panicked" /\ UNCHANGED vars

Next ==
  \/ \E n \in NonZero : SplitByStep(n) \/ SplitByTimes(n) \/ SplitAt(n)
  \/ NextPiece \/ NextNone \/ Panicked

Spec == Init /\ [][Next]_vars

-----------------------------------------------------------------------------
(* Properties. *)

TypeOK ==
  /\ phase \in {"whole", "cut", "panicked"}
  /\ origin \in Segment
  /\ times \in Word /\ step \in NonZero
  /\ remain \in Word /\ start \in Word
  /\ out \in Seq(Segment)

(* SegmentIter::next: the pieces handed out so far follow each other from  *)
(* the segment's start without gap or overlap, and the iterator holds      *)
(* exactly the rest.                                                       *)
Contiguous ==
  /\ out # <<>> => out[1].start = origin.start
  /\ \A i \in 1 .. Len(out) - 1 : End(out[i]) = out[i + 1].start
PiecesThenRest ==
  /\ Contiguous
  /\ remain # 0 => start + remain = End(origin)
  /\ out = <<>> => start = origin.start /\ remain = origin.remain
  /\ out # <<>> => End(out[Len(out)]) = IF remain = 0 THEN End(origin) ELSE start

(* Every piece but the last is a full step and no piece is longer, so that *)
(* no download gets an outsized share.                                     *)
FullSteps ==
  /\ \A i \in 1 .. Len(out) : out[i].remain <= step
  /\ \A i \in 1 .. Len(out) :
       i < Len(out) \/ remain # 0 => out[i].remain = step

(* split_by_times(n) gives n pieces at most, unless remain + n overflowed. *)
AtMostTimes ==
  times # 0 /\ phase = "cut" /\ origin.remain + times < Modulus => Len(out) <= times

(* The pieces are those that the session's slots are cut from: the i-th    *)
(* one is known before the others are handed out, and an iterator of       *)
(* split_by_times(n) that is exhausted has handed out Pieces(origin, n),   *)
(* unless remain + n overflowed.                                           *)
HandsOutPieces ==
  /\ \A i \in 1 .. Len(out) : out[i] = Piece(origin, step, i - 1)
  /\ times # 0 /\ phase = "cut" /\ remain = 0 /\ origin.remain + times < Modulus =>
       {out[i] : i \in 1 .. Len(out)} = Pieces(origin, times)
=============================================================================
