---------------------------- MODULE SegmentPieces ----------------------------
(***************************************************************************)
(* segment.rs in one piece: what SegmentIter's next() hands out of a       *)
(* segment, as a function of the segment and the step.  SegmentIter, which *)
(* goes call by call, refers to it, and DownloadSession is built on it.    *)
(***************************************************************************)
EXTENDS Integers

(* The bytes of a segment: start .. end() - 1. *)
Covers(s, b) == s.start <= b /\ b < s.start + s.remain

(* The step of Segment::split_by_times, if remain + n fits a u64. *)
Step(s, n) == (s.remain + n) \div n

(* The piece next() hands out after i others. *)
Piece(s, step, i) ==
  [start |-> s.start + i * step,
   remain |-> IF s.remain - i * step > step THEN step ELSE s.remain - i * step]

(* Mutant: only full steps. *)
PiecesFull(s, n) ==
  {Piece(s, Step(s, n), i) : i \in 0 .. s.remain \div Step(s, n) - 1}

(* Segment::split_by_times: the pieces of step bytes, the last of them     *)
(* what is left.                                                           *)
Pieces(s, n) ==
  {Piece(s, Step(s, n), i) : i \in 0 .. (s.remain - 1) \div Step(s, n)}
=============================================================================
