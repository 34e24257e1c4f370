------------------------- MODULE DownloadGroupProofs -------------------------
(***************************************************************************)
(* Theorems about DownloadGroup, for any number of handles and reporters.  *)
(***************************************************************************)
EXTENDS DownloadGroup, SequenceTheorems, TLAPS

-----------------------------------------------------------------------------
(* The slot vector. *)

(* The values of a vector are the values at its positions. *)
LEMMA RangeOfVector ==
  ASSUME NEW S, NEW v \in Seq(S), NEW x
  PROVE  x \in Range(v) <=> \E i \in 1 .. Len(v) : v[i] = x
BY DEF Range

LEMMA RangeEmpty ==
  ASSUME NEW S, NEW v \in Seq(S)
  PROVE  Range(v) = {} <=> v = <<>>
<1>1. ASSUME v # <<>> PROVE Range(v) # {}
  <2>1. 1 \in 1 .. Len(v)
    BY <1>1, EmptySeq, LenProperties
  <2> QED
    BY <2>1, RangeOfVector
<1>2. ASSUME v = <<>> PROVE Range(v) = {}
  BY <1>2 DEF Range
<1> QED
  BY <1>1, <1>2

LEMMA RangeOfVectorType ==
  ASSUME NEW S, NEW v \in Seq(S)
  PROVE  Range(v) \subseteq S
BY DEF Range

(* swap_remove yields a vector one shorter, whose position k + 1 holds the *)
(* former last slot and whose other positions are as before.               *)
LEMMA SwapRemoveVector ==
  ASSUME NEW S, NEW v \in Seq(S), NEW k \in 0 .. Len(v) - 1
  PROVE  /\ SwapRemove(v, k) \in Seq(S)
         /\ Len(SwapRemove(v, k)) = Len(v) - 1
         /\ \A i \in 1 .. Len(v) - 1 :
              SwapRemove(v, k)[i] = IF i = k + 1 THEN v[Len(v)] ELSE v[i]
<1> DEFINE n == Len(v) - 1
           w == SwapRemove(v, k)
<1>1. n \in Nat
  OBVIOUS
<1>2. w \in [1 .. n -> S]
  BY DEF SwapRemove
<1>3. w \in Seq(S)
  BY <1>1, <1>2, SeqDef
<1>4. Len(w) = n
  BY <1>1, <1>2, <1>3, LenProperties
<1> QED
  BY <1>3, <1>4 DEF SwapRemove

(* A position that is neither removed nor last keeps its slot. *)
LEMMA SwapRemoveElsewhere ==
  ASSUME NEW S, NEW v \in Seq(S), NEW k \in 0 .. Len(v) - 1,
         NEW i \in 1 .. Len(v) - 1, i # k + 1
  PROVE  SwapRemove(v, k)[i] = v[i] /\ i \in 1 .. Len(v) /\ i # Len(v)
<1>1. SwapRemove(v, k)[i] = v[i]
  BY SwapRemoveVector
<1>2. i \in 1 .. Len(v) /\ i # Len(v)
  OBVIOUS
<1> QED
  BY <1>1, <1>2

(* Nothing but the slot at k leaves the vector. *)
LEMMA SwapRemoveRange ==
  ASSUME NEW S, NEW v \in Seq(S), NEW k \in 0 .. Len(v) - 1
  PROVE  /\ Range(SwapRemove(v, k)) \subseteq Range(v)
         /\ Range(v) \subseteq Range(SwapRemove(v, k)) \cup {v[k + 1]}
<1> DEFINE w == SwapRemove(v, k)
<1>1. /\ w \in Seq(S) /\ Len(w) = Len(v) - 1
      /\ \A i \in 1 .. Len(v) - 1 : w[i] = IF i = k + 1 THEN v[Len(v)] ELSE v[i]
  BY SwapRemoveVector
<1> HIDE DEF w
<1>2. ASSUME NEW x, x \in Range(w) PROVE x \in Range(v)
  <2>1. PICK i \in 1 .. Len(w) : w[i] = x
    BY <1>1, <1>2, RangeOfVector
  <2>2. i \in 1 .. Len(v) /\ Len(v) \in 1 .. Len(v)
    BY <1>1, <2>1
  <2> QED
    BY <1>1, <2>1, <2>2, RangeOfVector
<1>3. ASSUME NEW x, x \in Range(v), x # v[k + 1] PROVE x \in Range(w)
  <2>1. PICK i \in 1 .. Len(v) : v[i] = x
    BY <1>3, RangeOfVector
  <2>2. i # k + 1
    BY <1>3, <2>1
  <2>3. CASE i = Len(v)
    <3>1. k + 1 \in 1 .. Len(w) /\ w[k + 1] = x
      BY <1>1, <2>1, <2>2, <2>3
    <3> QED
      BY <1>1, <3>1, RangeOfVector
  <2>4. CASE i # Len(v)
    <3>1. i \in 1 .. Len(w) /\ w[i] = x
      BY <1>1, <2>1, <2>2, <2>4
    <3> QED
      BY <1>1, <3>1, RangeOfVector
  <2> QED
    BY <2>3, <2>4
<1> QED
  BY <1>2, <1>3 DEF w

(* Appending adds one value. *)
LEMMA AppendRange ==
  ASSUME NEW S, NEW v \in Seq(S), NEW x \in S
  PROVE  /\ Append(v, x) \in Seq(S)
         /\ Len(Append(v, x)) = Len(v) + 1
         /\ \A i \in 1 .. Len(v) : Append(v, x)[i] = v[i]
         /\ Append(v, x)[Len(v) + 1] = x
         /\ Range(Append(v, x)) = Range(v) \cup {x}
<1>1. /\ Append(v, x) \in Seq(S)
      /\ Len(Append(v, x)) = Len(v) + 1
      /\ \A i \in 1 .. Len(v) : Append(v, x)[i] = v[i]
      /\ Append(v, x)[Len(v) + 1] = x
  OBVIOUS
<1> DEFINE w == Append(v, x)
<1> HIDE DEF w
<1>2. ASSUME NEW y, y \in Range(w) PROVE y \in Range(v) \cup {x}
  <2>1. PICK i \in 1 .. Len(w) : w[i] = y
    BY <1>1, <1>2, RangeOfVector DEF w
  <2>2. i \in 1 .. Len(v) \/ i = Len(v) + 1
    BY <1>1 DEF w
  <2> QED
    BY <1>1, <2>1, <2>2, RangeOfVector DEF w
<1>3. ASSUME NEW y, y \in Range(v) PROVE y \in Range(w)
  <2>1. PICK i \in 1 .. Len(v) : v[i] = y
    BY <1>3, RangeOfVector
  <2>2. i \in 1 .. Len(w) /\ w[i] = y
    BY <1>1, <2>1 DEF w
  <2> QED
    BY <1>1, <2>2, RangeOfVector DEF w
<1>4. x \in Range(w)
  <2>1. Len(w) \in 1 .. Len(w) /\ w[Len(w)] = x
    BY <1>1 DEF w
  <2> QED
    BY <1>1, <2>1, RangeOfVector DEF w
<1> QED
  BY <1>1, <1>2, <1>3, <1>4 DEF w

(* An arrangement of reporters' slots is a vector of reporters. *)
LEMMA VectorsType ==
  ASSUME NEW S, S \subseteq Reporters, NEW w \in Vectors(S)
  PROVE  w \in Seq(Reporters)
<1>1. PICK n \in 0 .. Cardinality(S) : w \in [1 .. n -> S]
  BY DEF Vectors
<1>2. n \in Nat /\ w \in [1 .. n -> Reporters]
  BY <1>1
<1> QED
  BY <1>2, SeqDef

-----------------------------------------------------------------------------
(* Type correctness. *)

LEMMA InitType == Init => TypeOK
<1> SUFFICES ASSUME Init PROVE TypeOK
  OBVIOUS
<1>1. slots \in Seq(Reporters)
  BY EmptySeq DEF Init
<1>2. phase \in [Handles -> Phases]
  BY DEF Init, Phases
<1> QED
  BY <1>1, <1>2 DEF Init, TypeOK

LEMMA NextType == TypeOK /\ [Next]_vars => TypeOK'
<1> SUFFICES ASSUME TypeOK, [Next]_vars PROVE TypeOK'
  OBVIOUS
<1> USE GroupAssumption DEF TypeOK, Handles, Phases, Guarded
<1>1. ASSUME NEW h \in Handles, HandleStep(h) PROVE TypeOK'
  <2>1. CASE Lock(h)          BY <2>1 DEF Lock
  <2>2. CASE Acquire(h)       BY <2>2 DEF Acquire, AcquireMutex
  <2>3. CASE ReleaseLock(h)   BY <2>3 DEF ReleaseLock, ReleaseMutex
  <2>4. CASE DropGuard(h)     BY <2>4 DEF DropGuard, ReleaseMutex
  <2>5. CASE DropHandle(h)    BY <2>5 DEF DropHandle
  <2>6. CASE GetState(h)      BY <2>6 DEF GetState
  <2>7. CASE EraseState(h)    BY <2>7 DEF EraseState
  <2>8. ASSUME NEW r \in Reporters, NewReporter(h, r) PROVE TypeOK'
    BY <2>8, AppendRange DEF NewReporter
  <2>9. ASSUME NEW k \in 0 .. Len(slots), RemoveSlot(h, k) PROVE TypeOK'
    <3>1. CASE k < Len(slots)
      <4>1. k \in 0 .. Len(slots) - 1
        BY <3>1
      <4>2. slots' = SwapRemove(slots, k) /\ index' = UpdateIndex(index, slots', k)
        BY <2>9, <3>1 DEF RemoveSlot
      <4>3. slots' \in Seq(Reporters) /\ Len(slots') = Len(slots) - 1
        BY <4>1, <4>2, SwapRemoveVector
      <4>4. index' \in [Reporters -> Nat]
        BY <4>1, <4>2, <4>3 DEF UpdateIndex
      <4>5. slots[k + 1] \in Reporters
        BY <4>1
      <4>6. loose' \subseteq Reporters
        BY <2>9, <3>1, <4>5 DEF RemoveSlot
      <4>7. retired' \subseteq Reporters
        BY <2>9, <3>1, <4>5 DEF RemoveSlot
      <4> QED
        BY <2>9, <3>1, <4>3, <4>4, <4>6, <4>7 DEF RemoveSlot
    <3>2. CASE ~(k < Len(slots))
      BY <2>9, <3>2 DEF RemoveSlot, Panic, ReleaseMutex
    <3> QED
      BY <3>1, <3>2
  <2>10. ASSUME NEW k \in 0 .. Len(slots), RenewIndex(h, k) PROVE TypeOK'
    <3>1. CASE k < Len(slots)
      <4>1. slots[k + 1] \in Reporters
        BY <3>1
      <4>2. k \in Nat /\ index' = [index EXCEPT ![slots[k + 1]] = k]
        BY <2>10, <3>1 DEF RenewIndex
      <4>3. index' \in [Reporters -> Nat]
        BY <4>1, <4>2
      <4> QED
        BY <2>10, <3>1, <4>3 DEF RenewIndex
    <3>2. CASE ~(k < Len(slots))
      BY <2>10, <3>2 DEF RenewIndex, Panic, ReleaseMutex
    <3> QED
      BY <3>1, <3>2
  <2>11. ASSUME NEW s \in loose, PushSlot(h, s) PROVE TypeOK'
    BY <2>11, AppendRange DEF PushSlot
  <2>12. CASE ToIdle(h)       BY <2>12 DEF ToIdle, BusyToIdle
  <2>13. ASSUME NEW v \in parked \cup {<<>>}, ToBusy(h, v) PROVE TypeOK'
    <3>1. slots' = v /\ v \in Seq(Reporters)
      BY <2>13, EmptySeq DEF ToBusy, IdleToBusy
    <3> QED
      BY <2>13, <3>1 DEF ToBusy, IdleToBusy
  <2>14. ASSUME NEW w \in Vectors(loose \cup Range(slots)), Rearrange(h, w) PROVE TypeOK'
    <3>1. Range(slots) \subseteq Reporters /\ w \in Seq(Reporters)
      BY VectorsType, RangeOfVectorType
    <3> QED
      BY <2>14, <3>1 DEF Rearrange
  <2> QED
    BY <1>1, <2>1, <2>2, <2>3, <2>4, <2>5, <2>6, <2>7, <2>8, <2>9, <2>10, <2>11,
       <2>12, <2>13, <2>14 DEF HandleStep
<1>2. ASSUME NEW g \in Visors, NEW h \in Visors, CloneGroup(g, h) PROVE TypeOK'
  BY <1>2 DEF CloneGroup
<1>3. ASSUME NEW r \in Reporters, NEW q \in Reporters, SwapSlot(r, q) PROVE TypeOK'
  BY <1>3 DEF SwapSlot
<1>4. ASSUME NEW r \in Reporters, NEW k \in 0 .. Len(slots), WriteIndex(r, k)
      PROVE  TypeOK'
  BY <1>4 DEF WriteIndex
<1>5. CASE UNCHANGED vars
  BY <1>5 DEF vars
<1>6. ASSUME NEW v \in parked, ParkedStep(v) PROVE TypeOK'
  <2>0. v \in Seq(Reporters) /\ Range(v) \subseteq Reporters
    BY RangeOfVectorType
  <2>1. ASSUME NEW k \in 0 .. Len(v) - 1, ParkedRemove(v, k) PROVE TypeOK'
    <3>1. SwapRemove(v, k) \in Seq(Reporters) /\ Len(SwapRemove(v, k)) = Len(v) - 1
      BY <2>0, SwapRemoveVector
    <3>2. k \in Nat /\ v[k + 1] \in Reporters
      BY <2>0
    <3>3. index' \in [Reporters -> Nat]
      BY <2>1, <3>1, <3>2 DEF ParkedRemove, UpdateIndex
    <3>4. parked' \subseteq Seq(Reporters)
      BY <2>1, <3>1 DEF ParkedRemove
    <3>5. loose' \subseteq Reporters
      BY <2>1, <3>2 DEF ParkedRemove
    <3> QED
      BY <2>1, <3>3, <3>4, <3>5 DEF ParkedRemove, Born
  <2>2. ASSUME NEW k \in 0 .. Len(v) - 1, ParkedRenewIndex(v, k) PROVE TypeOK'
    <3>1. k \in Nat /\ v[k + 1] \in Reporters
      BY <2>0
    <3> QED
      BY <2>2, <3>1 DEF ParkedRenewIndex
  <2>3. ASSUME NEW w \in Vectors(loose \cup Range(v)), ParkedRearrange(v, w) PROVE TypeOK'
    <3>1. w \in Seq(Reporters)
      BY <2>0, VectorsType
    <3>2. parked' \subseteq Seq(Reporters) /\ loose' \subseteq Reporters
      BY <2>0, <2>3, <3>1 DEF ParkedRearrange
    <3> QED
      BY <2>3, <3>2 DEF ParkedRearrange
  <2> QED
    BY <1>6, <2>1, <2>2, <2>3 DEF ParkedStep
<1> QED
  BY <1>1, <1>2, <1>3, <1>4, <1>5, <1>6 DEF Next, AllGone

(* Every reachable state is well typed. *)
THEOREM TypeCorrect == Spec => []TypeOK
BY InitType, NextType, PTL DEF Spec

-----------------------------------------------------------------------------
(* The lock. *)

(* A guard exists only while the mutex is held. *)
LockInv ==
  /\ \A h \in Handles : phase[h] \in Guarded => locked
  /\ MutualExclusion /\ TypestateAgrees

LEMMA InitLock == Init => LockInv
<1> SUFFICES ASSUME Init, NEW h \in Handles PROVE phase[h] \notin Guarded
  BY DEF LockInv, MutualExclusion, TypestateAgrees, Guarded
<1> QED
  BY DEF Init, Guarded

(* An action moves the phase of one handle at most (a new reporter is born *)
(* unlocked); a handle enters Guarded only by taking a free mutex, and the *)
(* mutex is freed only by the guard that leaves Guarded.                   *)
LEMMA NextLock ==
  ASSUME ThreadModel = "ThreadSafe"
  PROVE  TypeOK /\ LockInv /\ [Next]_vars => LockInv'
<1> SUFFICES ASSUME TypeOK, LockInv, [Next]_vars PROVE LockInv'
  OBVIOUS
<1> USE DEF TypeOK, LockInv, MutualExclusion, TypestateAgrees, Guarded
<1>1. Reporters \subseteq Handles /\ Visors \subseteq Handles
  BY DEF Handles
<1>2. ASSUME NEW h \in Handles, HandleStep(h) PROVE LockInv'
  <2>1. CASE Lock(h)          BY <2>1 DEF Lock
  <2>2. CASE Acquire(h)       BY <2>2 DEF Acquire, AcquireMutex
  <2>3. CASE ReleaseLock(h)   BY <2>3 DEF ReleaseLock, ReleaseMutex
  <2>4. CASE DropGuard(h)     BY <2>4 DEF DropGuard, ReleaseMutex
  <2>5. CASE DropHandle(h)    BY <2>5 DEF DropHandle
  <2>6. CASE GetState(h)      BY <2>6 DEF GetState
  <2>7. CASE EraseState(h)    BY <2>7 DEF EraseState
  <2>8. ASSUME NEW r \in Reporters, NewReporter(h, r) PROVE LockInv'
    BY <1>1, <2>8 DEF NewReporter
  <2>9. ASSUME NEW k \in 0 .. Len(slots), RemoveSlot(h, k) PROVE LockInv'
    <3>1. CASE k < Len(slots)
      BY <2>9, <3>1 DEF RemoveSlot
    <3>2. CASE ~(k < Len(slots))
      BY <2>9, <3>2 DEF RemoveSlot, Panic, ReleaseMutex
    <3> QED
      BY <3>1, <3>2
  <2>10. ASSUME NEW k \in 0 .. Len(slots), RenewIndex(h, k) PROVE LockInv'
    <3>1. CASE k < Len(slots)
      BY <2>10, <3>1 DEF RenewIndex
    <3>2. CASE ~(k < Len(slots))
      BY <2>10, <3>2 DEF RenewIndex, Panic, ReleaseMutex
    <3> QED
      BY <3>1, <3>2
  <2>11. ASSUME NEW s \in loose, PushSlot(h, s) PROVE LockInv'
    BY <2>11 DEF PushSlot
  <2>12. CASE ToIdle(h)       BY <2>12 DEF ToIdle, BusyToIdle
  <2>13. ASSUME NEW v \in parked \cup {<<>>}, ToBusy(h, v) PROVE LockInv'
    BY <2>13 DEF ToBusy, IdleToBusy
  <2>14. ASSUME NEW w \in Vectors(loose \cup Range(slots)), Rearrange(h, w) PROVE LockInv'
    BY <2>14 DEF Rearrange
  <2> QED
    BY <1>2, <2>1, <2>2, <2>3, <2>4, <2>5, <2>6, <2>7, <2>8, <2>9, <2>10, <2>11,
       <2>12, <2>13, <2>14 DEF HandleStep
<1>3. ASSUME NEW g \in Visors, NEW h \in Visors, CloneGroup(g, h) PROVE LockInv'
  BY <1>1, <1>3 DEF CloneGroup
<1>4. ASSUME NEW r \in Reporters, NEW q \in Reporters, SwapSlot(r, q) PROVE LockInv'
  BY <1>4 DEF SwapSlot
<1>5. ASSUME NEW r \in Reporters, NEW k \in 0 .. Len(slots), WriteIndex(r, k)
      PROVE  LockInv'
  BY <1>5 DEF WriteIndex
<1>6. CASE UNCHANGED vars
  BY <1>6 DEF vars
<1>7. ASSUME NEW v \in parked, ParkedStep(v) PROVE LockInv'
  BY <1>7 DEF ParkedStep, ParkedRemove, ParkedRenewIndex, ParkedRearrange
<1> QED
  BY <1>2, <1>3, <1>4, <1>5, <1>6, <1>7 DEF Next, AllGone

LEMMA LockInvariant ==
  ASSUME ThreadModel = "ThreadSafe"
  PROVE  Spec => [](TypeOK /\ LockInv)
<1>1. Init => TypeOK /\ LockInv
  BY InitType, InitLock
<1>2. TypeOK /\ LockInv /\ [Next]_vars => (TypeOK /\ LockInv)'
  BY NextType, NextLock
<1> QED
  BY <1>1, <1>2, PTL DEF Spec

(* Guards exclude each other when the thread model's mutex excludes. *)
THEOREM GuardsExclude ==
  ASSUME ThreadModel = "ThreadSafe"
  PROVE  Spec => []MutualExclusion
<1>1. LockInv => MutualExclusion
  BY DEF LockInv
<1> QED
  BY <1>1, LockInvariant, PTL

(* The state a guard carries in its type is the state of the group: the    *)
(* unreachable!() branches are.                                            *)
THEOREM TypestateCorrect ==
  ASSUME ThreadModel = "ThreadSafe"
  PROVE  Spec => []TypestateAgrees
<1>1. LockInv => TypestateAgrees
  BY DEF LockInv
<1> QED
  BY <1>1, LockInvariant, PTL

-----------------------------------------------------------------------------
(* The vectors and the indices. *)

(* Every slot is in one vector at most, and in none before its reporter    *)
(* exists.                                                                 *)
SlotInv ==
  /\ IndexesMatchPositions
  /\ <<>> \notin parked
  /\ \A v \in parked : Range(v) \cap Range(slots) = {}
  /\ \A v, w \in parked : v # w => Range(v) \cap Range(w) = {}
  /\ \A r \in Reporters : phase[r] = "unborn" =>
       r \notin Range(slots) /\ \A v \in parked : r \notin Range(v)

LEMMA InitSlots == Init => SlotInv
BY DEF Init, SlotInv, IndexesMatchPositions, Indexed, Range

(* No one becomes unborn, and no vector or index changes. *)
LEMMA SlotsUntouched ==
  ASSUME SlotInv, UNCHANGED <<slots, parked, index>>,
         \A r \in Reporters : phase'[r] = "unborn" => phase[r] = "unborn"
  PROVE  SlotInv'
BY DEF SlotInv, IndexesMatchPositions, Indexed

(* Positions determine the indices, so that no slot has two positions. *)
LEMMA NoSlotTwice ==
  ASSUME TypeOK, NEW v \in Seq(Reporters), Indexed(v),
         NEW i \in 1 .. Len(v), NEW j \in 1 .. Len(v), v[i] = v[j]
  PROVE  i = j
BY DEF Indexed

(* A vector keeps matching indices that change at foreign slots only. *)
LEMMA IndexedElsewhere ==
  ASSUME NEW v \in Seq(Reporters), Indexed(v),
         \A r \in Range(v) : index'[r] = index[r]
  PROVE  \A i \in 1 .. Len(v) : index'[v[i]] = i - 1
<1> SUFFICES ASSUME NEW i \in 1 .. Len(v) PROVE index'[v[i]] = i - 1
  OBVIOUS
<1>1. v[i] \in Range(v)
  BY RangeOfVector
<1> QED
  BY <1>1 DEF Indexed

LEMMA NewReporterSlots ==
  ASSUME TypeOK, SlotInv, NEW h \in Handles, NEW r \in Reporters, NewReporter(h, r)
  PROVE  SlotInv'
<1> USE DEF TypeOK
<1>1. /\ phase[r] = "unborn" /\ index' = [index EXCEPT ![r] = Len(slots)]
      /\ slots' = Append(slots, r) /\ parked' = parked
      /\ \A q \in Reporters : phase'[q] = "unborn" => phase[q] = "unborn" /\ q # r
  BY DEF NewReporter, Handles
<1>2. r \notin Range(slots) /\ \A v \in parked : r \notin Range(v)
  BY <1>1 DEF SlotInv
<1>3. /\ Len(slots') = Len(slots) + 1 /\ slots'[Len(slots) + 1] = r
      /\ \A i \in 1 .. Len(slots) : slots'[i] = slots[i]
      /\ Range(slots') = Range(slots) \cup {r}
  BY <1>1, AppendRange
<1>4. Indexed(slots)'
  <2>0. \A q \in Range(slots) : index'[q] = index[q]
    BY <1>1, <1>2, RangeOfVectorType
  <2>1. \A i \in 1 .. Len(slots) : index'[slots[i]] = i - 1
    BY <2>0, IndexedElsewhere DEF SlotInv, IndexesMatchPositions
  <2>2. index'[r] = Len(slots)
    BY <1>1
  <2>3. Len(slots) \in Nat
    OBVIOUS
  <2>4. ASSUME NEW i \in 1 .. Len(slots') PROVE index'[slots'[i]] = i - 1
    <3> HIDE DEF TypeOK
    <3>1. i \in 1 .. Len(slots) \/ i = Len(slots) + 1
      BY <1>3, <2>3
    <3> QED
      BY <1>3, <2>1, <2>2, <2>3, <3>1
  <2> HIDE DEF TypeOK
  <2> QED
    BY <2>4 DEF Indexed
<1>5. \A v \in parked : Indexed(v)'
  BY <1>1, <1>2, IndexedElsewhere DEF SlotInv, IndexesMatchPositions, Indexed, Range
<1> QED
  BY <1>1, <1>2, <1>3, <1>4, <1>5 DEF SlotInv, IndexesMatchPositions

(* A removal keeps the remaining slots of its vector matched with their    *)
(* indices and renews no index outside the vector.                         *)
LEMMA RemovalIndexed ==
  ASSUME TypeOK, NEW v \in Seq(Reporters), Indexed(v), NEW k \in 0 .. Len(v) - 1,
         index' = UpdateIndex(index, SwapRemove(v, k), k)
  PROVE  /\ \A i \in 1 .. Len(SwapRemove(v, k)) : index'[SwapRemove(v, k)[i]] = i - 1
         /\ \A q \in Reporters : q \notin Range(v) => index'[q] = index[q]
         /\ index' \in [Reporters -> Nat]
<1> DEFINE w == SwapRemove(v, k)
<1>1. /\ w \in Seq(Reporters) /\ Len(w) = Len(v) - 1
      /\ \A i \in 1 .. Len(v) - 1 : w[i] = IF i = k + 1 THEN v[Len(v)] ELSE v[i]
  BY SwapRemoveVector
<1>2. index \in [Reporters -> Nat]
  BY DEF TypeOK
<1>3. index' = IF k = Len(w) THEN index ELSE [index EXCEPT ![w[k + 1]] = k]
  BY DEF UpdateIndex
<1>4. \A i \in 1 .. Len(v) - 1 : i # k + 1 => w[i] = v[i] /\ i \in 1 .. Len(v) /\ i # Len(v)
  BY SwapRemoveElsewhere
<1> HIDE DEF w
<1>5. CASE k = Len(w)
  <2>1. \A i \in 1 .. Len(w) : i # k + 1
    BY <1>1, <1>5
  <2>2. \A i \in 1 .. Len(w) : w[i] = v[i] /\ i \in 1 .. Len(v)
    BY <1>1, <1>4, <2>1
  <2> QED
    BY <1>2, <1>3, <1>5, <2>2 DEF Indexed, w
<1>6. CASE k # Len(w)
  <2> DEFINE last == v[Len(v)]
  <2>1. /\ k + 1 \in 1 .. Len(w) /\ Len(v) \in 1 .. Len(v)
        /\ w[k + 1] = last /\ last \in Reporters
    BY <1>1, <1>6
  <2>2. index' = [index EXCEPT ![last] = k]
    BY <1>3, <1>6, <2>1
  <2>3. ASSUME NEW i \in 1 .. Len(w) PROVE index'[w[i]] = i - 1
    <3>1. CASE i = k + 1
      BY <1>2, <2>1, <2>2, <3>1
    <3>2. CASE i # k + 1
      <4>1. w[i] = v[i] /\ i \in 1 .. Len(v) /\ i # Len(v)
        BY <1>1, <1>4, <3>2
      <4>2. v[i] # last
        BY <2>1, <4>1, NoSlotTwice
      <4>3. v[i] \in Reporters
        BY <4>1
      <4> QED
        BY <1>2, <2>2, <4>1, <4>2, <4>3 DEF Indexed
    <3> QED
      BY <3>1, <3>2
  <2>4. last \in Range(v)
    BY <2>1, RangeOfVector
  <2>5. index' \in [Reporters -> Nat]
    BY <1>2, <2>2
  <2> QED
    BY <1>2, <2>2, <2>3, <2>4, <2>5 DEF w
<1> QED
  BY <1>5, <1>6

LEMMA RemoveSlotSlots ==
  ASSUME TypeOK, SlotInv, NEW h \in Handles, NEW k \in 0 .. Len(slots) - 1,
         RemoveSlot(h, k)
  PROVE  SlotInv'
<1>1. slots \in Seq(Reporters) /\ parked \subseteq Seq(Reporters) /\ k < Len(slots)
  BY DEF TypeOK
<1>2. /\ slots' = SwapRemove(slots, k) /\ index' = UpdateIndex(index, slots', k)
      /\ parked' = parked /\ phase' = phase
  BY <1>1 DEF RemoveSlot
<1>3. Range(slots') \subseteq Range(slots)
  BY <1>1, <1>2, SwapRemoveRange
<1>4. Indexed(slots) /\ \A v \in parked : Indexed(v) /\ Range(v) \cap Range(slots) = {}
  BY DEF SlotInv, IndexesMatchPositions
<1>5. /\ \A i \in 1 .. Len(slots') : index'[slots'[i]] = i - 1
      /\ \A q \in Reporters : q \notin Range(slots) => index'[q] = index[q]
  BY <1>1, <1>2, <1>4, RemovalIndexed
<1>6. ASSUME NEW v \in parked PROVE \A i \in 1 .. Len(v) : index'[v[i]] = i - 1
  <2>1. \A q \in Range(v) : index'[q] = index[q]
    BY <1>1, <1>4, <1>5, RangeOfVectorType
  <2> QED
    BY <1>1, <1>4, <2>1, IndexedElsewhere
<1> QED
  BY <1>2, <1>3, <1>4, <1>5, <1>6 DEF SlotInv, IndexesMatchPositions, Indexed

(* A removal from a vector set aside. *)
LEMMA ParkedRemoveSlots ==
  ASSUME TypeOK, SlotInv, NEW v \in parked, NEW k \in 0 .. Len(v) - 1, ParkedRemove(v, k)
  PROVE  SlotInv'
<1> DEFINE w == SwapRemove(v, k)
<1>1. slots \in Seq(Reporters) /\ parked \subseteq Seq(Reporters) /\ v \in Seq(Reporters)
  BY DEF TypeOK
<1>2. /\ parked' = (parked \ {v}) \cup ({w} \ {<<>>})
      /\ index' = UpdateIndex(index, w, k)
      /\ slots' = slots /\ phase' = phase
  BY DEF ParkedRemove
<1>3. Range(w) \subseteq Range(v)
  BY <1>1, SwapRemoveRange
<1>4. /\ Indexed(slots) /\ \A u \in parked : Indexed(u) /\ Range(u) \cap Range(slots) = {}
      /\ \A u \in parked \ {v} : Range(u) \cap Range(v) = {}
  BY DEF SlotInv, IndexesMatchPositions
<1>5. /\ \A i \in 1 .. Len(w) : index'[w[i]] = i - 1
      /\ \A q \in Reporters : q \notin Range(v) => index'[q] = index[q]
  BY <1>1, <1>2, <1>4, RemovalIndexed
<1> HIDE DEF w
<1>6. ASSUME NEW u \in Seq(Reporters), Indexed(u), Range(u) \cap Range(v) = {}
      PROVE  \A i \in 1 .. Len(u) : index'[u[i]] = i - 1
  <2>1. \A q \in Range(u) : index'[q] = index[q]
    BY <1>5, <1>6, RangeOfVectorType
  <2> QED
    BY <1>6, <2>1, IndexedElsewhere
<1>7. \A i \in 1 .. Len(slots') : index'[slots'[i]] = i - 1
  BY <1>1, <1>2, <1>4, <1>6
<1>8. \A u \in parked' : \A i \in 1 .. Len(u) : index'[u[i]] = i - 1
  BY <1>1, <1>2, <1>4, <1>5, <1>6
<1>9. \A u \in parked' : u \in parked \ {v} \/ u = w
  BY <1>2
<1>10. IndexesMatchPositions'
  BY <1>7, <1>8 DEF IndexesMatchPositions, Indexed
<1> QED
  BY <1>2, <1>3, <1>4, <1>9, <1>10 DEF SlotInv

LEMMA ToIdleSlots ==
  ASSUME TypeOK, SlotInv, NEW h \in Handles, ToIdle(h)
  PROVE  SlotInv'
<1>1. /\ slots' = <<>> /\ parked' = parked \cup ({slots} \ {<<>>}) /\ index' = index
      /\ \A r \in Reporters : phase'[r] = "unborn" => phase[r] = "unborn"
  BY DEF ToIdle, BusyToIdle, TypeOK
<1>2. Range(slots') = {}
  BY <1>1 DEF Range
<1> QED
  BY <1>1, <1>2 DEF SlotInv, IndexesMatchPositions, Indexed

LEMMA ToBusySlots ==
  ASSUME TypeOK, SlotInv, NEW h \in Handles, NEW v \in parked \cup {<<>>}, ToBusy(h, v)
  PROVE  SlotInv'
<1>1. /\ slots' = v /\ parked' = parked \ {v} /\ index' = index
      /\ \A r \in Reporters : phase'[r] = "unborn" => phase[r] = "unborn"
  BY DEF ToBusy, IdleToBusy, TypeOK
<1>2. CASE v = <<>>
  BY <1>1, <1>2 DEF SlotInv, IndexesMatchPositions, Indexed, Range
<1>3. CASE v \in parked
  BY <1>1, <1>3 DEF SlotInv, IndexesMatchPositions, Indexed
<1> QED
  BY <1>2, <1>3

LEMMA NextSlots ==
  ASSUME "index" \in Obligations
  PROVE  TypeOK /\ SlotInv /\ [Next]_vars => SlotInv'
<1> SUFFICES ASSUME TypeOK, SlotInv, [Next]_vars PROVE SlotInv'
  OBVIOUS
<1> USE DEF TypeOK
<1>1. ASSUME NEW h \in Handles, HandleStep(h) PROVE SlotInv'
  <2>1. CASE Lock(h)          BY <2>1, SlotsUntouched DEF Lock
  <2>2. CASE Acquire(h)       BY <2>2, SlotsUntouched DEF Acquire
  <2>3. CASE ReleaseLock(h)   BY <2>3, SlotsUntouched DEF ReleaseLock
  <2>4. CASE DropGuard(h)     BY <2>4, SlotsUntouched DEF DropGuard
  <2>5. CASE DropHandle(h)    BY <2>5, SlotsUntouched DEF DropHandle
  <2>6. CASE GetState(h)      BY <2>6, SlotsUntouched DEF GetState
  <2>7. CASE EraseState(h)    BY <2>7, SlotsUntouched DEF EraseState
  <2>8. ASSUME NEW r \in Reporters, NewReporter(h, r) PROVE SlotInv'
    BY <2>8, NewReporterSlots
  <2>9. ASSUME NEW k \in 0 .. Len(slots), RemoveSlot(h, k) PROVE SlotInv'
    <3>1. CASE k \in 0 .. Len(slots) - 1
      BY <2>9, <3>1, RemoveSlotSlots
    <3>2. CASE k \notin 0 .. Len(slots) - 1
      <4>1. ~(k < Len(slots))
        BY <3>2
      <4> QED
        <5>1. /\ phase' = [phase EXCEPT ![h] = "dropped"]
              /\ UNCHANGED <<slots, parked, index>>
          BY <2>9, <4>1 DEF RemoveSlot, Panic
        <5> QED
          BY <5>1, SlotsUntouched
    <3> QED
      BY <3>1, <3>2
  <2>10. ASSUME NEW k \in 0 .. Len(slots), RenewIndex(h, k) PROVE FALSE
    BY <2>10 DEF RenewIndex
  <2>11. ASSUME NEW s \in loose, PushSlot(h, s) PROVE FALSE
    BY <2>11 DEF PushSlot
  <2>12. CASE ToIdle(h)       BY <2>12, ToIdleSlots
  <2>13. ASSUME NEW v \in parked \cup {<<>>}, ToBusy(h, v) PROVE SlotInv'
    BY <2>13, ToBusySlots
  <2>14. ASSUME NEW w \in Vectors(loose \cup Range(slots)), Rearrange(h, w) PROVE FALSE
    BY <2>14 DEF Rearrange
  <2> QED
    BY <1>1, <2>1, <2>2, <2>3, <2>4, <2>5, <2>6, <2>7, <2>8, <2>9, <2>10, <2>11,
       <2>12, <2>13, <2>14 DEF HandleStep
<1>2. ASSUME NEW g \in Visors, NEW h \in Visors, CloneGroup(g, h) PROVE SlotInv'
  BY <1>2, SlotsUntouched DEF CloneGroup
<1>3. ASSUME NEW r \in Reporters, NEW q \in Reporters, SwapSlot(r, q) PROVE SlotInv'
  BY <1>3, SlotsUntouched DEF SwapSlot
<1>4. ASSUME NEW r \in Reporters, NEW k \in 0 .. Len(slots), WriteIndex(r, k)
      PROVE  FALSE
  BY <1>4 DEF WriteIndex
<1>5. CASE UNCHANGED vars
  BY <1>5, SlotsUntouched DEF vars
<1>6. ASSUME NEW v \in parked, ParkedStep(v) PROVE SlotInv'
  BY <1>6, ParkedRemoveSlots DEF ParkedStep, ParkedRenewIndex, ParkedRearrange
<1> QED
  BY <1>1, <1>2, <1>3, <1>4, <1>5, <1>6 DEF Next, AllGone

(* As long as callers leave the indices alone, every slot carries the      *)
(* position it has, in the group and in every Busy value set aside.        *)
THEOREM IndexesCorrect ==
  ASSUME "index" \in Obligations
  PROVE  Spec => []IndexesMatchPositions
<1>1. Init => TypeOK /\ SlotInv
  BY InitType, InitSlots
<1>2. TypeOK /\ SlotInv /\ [Next]_vars => (TypeOK /\ SlotInv)'
  BY NextType, NextSlots
<1>3. SlotInv => IndexesMatchPositions
  BY DEF SlotInv
<1> QED
  BY <1>1, <1>2, <1>3, PTL DEF Spec

-----------------------------------------------------------------------------
(* Reporters and their slots. *)

Promised == {"index", "retire", "restart"} \subseteq Obligations

(* Two reporters never refer to one slot, and every live reporter's slot   *)
(* is in the vector of a busy group.                                       *)
PairInv ==
  /\ \A r, q \in Reporters : share[r] = share[q] => r = q
  /\ \A r \in Reporters : phase[r] = "unborn" => share[r] = r /\ r \notin retired
  /\ state = "Busy" => \A r \in Live : share[r] \in Range(slots)

LEMMA InitPairs == Init => PairInv
BY DEF Init, PairInv

(* In a Busy value set aside no live reporter loses its slot. *)
LEMMA ParkedStepCleans ==
  ASSUME Promised, NEW v \in parked, ParkedStep(v)
  PROVE  \E k \in 0 .. Len(v) - 1 :
           /\ ParkedRemove(v, k)
           /\ Live' = Live
           /\ retired' = retired \cup {r \in Born : share[r] = v[k + 1]}
           /\ UNCHANGED <<state, slots, share, phase>>
<1>1. PICK k \in 0 .. Len(v) - 1 : ParkedRemove(v, k)
  BY DEF Promised, ParkedStep, ParkedRenewIndex, ParkedRearrange
<1>2. /\ \A r \in Live : share[r] # v[k + 1]
      /\ retired' = retired \cup {r \in Born : share[r] = v[k + 1]}
      /\ UNCHANGED <<state, slots, share, phase>>
  BY <1>1 DEF Promised, ParkedRemove
<1>3. Live' = Live
  BY <1>2 DEF Live, Born
<1> QED
  BY <1>1, <1>2, <1>3

(* A live reporter of a busy group finds its own slot at its own index. *)
LEMMA OwnSlot ==
  ASSUME TypeOK, SlotInv, PairInv, state = "Busy", NEW r \in Live
  PROVE  /\ index[share[r]] \in 0 .. Len(slots) - 1
         /\ slots[index[share[r]] + 1] = share[r]
<1>1. share[r] \in Range(slots)
  BY DEF PairInv
<1>2. PICK i \in 1 .. Len(slots) : slots[i] = share[r]
  BY <1>1, RangeOfVector DEF TypeOK
<1>3. index[share[r]] = i - 1 /\ Len(slots) \in Nat
  BY <1>2 DEF SlotInv, IndexesMatchPositions, Indexed, TypeOK
<1> QED
  BY <1>2, <1>3

(* No reporter is born, and the live ones keep slot and vector. *)
LEMMA PairsUntouched ==
  ASSUME PairInv, UNCHANGED <<state, slots, share, retired>>,
         \A r \in Reporters : phase'[r] = "unborn" => phase[r] = "unborn",
         Live' \subseteq Live
  PROVE  PairInv'
BY DEF PairInv

LEMMA RemoveOwnSlot ==
  ASSUME Promised, TypeOK, LockInv, SlotInv, PairInv,
         NEW h \in Handles, NEW k \in 0 .. Len(slots), RemoveSlot(h, k)
  PROVE  /\ h \in Live /\ state = "Busy" /\ k \in 0 .. Len(slots) - 1
         /\ slots[k + 1] = share[h]
         /\ slots' = SwapRemove(slots, k) /\ retired' = retired \cup {h}
         /\ Live' = Live \ {h}
         /\ UNCHANGED <<locked, state, parked, share, phase>>
<1>1. h \in Reporters \ retired /\ k = index[share[h]] /\ phase[h] = "busy"
  BY DEF Promised, RemoveSlot
<1>2. h \in Live /\ state = "Busy"
  BY <1>1 DEF Live, Born, LockInv, TypestateAgrees
<1>3. k \in 0 .. Len(slots) - 1 /\ slots[k + 1] = share[h]
  BY <1>1, <1>2, OwnSlot
<1>4. k < Len(slots)
  BY <1>3 DEF TypeOK
<1>5. /\ slots' = SwapRemove(slots, k) /\ retired' = retired \cup {h}
      /\ UNCHANGED <<locked, state, parked, share, phase>>
  BY <1>1, <1>4 DEF RemoveSlot
<1> QED
  BY <1>2, <1>3, <1>5 DEF Live, Born

LEMMA NewReporterPairs ==
  ASSUME TypeOK, PairInv, NEW h \in Handles, NEW r \in Reporters, NewReporter(h, r)
  PROVE  /\ PairInv'
         /\ Live' = Live \cup {r} /\ share[r] = r
         /\ Range(slots') = Range(slots) \cup {r}
<1>1. /\ phase' = [phase EXCEPT ![r] = "unlocked"] /\ phase[r] = "unborn"
      /\ slots' = Append(slots, r) /\ UNCHANGED <<state, share, retired>>
  BY DEF NewReporter
<1>2. share[r] = r /\ r \notin retired
  BY <1>1 DEF PairInv
<1>3. Live' = Live \cup {r}
  BY <1>1, <1>2 DEF Live, Born, TypeOK, Handles
<1>4. Range(slots') = Range(slots) \cup {r}
  BY <1>1, AppendRange DEF TypeOK
<1>5. \A q \in Reporters : phase'[q] = "unborn" => phase[q] = "unborn"
  BY <1>1 DEF TypeOK, Handles
<1> QED
  BY <1>1, <1>2, <1>3, <1>4, <1>5 DEF PairInv

LEMMA RemoveSlotPairs ==
  ASSUME Promised, TypeOK, LockInv, SlotInv, PairInv,
         NEW h \in Handles, NEW k \in 0 .. Len(slots), RemoveSlot(h, k)
  PROVE  PairInv'
<1>1. /\ h \in Live /\ k \in 0 .. Len(slots) - 1 /\ slots[k + 1] = share[h]
      /\ slots' = SwapRemove(slots, k) /\ retired' = retired \cup {h}
      /\ Live' = Live \ {h}
      /\ UNCHANGED <<state, share, phase>>
  BY RemoveOwnSlot
<1>2. Range(slots) \subseteq Range(slots') \cup {share[h]}
  BY <1>1, SwapRemoveRange DEF TypeOK
<1>3. \A r \in Live' : share[r] # share[h]
  BY <1>1 DEF PairInv, Live, Born, Born
<1>4. \A r \in Reporters : phase[r] = "unborn" => r # h
  BY <1>1 DEF Live, Born
<1> QED
  BY <1>1, <1>2, <1>3, <1>4 DEF PairInv

LEMMA SwapSlotPairs ==
  ASSUME Promised, TypeOK, PairInv,
         NEW r \in Reporters, NEW q \in Reporters, SwapSlot(r, q)
  PROVE  PairInv' /\ Live' = Live /\ r \in Live /\ q \in Live /\ r # q
<1>1. /\ phase[r] = "raw" /\ phase[q] = "unlocked" /\ r \notin retired /\ q \notin retired
      /\ share' = [share EXCEPT ![r] = share[q], ![q] = share[r]]
      /\ UNCHANGED <<state, slots, phase, retired>>
  BY DEF SwapSlot, Promised
<1>2. r \in Live /\ q \in Live /\ Live' = Live /\ r # q
  BY <1>1 DEF Live, Born
<1>3. \A p \in Reporters :
        share'[p] = IF p = r THEN share[q] ELSE IF p = q THEN share[r] ELSE share[p]
  BY <1>1, <1>2 DEF TypeOK
<1>4. \A p1, p2 \in Reporters : share'[p1] = share'[p2] => p1 = p2
  BY <1>3 DEF PairInv
<1>5. \A p \in Reporters : phase'[p] = "unborn" => share'[p] = p /\ p \notin retired'
  BY <1>1, <1>3 DEF PairInv
<1>6. ASSUME state' = "Busy", NEW p \in Live' PROVE share'[p] \in Range(slots')
  <2>1. share[r] \in Range(slots) /\ share[q] \in Range(slots) /\ share[p] \in Range(slots)
    BY <1>1, <1>2, <1>6 DEF PairInv
  <2>2. p \in Reporters
    BY <1>2, <1>6 DEF Live, Born
  <2> QED
    BY <1>1, <1>3, <2>1, <2>2
<1> QED
  BY <1>2, <1>4, <1>5, <1>6 DEF PairInv

LEMMA NextPairs ==
  ASSUME ThreadModel = "ThreadSafe", Promised
  PROVE  TypeOK /\ LockInv /\ SlotInv /\ PairInv /\ [Next]_vars => PairInv'
<1> SUFFICES ASSUME TypeOK, LockInv, SlotInv, PairInv, [Next]_vars PROVE PairInv'
  OBVIOUS
<1> USE DEF TypeOK, Live, Born, Born
<1>1. ASSUME NEW h \in Handles, HandleStep(h) PROVE PairInv'
  <2>1. CASE Lock(h)          BY <2>1, PairsUntouched DEF Lock
  <2>2. CASE Acquire(h)       BY <2>2, PairsUntouched DEF Acquire
  <2>3. CASE ReleaseLock(h)   BY <2>3, PairsUntouched DEF ReleaseLock
  <2>4. CASE DropGuard(h)     BY <2>4, PairsUntouched DEF DropGuard
  <2>5. CASE DropHandle(h)    BY <2>5, PairsUntouched DEF DropHandle
  <2>6. CASE GetState(h)      BY <2>6, PairsUntouched DEF GetState
  <2>7. CASE EraseState(h)    BY <2>7, PairsUntouched DEF EraseState
  <2>8. ASSUME NEW r \in Reporters, NewReporter(h, r) PROVE PairInv'
    BY <2>8, NewReporterPairs
  <2>9. ASSUME NEW k \in 0 .. Len(slots), RemoveSlot(h, k) PROVE PairInv'
    BY <2>9, RemoveSlotPairs
  <2>10. ASSUME NEW k \in 0 .. Len(slots), RenewIndex(h, k) PROVE FALSE
    BY <2>10 DEF RenewIndex, Promised
  <2>11. ASSUME NEW s \in loose, PushSlot(h, s) PROVE FALSE
    BY <2>11 DEF PushSlot, Promised
  <2>12. CASE ToIdle(h)       BY <2>12 DEF ToIdle, BusyToIdle, PairInv
  <2>13. ASSUME NEW v \in parked \cup {<<>>}, ToBusy(h, v) PROVE PairInv'
    BY <2>13 DEF ToBusy, IdleToBusy, PairInv, Promised
  <2>14. ASSUME NEW w \in Vectors(loose \cup Range(slots)), Rearrange(h, w) PROVE FALSE
    BY <2>14 DEF Rearrange, Promised
  <2> QED
    BY <1>1, <2>1, <2>2, <2>3, <2>4, <2>5, <2>6, <2>7, <2>8, <2>9, <2>10, <2>11,
       <2>12, <2>13, <2>14 DEF HandleStep
<1>2. ASSUME NEW g \in Visors, NEW h \in Visors, CloneGroup(g, h) PROVE PairInv'
  BY <1>2, PairsUntouched, GroupAssumption DEF CloneGroup, Handles
<1>3. ASSUME NEW r \in Reporters, NEW q \in Reporters, SwapSlot(r, q) PROVE PairInv'
  BY <1>3, SwapSlotPairs
<1>4. ASSUME NEW r \in Reporters, NEW k \in 0 .. Len(slots), WriteIndex(r, k)
      PROVE  FALSE
  BY <1>4 DEF WriteIndex, Promised
<1>5. CASE UNCHANGED vars
  BY <1>5, PairsUntouched DEF vars
<1>6. ASSUME NEW v \in parked, ParkedStep(v) PROVE PairInv'
  <2>1. PICK k \in 0 .. Len(v) - 1 :
          /\ Live' = Live
          /\ retired' = retired \cup {r \in Born : share[r] = v[k + 1]}
          /\ UNCHANGED <<state, slots, share, phase>>
    BY <1>6, ParkedStepCleans
  <2> HIDE DEF Live
  <2> QED
    BY <2>1 DEF PairInv
<1> QED
  BY <1>1, <1>2, <1>3, <1>4, <1>5, <1>6 DEF Next, AllGone

ContractInv == LockInv /\ SlotInv /\ PairInv

LEMMA ContractInvariant ==
  ASSUME ThreadModel = "ThreadSafe", Promised
  PROVE  Spec => [](TypeOK /\ ContractInv)
<1>1. Init => TypeOK /\ ContractInv
  BY InitType, InitLock, InitSlots, InitPairs DEF ContractInv
<1>2. TypeOK /\ ContractInv /\ [Next]_vars => (TypeOK /\ ContractInv)'
  BY NextType, NextLock, NextSlots, NextPairs DEF ContractInv, Promised
<1> QED
  BY <1>1, <1>2, PTL DEF Spec

(* A reporter that still owes its slot reaches that very slot by my_index, *)
(* whatever the other reporters removed before it.                         *)
THEOREM MyIndexCorrect ==
  ASSUME ThreadModel = "ThreadSafe", Promised
  PROVE  Spec => []MyIndexIsMine
<1>1. TypeOK /\ ContractInv => MyIndexIsMine
  <2> SUFFICES ASSUME TypeOK, ContractInv, NEW r \in Live, phase[r] = "busy"
               PROVE  /\ index[share[r]] < Len(slots)
                      /\ slots[index[share[r]] + 1] = share[r]
    BY DEF MyIndexIsMine
  <2>1. state = "Busy"
    BY DEF ContractInv, LockInv, TypestateAgrees, Live, Born, Handles
  <2>2. /\ index[share[r]] \in 0 .. Len(slots) - 1
        /\ slots[index[share[r]] + 1] = share[r]
    BY <2>1, OwnSlot DEF ContractInv
  <2> QED
    BY <2>2 DEF TypeOK
<1> QED
  BY <1>1, ContractInvariant, PTL

(* from_raw's safety promise: group and slot of a guard are a pair. *)
THEOREM GuardsPaired ==
  ASSUME ThreadModel = "ThreadSafe", Promised
  PROVE  Spec => []GuardPaired
<1>1. ContractInv => GuardPaired
  BY DEF ContractInv, PairInv, GuardPaired
<1> QED
  BY <1>1, ContractInvariant, PTL

-----------------------------------------------------------------------------
(* The group implements the registry of slots. *)

(* The slot removed is in the vector no more. *)
LEMMA SwapRemoveGone ==
  ASSUME TypeOK, NEW v \in Seq(Reporters), Indexed(v), NEW k \in 0 .. Len(v) - 1
  PROVE  v[k + 1] \notin Range(SwapRemove(v, k))
<1> DEFINE w == SwapRemove(v, k)
<1>1. /\ w \in Seq(Reporters) /\ Len(w) = Len(v) - 1 /\ Len(v) \in Nat
      /\ \A i \in 1 .. Len(v) - 1 :
           w[i] = IF i = k + 1 THEN v[Len(v)] ELSE v[i]
  BY SwapRemoveVector
<1> HIDE DEF w
<1>2. SUFFICES ASSUME NEW i \in 1 .. Len(w), w[i] = v[k + 1] PROVE FALSE
  BY <1>1, RangeOfVector DEF w
<1>3. k + 1 \in 1 .. Len(v)
  BY <1>1
<1>4. CASE i = k + 1
  <2>1. Len(v) \in 1 .. Len(v) /\ v[Len(v)] = v[k + 1]
    BY <1>1, <1>2, <1>4
  <2>2. Len(v) = k + 1
    BY <1>3, <2>1, NoSlotTwice
  <2> QED
    BY <1>1, <1>4, <2>2
<1>5. CASE i # k + 1
  <2>1. i \in 1 .. Len(v) /\ v[i] = v[k + 1]
    BY <1>1, <1>2, <1>5
  <2> QED
    BY <1>3, <1>5, <2>1, NoSlotTwice
<1> QED
  BY <1>4, <1>5

(* Vectors that share no slot have different slots. *)
LEMMA ParkedApart ==
  ASSUME TypeOK, SlotInv, NEW v \in parked, NEW w \in parked, v # w
  PROVE  Range(v) # Range(w) /\ Range(w) # {}
<1>1. w \in Seq(Reporters) /\ w # <<>> /\ Range(v) \cap Range(w) = {}
  BY DEF TypeOK, SlotInv
<1>2. Range(w) # {}
  BY <1>1, RangeEmpty
<1> QED
  BY <1>1, <1>2

LEMMA InitRegistry == Init => Registry!Init
BY GroupAssumption DEF Init, Registry!Init, Born, Range, Handles

LEMMA RegistryStutter ==
  ASSUME UNCHANGED <<state, slots, parked, share, retired, Born>>
  PROVE  UNCHANGED Registry!vars
BY DEF Registry!vars

LEMMA NewReporterRegisters ==
  ASSUME TypeOK, LockInv, PairInv,
         NEW h \in Handles, NEW r \in Reporters, NewReporter(h, r)
  PROVE  Registry!Register(r)
<1>1. state = "Busy" /\ r \notin Born
  BY DEF NewReporter, LockInv, TypestateAgrees, Born
<1>2. Born' = Born \cup {r}
  BY DEF NewReporter, Born, TypeOK, Handles
<1>3. share[r] = r /\ Range(slots') = Range(slots) \cup {r}
  BY NewReporterPairs
<1> QED
  BY <1>1, <1>2, <1>3 DEF NewReporter, Registry!Register

LEMMA RemoveSlotHandsIn ==
  ASSUME Promised, TypeOK, LockInv, SlotInv, PairInv,
         NEW h \in Handles, NEW k \in 0 .. Len(slots), RemoveSlot(h, k)
  PROVE  h \in Reporters /\ Registry!HandIn(h)
<1>1. /\ h \in Live /\ state = "Busy" /\ k \in 0 .. Len(slots) - 1
      /\ slots[k + 1] = share[h]
      /\ slots' = SwapRemove(slots, k) /\ retired' = retired \cup {h}
      /\ UNCHANGED <<locked, state, parked, share, phase>>
  BY RemoveOwnSlot
<1>2. Range(slots') = Range(slots) \ {share[h]}
  BY <1>1, SwapRemoveRange, SwapRemoveGone DEF TypeOK, SlotInv, IndexesMatchPositions
<1>3. share[h] \in Range(slots) /\ h \in Born \ retired /\ h \in Reporters
  BY <1>1 DEF PairInv, Live, Born
<1>4. Born' = Born
  BY <1>1 DEF Born
<1> QED
  BY <1>1, <1>2, <1>3, <1>4 DEF Registry!HandIn

LEMMA SwapSlotTrades ==
  ASSUME Promised, TypeOK, PairInv,
         NEW r \in Reporters, NEW q \in Reporters, SwapSlot(r, q)
  PROVE  Registry!Trade(r, q)
<1>1. r \in Live /\ q \in Live
  BY SwapSlotPairs
<1>2. Born' = Born
  BY DEF SwapSlot, Born
<1> QED
  BY <1>1, <1>2 DEF SwapSlot, Live, Born, Registry!Trade

LEMMA ParkedRemoveDiscards ==
  ASSUME TypeOK, SlotInv, NEW v \in parked, NEW k \in 0 .. Len(v) - 1, ParkedRemove(v, k)
  PROVE  v[k + 1] \in Range(v) /\ Registry!Discard(v[k + 1], Range(v))
<1> DEFINE w == SwapRemove(v, k)
<1>1. v \in Seq(Reporters) /\ Indexed(v)
  BY DEF TypeOK, SlotInv, IndexesMatchPositions
<1>2. /\ parked' = (parked \ {v}) \cup ({w} \ {<<>>})
      /\ retired' = retired \cup {r \in Born : share[r] = v[k + 1]}
      /\ UNCHANGED <<state, slots, share, phase>>
  BY DEF ParkedRemove
<1>3. w \in Seq(Reporters) /\ Range(w) = Range(v) \ {v[k + 1]}
  BY <1>1, SwapRemoveVector, SwapRemoveRange, SwapRemoveGone
<1>4. w = <<>> <=> Range(w) = {}
  BY <1>3, RangeEmpty
<1>5. v[k + 1] \in Range(v)
  <2>1. k + 1 \in 1 .. Len(v)
    BY <1>1
  <2> QED
    BY <1>1, <2>1, RangeOfVector
<1> HIDE DEF w
<1>6. {Range(u) : u \in parked \ {v}} = {Range(u) : u \in parked} \ {Range(v)}
  BY ParkedApart
<1>7. {Range(u) : u \in {w} \ {<<>>}} = {Range(w)} \ {{}}
  BY <1>4
<1>8. {Range(u) : u \in parked'} =
        ({Range(u) : u \in parked} \ {Range(v)}) \cup ({Range(w)} \ {{}})
  BY <1>2, <1>6, <1>7
<1>9. Born' = Born
  BY <1>2 DEF Born
<1> QED
  BY <1>2, <1>3, <1>5, <1>8, <1>9 DEF Registry!Discard

LEMMA ToIdleCloses ==
  ASSUME TypeOK, LockInv, NEW h \in Handles, ToIdle(h)
  PROVE  Registry!Close
<1>1. state = "Busy" /\ Born' = Born
  BY DEF ToIdle, BusyToIdle, LockInv, TypestateAgrees, Born, TypeOK
<1>2. slots' = <<>> /\ Range(slots') = {}
  BY DEF ToIdle, BusyToIdle, Range
<1>3. slots = <<>> <=> Range(slots) = {}
  BY RangeEmpty DEF TypeOK
<1>4. {Range(v) : v \in parked'} =
        {Range(v) : v \in parked} \cup ({Range(slots)} \ {{}})
  BY <1>3 DEF ToIdle, BusyToIdle
<1> QED
  BY <1>1, <1>2, <1>4 DEF ToIdle, BusyToIdle, Registry!Close

LEMMA ToBusyOpens ==
  ASSUME TypeOK, LockInv, SlotInv,
         NEW h \in Handles, NEW v \in parked \cup {<<>>}, ToBusy(h, v)
  PROVE  Range(v) \subseteq Reporters /\ Registry!Open(Range(v))
<1>1. state = "Idle" /\ Born' = Born
  BY DEF ToBusy, IdleToBusy, LockInv, TypestateAgrees, Born, TypeOK
<1>2. v \in Seq(Reporters) /\ \A w \in parked : w \in Seq(Reporters) /\ w # <<>>
  BY EmptySeq DEF TypeOK, SlotInv
<1>3. Range(v) \subseteq Reporters
  BY <1>2, RangeOfVectorType
<1>4. ASSUME NEW w \in parked PROVE Range(w) # {}
  BY <1>2, RangeEmpty
<1>5. \A w \in parked \ {v} : Range(w) # Range(v)
  <2>1. CASE v = <<>>
    BY <1>4, <2>1 DEF Range
  <2>2. CASE v \in parked
    BY <1>4, <2>2 DEF SlotInv
  <2> QED
    BY <2>1, <2>2
<1>6. {Range(w) : w \in parked \ {v}} = {Range(w) : w \in parked} \ {Range(v)}
  BY <1>5
<1>7. Range(v) = {} \/ Range(v) \in {Range(w) : w \in parked}
  BY DEF Range
<1> QED
  BY <1>1, <1>3, <1>6, <1>7 DEF ToBusy, IdleToBusy, Registry!Open

LEMMA NextRegistry ==
  ASSUME ThreadModel = "ThreadSafe", Promised
  PROVE  TypeOK /\ ContractInv /\ [Next]_vars => [Registry!Next]_(Registry!vars)
<1> SUFFICES ASSUME TypeOK, LockInv, SlotInv, PairInv, [Next]_vars
             PROVE  Registry!Next \/ UNCHANGED Registry!vars
  BY DEF ContractInv
<1> DEFINE Goal == Registry!Next \/ UNCHANGED Registry!vars
<1>1. ASSUME NEW h \in Handles, HandleStep(h) PROVE Goal
  <2> USE DEF TypeOK, Born
  <2>1. CASE Lock(h)          BY <2>1, RegistryStutter DEF Lock
  <2>2. CASE Acquire(h)       BY <2>2, RegistryStutter DEF Acquire
  <2>3. CASE ReleaseLock(h)   BY <2>3, RegistryStutter DEF ReleaseLock
  <2>4. CASE DropGuard(h)     BY <2>4, RegistryStutter DEF DropGuard, Guarded
  <2>5. CASE DropHandle(h)    BY <2>5, RegistryStutter DEF DropHandle
  <2>6. CASE GetState(h)      BY <2>6, RegistryStutter DEF GetState
  <2>7. CASE EraseState(h)    BY <2>7, RegistryStutter DEF EraseState
  <2>8. ASSUME NEW r \in Reporters, NewReporter(h, r) PROVE Goal
    BY <2>8, NewReporterRegisters DEF Registry!Next
  <2>9. ASSUME NEW k \in 0 .. Len(slots), RemoveSlot(h, k) PROVE Goal
    BY <2>9, RemoveSlotHandsIn DEF Registry!Next
  <2>10. ASSUME NEW k \in 0 .. Len(slots), RenewIndex(h, k) PROVE FALSE
    BY <2>10 DEF RenewIndex, Promised
  <2>11. ASSUME NEW s \in loose, PushSlot(h, s) PROVE FALSE
    BY <2>11 DEF PushSlot, Promised
  <2>12. CASE ToIdle(h)
    BY <2>12, ToIdleCloses DEF Registry!Next
  <2>13. ASSUME NEW v \in parked \cup {<<>>}, ToBusy(h, v) PROVE Goal
    BY <2>13, ToBusyOpens DEF Registry!Next
  <2>14. ASSUME NEW w \in Vectors(loose \cup Range(slots)), Rearrange(h, w) PROVE FALSE
    BY <2>14 DEF Rearrange, Promised
  <2> QED
    BY <1>1, <2>1, <2>2, <2>3, <2>4, <2>5, <2>6, <2>7, <2>8, <2>9, <2>10, <2>11,
       <2>12, <2>13, <2>14 DEF HandleStep
<1>2. ASSUME NEW g \in Visors, NEW h \in Visors, CloneGroup(g, h) PROVE Goal
  BY <1>2, RegistryStutter, GroupAssumption DEF CloneGroup, Handles, Born, TypeOK
<1>3. ASSUME NEW r \in Reporters, NEW q \in Reporters, SwapSlot(r, q) PROVE Goal
  BY <1>3, SwapSlotTrades DEF Registry!Next
<1>4. ASSUME NEW r \in Reporters, NEW k \in 0 .. Len(slots), WriteIndex(r, k)
      PROVE  FALSE
  BY <1>4 DEF WriteIndex, Promised
<1>5. CASE UNCHANGED vars
  BY <1>5, RegistryStutter DEF vars, Born
<1>6. ASSUME NEW v \in parked, ParkedStep(v) PROVE Goal
  <2>1. PICK k \in 0 .. Len(v) - 1 : ParkedRemove(v, k)
    BY <1>6, ParkedStepCleans
  <2>2. Registry!Discard(v[k + 1], Range(v)) /\ v[k + 1] \in Range(v)
    BY <2>1, ParkedRemoveDiscards
  <2> QED
    BY <2>2 DEF Registry!Next
<1> QED
  BY <1>1, <1>2, <1>3, <1>4, <1>5, <1>6 DEF Next, AllGone

(* The slot vector, its back-indices and the lock implement a registry in  *)
(* which every task owns one slot and hands in its own.                    *)
THEOREM GroupImplementsRegistry ==
  ASSUME ThreadModel = "ThreadSafe", Promised
  PROVE  Spec => RegistrySpec
<1>1. Init => Registry!Init
  BY InitRegistry
<1>2. TypeOK /\ ContractInv /\ [Next]_vars => [Registry!Next]_(Registry!vars)
  BY NextRegistry
<1> QED
  BY <1>1, <1>2, ContractInvariant, PTL DEF Spec, RegistrySpec, Registry!Spec

(* What holds of every registry holds of the group: no slot is lost or in  *)
(* two vectors, over any number of sessions that are set aside.            *)
Facts == INSTANCE SlotRegistryProofs WITH
  mode    <- state,
  born    <- Born,
  members <- Range(slots),
  kept    <- {Range(v) : v \in parked},
  owner   <- share,
  done    <- retired

THEOREM SlotsPartitioned ==
  ASSUME ThreadModel = "ThreadSafe", Promised
  PROVE  Spec => []SlotsAccounted
<1>1. Facts!Spec => []Facts!EachSlotOnce
  BY Facts!RegistryPartition
<1>2. Facts!Spec <=> RegistrySpec
  BY PTL DEF Facts!Spec, RegistrySpec, Registry!Spec, Facts!Init, Registry!Init, Facts!Next, Registry!Next,
     Facts!vars, Registry!vars, Facts!Register, Registry!Register, Facts!HandIn, Registry!HandIn,
     Facts!Trade, Registry!Trade, Facts!Discard, Registry!Discard, Facts!Close, Registry!Close, Facts!Open, Registry!Open
<1>3. Facts!EachSlotOnce <=> SlotsAccounted
  BY DEF Facts!EachSlotOnce, SlotsAccounted, Registry!EachSlotOnce
<1> QED
  BY <1>1, <1>2, <1>3, GroupImplementsRegistry, PTL

(* A busy group holds the slots of the live reporters and, besides, only   *)
(* those of tasks that went away without handing in.                       *)
THEOREM SlotsCorrect ==
  ASSUME ThreadModel = "ThreadSafe", Promised
  PROVE  Spec => []SlotsAreLive
<1>1. TypeOK /\ ContractInv /\ SlotsAccounted => SlotsAreLive
  <2> SUFFICES ASSUME TypeOK, PairInv, SlotsAccounted, state = "Busy"
               PROVE  Range(slots) \ {share[r] : r \in Gone} = {share[r] : r \in Live}
    BY DEF ContractInv, SlotsAreLive
  <2>1. Range(slots) \subseteq {share[r] : r \in Born \ retired}
    BY DEF SlotsAccounted, Registry!EachSlotOnce
  <2>2. Born \ retired = Live \cup Gone /\ Live \cap Gone = {} /\ Born \subseteq Reporters
    BY DEF Live, Gone, Born
  <2>3. \A r \in Live : share[r] \in Range(slots)
    BY DEF PairInv
  <2>4. \A r \in Live, q \in Gone : share[r] # share[q]
    BY <2>2 DEF PairInv
  <2> QED
    BY <2>1, <2>2, <2>3, <2>4
<1> QED
  BY <1>1, ContractInvariant, SlotsPartitioned, PTL
=============================================================================
