---------------------------- MODULE DownloadGroup ----------------------------
(***************************************************************************)
(* download_group.rs with the thread models of family.rs: one GroupShared  *)
(* (a mutex and, under it, the state Busy{slots} | Idle), the DownloadGroup*)
(* handles and Reporters that refer to it, and the guards they turn into.  *)
(*                                                                         *)
(* A handle is consumed by lock() and comes back by release_lock(), so its *)
(* whole life is one phase.  A guard that went through get_state() carries *)
(* the state it saw in its type (BusyGroup, ReporterIdle, ...): phases     *)
(* "busy" and "idle".  The operations of a typed guard look at the phase   *)
(* only, as the code does: that the phase agrees with the state is a       *)
(* property (TypestateAgrees), not a guard.                                *)
(*                                                                         *)
(* The callers (the visor and the download tasks) are not written yet in   *)
(* the repository (CanResume::run is todo!()): any of them may call any    *)
(* method at any time.  A value a caller received and dropped is a value   *)
(* it never passes back, so that dropping one is no step of its own.       *)
(* Obligations names what a run asks of the callers:                       *)
(*   "index"    indices are left to new_reporter and to                    *)
(*              swap_remove_and_update_index: no push_slot, update_index,  *)
(*              write through my_index_mut or mutable access to the vector *)
(*   "retire"   a slot is removed only by the reporter that refers to it,  *)
(*              once, by its own my_index, and such reporters are not      *)
(*              swapped afterwards; in a Busy value set aside, slots of    *)
(*              reporters that are gone may be removed by who holds it     *)
(*   "restart"  swap_state/to_busy install "valid data": a vector that     *)
(*              holds the slots of exactly the live reporters              *)
(***************************************************************************)
EXTENDS FiniteSets, Functions, Sequences

CONSTANTS
  Visors,       \* DownloadGroup handles: the first one and its clones
  FirstVisor,   \* the handle DownloadGroup::new returns
  Reporters,    \* reporters (and the SlotShare each is created with)
  ThreadModel,  \* the F of the code: "ThreadSafe" or "ThreadLocal"
  Obligations   \* what the callers promise, see above

ASSUME GroupAssumption ==
  /\ FirstVisor \in Visors
  /\ Visors \cap Reporters = {}
  /\ ThreadModel \in {"ThreadSafe", "ThreadLocal"}
  /\ Obligations \subseteq {"index", "retire", "restart"}

VARIABLES
  locked,   \* GroupShared.mutex
  state,    \* InLockShared.state: "Busy" or "Idle"
  slots,    \* Busy.slots, a vector of SlotShares (empty while Idle)
  parked,   \* the non-empty slot vectors of Busy values callers received
  loose,    \* the slots removed from a vector, which callers received
  index,    \* SlotShare.index
  share,    \* Reporter.slot_share
  phase,    \* what each handle currently is
  retired   \* reporters that removed a slot, or whose slot was cleaned up

vars == <<locked, state, slots, parked, loose, index, share, phase, retired>>

Handles == Visors \cup Reporters
Guarded == {"raw", "busy", "idle"}
Phases  == {"unborn", "unlocked", "waiting", "dropped"} \cup Guarded

Born == {r \in Reporters : phase[r] # "unborn"}

(* Reporters that still refer to a slot they are responsible for, and      *)
(* those that went away without having removed it: neither Reporter nor    *)
(* Slot has a Drop of its own, so that the slot stays in its vector.       *)
Live == {r \in Born : phase[r] # "dropped"} \ retired
Gone == {r \in Born : phase[r] = "dropped"} \ retired

(* DownloadGroup::new starts Idle. *)
Init ==
  /\ locked = FALSE
  /\ state = "Idle" /\ slots = <<>> /\ parked = {} /\ loose = {}
  /\ index = [r \in Reporters |-> 0]
  /\ share = [r \in Reporters |-> r]
  /\ phase = [h \in Handles |-> IF h = FirstVisor THEN "unlocked" ELSE "unborn"]
  /\ retired = {}

-----------------------------------------------------------------------------
(* Lockable: RawMutex (parking_lot, for ThreadSafe) and BorrowChecker (for *)
(* ThreadLocal).  BorrowChecker's acquire and release bind p to a          *)
(* temporary copy of `borrowed`: the cell keeps its initial FALSE, so its  *)
(* panic branch is never taken and nothing is ever refused.                *)

(* Mutant: acquire() takes a lock that is held. *)
AcquireMutexHeld == locked' = (ThreadModel = "ThreadSafe")

AcquireMutex ==
  /\ ~locked
  /\ locked' = (ThreadModel = "ThreadSafe")

(* Mutant: release() forgotten. *)
ReleaseMutexForgotten == UNCHANGED locked

ReleaseMutex == locked' = FALSE

-----------------------------------------------------------------------------
(* Handles and guards. *)

CloneGroup(g, h) ==
  /\ phase[g] = "unlocked" /\ phase[h] = "unborn"
  /\ phase' = [phase EXCEPT ![h] = "unlocked"]
  /\ UNCHANGED <<locked, state, slots, parked, loose, index, share, retired>>

(* DownloadGroup::lock and Reporter::lock: the caller blocks in acquire(). *)
Lock(h) ==
  /\ phase[h] = "unlocked"
  /\ phase' = [phase EXCEPT ![h] = "waiting"]
  /\ UNCHANGED <<locked, state, slots, parked, loose, index, share, retired>>

Acquire(h) ==
  /\ phase[h] = "waiting"
  /\ AcquireMutex
  /\ phase' = [phase EXCEPT ![h] = "raw"]
  /\ UNCHANGED <<state, slots, parked, loose, index, share, retired>>

(* release_lock forgets the guard, so that its Drop does not run too. *)
ReleaseLock(h) ==
  /\ phase[h] = "raw"
  /\ ReleaseMutex
  /\ phase' = [phase EXCEPT ![h] = "unlocked"]
  /\ UNCHANGED <<state, slots, parked, loose, index, share, retired>>

DropGuard(h) ==
  /\ phase[h] \in Guarded
  /\ ReleaseMutex
  /\ phase' = [phase EXCEPT ![h] = "dropped"]
  /\ UNCHANGED <<state, slots, parked, loose, index, share, retired>>

DropHandle(h) ==
  /\ phase[h] = "unlocked"
  /\ phase' = [phase EXCEPT ![h] = "dropped"]
  /\ UNCHANGED <<locked, state, slots, parked, loose, index, share, retired>>

(* get_state, and the borrowing forms as_state, as_state_mut and           *)
(* fetech_state_mut followed by EraseState.                                *)
GetState(h) ==
  /\ phase[h] = "raw"
  /\ phase' = [phase EXCEPT ![h] = IF state = "Busy" THEN "busy" ELSE "idle"]
  /\ UNCHANGED <<locked, state, slots, parked, loose, index, share, retired>>

(* erase_state of BusyGroup, into_raw of the other typed guards. *)
EraseState(h) ==
  /\ phase[h] \in {"busy", "idle"}
  /\ phase' = [phase EXCEPT ![h] = "raw"]
  /\ UNCHANGED <<locked, state, slots, parked, loose, index, share, retired>>

(* Mutant: the guard takes a copy of the other reporter's share. *)
SwapSlotCopies(r, q) ==
  /\ phase[r] = "raw" /\ phase[q] = "unlocked"
  /\ "retire" \in Obligations => r \notin retired /\ q \notin retired
  /\ share' = [share EXCEPT ![r] = share[q]]
  /\ UNCHANGED <<locked, state, slots, parked, loose, index, phase, retired>>

(* ReporterGuard::swap_slot: a guard and an unlocked reporter of the group *)
(* exchange their slots.                                                   *)
SwapSlot(r, q) ==
  /\ phase[r] = "raw" /\ phase[q] = "unlocked"
  /\ "retire" \in Obligations => r \notin retired /\ q \notin retired
  /\ share' = [share EXCEPT ![r] = share[q], ![q] = share[r]]
  /\ UNCHANGED <<locked, state, slots, parked, loose, index, phase, retired>>

-----------------------------------------------------------------------------
(* The slot vector. *)

(* Mutants: Vec::remove(k), which shifts the tail; Vec::pop. *)
SwapRemoveShifts(v, k) ==
  [i \in 1 .. Len(v) - 1 |-> IF i <= k THEN v[i] ELSE v[i + 1]]
SwapRemovePops(v, k) == [i \in 1 .. Len(v) - 1 |-> v[i]]

(* Vec::swap_remove(k), k counted from 0: the last slot takes place k. *)
SwapRemove(v, k) ==
  [i \in 1 .. Len(v) - 1 |-> IF i = k + 1 THEN v[Len(v)] ELSE v[i]]

(* Mutants: the moved slot keeps its index; it gets the one before it. *)
UpdateIndexSkipped(idx, v, k) == idx
UpdateIndexOffByOne(idx, v, k) ==
  IF k = Len(v) THEN idx ELSE [idx EXCEPT ![v[k + 1]] = k - 1]

(* SlotVec::update_index after a removal at k: v is the shorter vector. *)
UpdateIndex(idx, v, k) ==
  IF k = Len(v) THEN idx ELSE [idx EXCEPT ![v[k + 1]] = k]

(* new_reporter, by a BusyGroup or a ReporterBusy. *)
NewReporter(h, r) ==
  /\ phase[h] = "busy" /\ phase[r] = "unborn"
  /\ index' = [index EXCEPT ![r] = Len(slots)]
  /\ slots' = Append(slots, r)
  /\ phase' = [phase EXCEPT ![r] = "unlocked"]
  /\ UNCHANGED <<locked, state, parked, loose, share, retired>>

(* A Vec panics on an index beyond its end; unwinding drops the guard. *)
Panic(h) ==
  /\ ReleaseMutex
  /\ phase' = [phase EXCEPT ![h] = "dropped"]
  /\ UNCHANGED <<slots, loose, index, retired>>

(* slots_mut().swap_remove_and_update_index(k). *)
RemoveSlot(h, k) ==
  /\ phase[h] = "busy"
  /\ "retire" \in Obligations => h \in Reporters \ retired /\ k = index[share[h]]
  /\ IF k < Len(slots)
     THEN /\ slots' = SwapRemove(slots, k)
          /\ index' = UpdateIndex(index, slots', k)
          /\ loose' = loose \cup {slots[k + 1]}
          /\ retired' = retired \cup ({h} \cap Reporters)
          /\ UNCHANGED <<locked, phase>>
     ELSE Panic(h)
  /\ UNCHANGED <<state, parked, share>>

(* Busy::slots_mut() on a value a caller holds: the same removal there,    *)
(* without the lock, although live reporters share the index it renews.    *)
ParkedRemove(v, k) ==
  /\ "retire" \in Obligations => \A r \in Live : share[r] # v[k + 1]
  /\ parked' = (parked \ {v}) \cup ({SwapRemove(v, k)} \ {<<>>})
  /\ index' = UpdateIndex(index, SwapRemove(v, k), k)
  /\ loose' = loose \cup {v[k + 1]}
  /\ retired' = retired \cup {r \in Born : share[r] = v[k + 1]}
  /\ UNCHANGED <<locked, state, slots, share, phase>>

(* slots_mut().push_slot(s): the slot keeps the index it came with. *)
PushSlot(h, s) ==
  /\ phase[h] = "busy" /\ s \in loose /\ "index" \notin Obligations
  /\ slots' = Append(slots, s)
  /\ loose' = loose \ {s}
  /\ UNCHANGED <<locked, state, parked, index, share, phase, retired>>

(* slots_mut().update_index(k). *)
RenewIndex(h, k) ==
  /\ phase[h] = "busy" /\ "index" \notin Obligations
  /\ IF k < Len(slots)
     THEN /\ index' = [index EXCEPT ![slots[k + 1]] = k]
          /\ UNCHANGED <<locked, slots, loose, phase, retired>>
     ELSE Panic(h)
  /\ UNCHANGED <<state, parked, share>>

(* What AsMut<Vec> and IndexMut let a caller do to a vector: put any of its *)
(* slots and of the slots in the caller's hands into any order.  A slot is *)
(* owned, so that it never occurs twice.                                   *)
Vectors(S) == UNION {{w \in [1 .. n -> S] : IsInjective(w)} : n \in 0 .. Cardinality(S)}

Rearrange(h, w) ==
  /\ phase[h] = "busy" /\ "index" \notin Obligations
  /\ slots' = w
  /\ loose' = (loose \cup Range(slots)) \ Range(w)
  /\ UNCHANGED <<locked, state, parked, index, share, phase, retired>>

(* The same, and update_index(k), in a Busy value a caller holds. *)
ParkedRearrange(v, w) ==
  /\ "index" \notin Obligations
  /\ parked' = (parked \ {v}) \cup ({w} \ {<<>>})
  /\ loose' = (loose \cup Range(v)) \ Range(w)
  /\ UNCHANGED <<locked, state, slots, index, share, phase, retired>>

ParkedRenewIndex(v, k) ==
  /\ "index" \notin Obligations
  /\ index' = [index EXCEPT ![v[k + 1]] = k]
  /\ UNCHANGED <<locked, state, slots, parked, loose, share, phase, retired>>

(* *my_index_mut() = k. *)
WriteIndex(r, k) ==
  /\ phase[r] = "raw" /\ "index" \notin Obligations
  /\ index' = [index EXCEPT ![share[r]] = k]
  /\ UNCHANGED <<locked, state, slots, parked, loose, share, phase, retired>>

-----------------------------------------------------------------------------
(* Busy and Idle. *)

(* Mutants: the swap forgotten; the slots left behind in the group. *)
ToIdleUnswapped(h) ==
  /\ phase[h] = "busy"
  /\ phase' = [phase EXCEPT ![h] = "idle"]
  /\ UNCHANGED <<locked, state, slots, parked, loose, index, share, retired>>
ToIdleLeavesSlots(h) ==
  /\ phase[h] = "busy"
  /\ phase' = [phase EXCEPT ![h] = "idle"]
  /\ state' = "Idle"
  /\ UNCHANGED <<locked, slots, parked, loose, index, share, retired>>

(* State::busy_to_idle_unchecked and idle_to_busy_unchecked: the old value *)
(* moves to the caller, as it does by swap_state; the Busy value v was one *)
(* the caller received, or is Busy::empty.                                 *)
BusyToIdle ==
  /\ state' = "Idle" /\ slots' = <<>>
  /\ parked' = parked \cup ({slots} \ {<<>>})
IdleToBusy(v) ==
  /\ state' = "Busy" /\ slots' = v
  /\ parked' = parked \ {v}

(* BusyGroup::swap_state, ReporterBusy::swap_state and to_idle. *)
ToIdle(h) ==
  /\ phase[h] = "busy"
  /\ phase' = [phase EXCEPT ![h] = "idle"]
  /\ BusyToIdle
  /\ UNCHANGED <<locked, loose, index, share, retired>>

(* IdleGroup::swap_state and to_busy, and the same of ReporterIdle. *)
ToBusy(h, v) ==
  /\ phase[h] = "idle"
  /\ v = <<>> \/ v \in parked
  /\ "restart" \in Obligations => Range(v) = {share[r] : r \in Live}
  /\ phase' = [phase EXCEPT ![h] = "busy"]
  /\ IdleToBusy(v)
  /\ UNCHANGED <<locked, loose, index, share, retired>>

-----------------------------------------------------------------------------
(* Every handle is gone: the last reference frees GroupShared. *)
AllGone ==
  /\ \A h \in Handles : phase[h] \in {"unborn", "dropped"}
  /\ UNCHANGED vars

HandleStep(h) ==
  \/ Lock(h) \/ Acquire(h) \/ ReleaseLock(h) \/ DropGuard(h) \/ DropHandle(h)
  \/ GetState(h) \/ EraseState(h)
  \/ \E r \in Reporters : NewReporter(h, r)
  \/ \E k \in 0 .. Len(slots) : RemoveSlot(h, k) \/ RenewIndex(h, k)
  \/ \E s \in loose : PushSlot(h, s)
  \/ \E w \in Vectors(loose \cup Range(slots)) : Rearrange(h, w)
  \/ ToIdle(h)
  \/ \E v \in parked \cup {<<>>} : ToBusy(h, v)

(* Steps of whoever holds a Busy value. *)
ParkedStep(v) ==
  \/ \E k \in 0 .. Len(v) - 1 : ParkedRemove(v, k) \/ ParkedRenewIndex(v, k)
  \/ \E w \in Vectors(loose \cup Range(v)) : ParkedRearrange(v, w)

Next ==
  \/ \E h \in Handles : HandleStep(h)
  \/ \E v \in parked : ParkedStep(v)
  \/ \E g, h \in Visors : CloneGroup(g, h)
  \/ \E r, q \in Reporters : SwapSlot(r, q)
  \/ \E r \in Reporters, k \in 0 .. Len(slots) : WriteIndex(r, k)
  \/ AllGone

Spec == Init /\ [][Next]_vars

(* Guard methods do not block and a guard is given back; parking_lot       *)
(* serves its waiters eventually fairly.                                   *)
FairSpec ==
  /\ Spec
  /\ \A h \in Handles : SF_vars(Acquire(h))
  /\ \A h \in Handles : WF_vars(ReleaseLock(h) \/ DropGuard(h))

-----------------------------------------------------------------------------
(* Properties. *)

TypeOK ==
  /\ locked \in BOOLEAN
  /\ state \in {"Busy", "Idle"}
  /\ slots \in Seq(Reporters)
  /\ parked \subseteq Seq(Reporters)
  /\ loose \subseteq Reporters
  /\ index \in [Reporters -> Nat]
  /\ share \in [Reporters -> Reporters]
  /\ phase \in [Handles -> Phases]
  /\ retired \subseteq Reporters

(* Lockable: while one guard of the group exists there is no other one,    *)
(* which every `unsafe` deref of `locked` and of `index` relies on.        *)
MutualExclusion ==
  \A h1, h2 \in Handles :
    phase[h1] \in Guarded /\ phase[h2] \in Guarded => h1 = h2

(* A typed guard never meets the other state: no unreachable!() of busy(), *)
(* idle() and swap_state is reached, nor the unreachable_unchecked().      *)
TypestateAgrees ==
  \A h \in Handles :
    /\ phase[h] = "busy" => state = "Busy"
    /\ phase[h] = "idle" => state = "Idle"

(* SlotVec: the slot at position i carries index i, in the group and in    *)
(* every vector a caller set aside, whichever slots the callers remove and *)
(* whichever Busy values they install.                                     *)
Indexed(v) == \A i \in 1 .. Len(v) : index[v[i]] = i - 1
IndexesMatchPositions ==
  /\ Indexed(slots)
  /\ \A v \in parked : Indexed(v)

(* my_index of a reporter that still owes its slot leads to that very      *)
(* slot: its removal takes no other task's slot and cannot panic.          *)
MyIndexIsMine ==
  \A r \in Live : phase[r] = "busy" =>
    /\ index[share[r]] < Len(slots)
    /\ slots[index[share[r]] + 1] = share[r]

(* ReporterGuard::from_raw is called under the promise that "group and     *)
(* slot are paired": the slot of a guard is one of the busy group's slots. *)
GuardPaired ==
  \A r \in Live :
    phase[r] \in Guarded /\ state = "Busy" => share[r] \in Range(slots)

(* While Busy, the vector holds exactly the slots of the live reporters,   *)
(* but for those that tasks left behind which went away without handing in *)
(* (a cancelled future): if it is empty, all tasks are through.            *)
SlotsAreLive ==
  state = "Busy" =>
    Range(slots) \ {share[r] : r \in Gone} = {share[r] : r \in Live}

(* Whoever waits in acquire() gets the lock. *)
LockGranted == \A h \in Handles : phase[h] = "waiting" ~> phase[h] \in Guarded

(* The group implements the registry of slots. *)
Registry == INSTANCE SlotRegistry WITH
  mode    <- state,
  born    <- Born,
  members <- Range(slots),
  kept    <- {Range(v) : v \in parked},
  owner   <- share,
  done    <- retired
RegistrySpec == Registry!Spec

(* No slot is lost or in two vectors, and no two reporters report for one: *)
(* the slots of the reporters that have not removed theirs are those of    *)
(* the group and of the Busy values that callers were given by to_idle.    *)
SlotsAccounted == Registry!EachSlotOnce
=============================================================================
