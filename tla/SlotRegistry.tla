---------------------------- MODULE SlotRegistry ----------------------------
(***************************************************************************)
(* What download_group.rs promises the download tasks, without its slot    *)
(* vector, its back-indices and its lock: a registry of slots in which     *)
(* every task owns one slot, hands in its own slot and nobody else's, and  *)
(* in which a whole session of slots can be set aside and brought back.    *)
(* DownloadGroup implements it (DownloadGroup!Registry).                   *)
(***************************************************************************)
CONSTANT Reporters

VARIABLES
  mode,     \* "Busy" while a session is open
  born,     \* tasks (and slots) created so far
  members,  \* slots of the open session
  kept,     \* slot sets of sessions set aside
  owner,    \* the slot a task owns
  done      \* tasks that have handed in their slot

vars == <<mode, born, members, kept, owner, done>>

Init ==
  /\ mode = "Idle"
  /\ born = {} /\ members = {} /\ kept = {} /\ done = {}
  /\ owner = [r \in Reporters |-> r]

Register(r) ==
  /\ mode = "Busy" /\ r \notin born
  /\ born' = born \cup {r}
  /\ members' = members \cup {owner[r]}
  /\ UNCHANGED <<mode, kept, owner, done>>

(* A task hands in exactly the slot it owns. *)
HandIn(r) ==
  /\ mode = "Busy" /\ r \in born \ done /\ owner[r] \in members
  /\ members' = members \ {owner[r]}
  /\ done' = done \cup {r}
  /\ UNCHANGED <<mode, born, kept, owner>>

(* Two tasks that still own a slot trade them. *)
Trade(r1, r2) ==
  /\ r1 \in born \ done /\ r2 \in born \ done
  /\ owner' = [owner EXCEPT ![r1] = owner[r2], ![r2] = owner[r1]]
  /\ UNCHANGED <<mode, born, members, kept, done>>

(* Who holds a session set aside removes a slot from it: its task, if it   *)
(* has one, is through.                                                    *)
Discard(x, S) ==
  /\ S \in kept /\ x \in S
  /\ kept' = (kept \ {S}) \cup ({S \ {x}} \ {{}})
  /\ done' = done \cup {r \in born : owner[r] = x}
  /\ UNCHANGED <<mode, born, members, owner>>

(* The session ends; its slots are set aside. *)
Close ==
  /\ mode = "Busy" /\ mode' = "Idle"
  /\ members' = {}
  /\ kept' = kept \cup ({members} \ {{}})
  /\ UNCHANGED <<born, owner, done>>

(* A session opens with no slot or with the slots of one set aside. *)
Open(S) ==
  /\ mode = "Idle" /\ mode' = "Busy"
  /\ S = {} \/ S \in kept
  /\ members' = S
  /\ kept' = kept \ {S}
  /\ UNCHANGED <<born, owner, done>>

Next ==
  \/ \E r \in Reporters : Register(r) \/ HandIn(r)
  \/ \E r1, r2 \in Reporters : Trade(r1, r2)
  \/ \E S \in kept : \E x \in S : Discard(x, S)
  \/ Close
  \/ \E S \in SUBSET Reporters : Open(S)

Spec == Init /\ [][Next]_vars

-----------------------------------------------------------------------------
(* Every task that has not handed in its slot owns one of its own, and the *)
(* slot is in one place: in the open session or in one that is set aside,  *)
(* however sessions are closed and reopened and slots are traded.          *)
EachSlotOnce ==
  /\ members \cup UNION kept = {owner[r] : r \in born \ done}
  /\ \A r, q \in born \ done : owner[r] = owner[q] => r = q
  /\ \A S \in kept : S \cap members = {}
  /\ \A S, Z \in kept : S # Z => S \cap Z = {}
=============================================================================
