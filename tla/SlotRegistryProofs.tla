------------------------- MODULE SlotRegistryProofs -------------------------
(***************************************************************************)
(* What a registry of slots guarantees, for any number of tasks: a theorem *)
(* about the abstract specification, which its implementations inherit.    *)
(***************************************************************************)
EXTENDS SlotRegistry, TLAPS

(* No two tasks refer to one slot, not even those that are through or not  *)
(* there yet; otherwise a registration or a hand-in would be about another *)
(* task's slot as well.                                                    *)
RegistryInv ==
  /\ owner \in [Reporters -> Reporters]
  /\ done \subseteq born /\ born \subseteq Reporters
  /\ \A r, q \in Reporters : owner[r] = owner[q] => r = q
  /\ mode = "Idle" => members = {}
  /\ EachSlotOnce

LEMMA InitRegistryInv == Init => RegistryInv
BY DEF Init, RegistryInv, EachSlotOnce

LEMMA RegisterInv ==
  ASSUME RegistryInv, NEW r \in Reporters, Register(r)
  PROVE  RegistryInv'
<1>1. /\ r \notin born /\ r \notin done /\ mode = "Busy" /\ mode' = mode
      /\ born' = born \cup {r} /\ members' = members \cup {owner[r]}
      /\ kept' = kept /\ owner' = owner /\ done' = done
  BY DEF Register, RegistryInv
<1>2. \A q \in born \ done : owner[q] # owner[r]
  BY <1>1 DEF RegistryInv
<1>3. \A S \in kept : owner[r] \notin S
  BY <1>2 DEF RegistryInv, EachSlotOnce
<1>4. EachSlotOnce'
  <2>1. {owner[q] : q \in born' \ done} = {owner[q] : q \in born \ done} \cup {owner[r]}
    BY <1>1
  <2> QED
    BY <1>1, <1>3, <2>1 DEF RegistryInv, EachSlotOnce
<1> QED
  BY <1>1, <1>4 DEF RegistryInv

LEMMA HandInInv ==
  ASSUME RegistryInv, NEW r \in Reporters, HandIn(r)
  PROVE  RegistryInv'
<1>1. /\ r \in born \ done /\ owner[r] \in members /\ mode = "Busy" /\ mode' = mode
      /\ members' = members \ {owner[r]} /\ done' = done \cup {r}
      /\ born' = born /\ kept' = kept /\ owner' = owner
  BY DEF HandIn
<1>2. \A q \in born \ done : q # r => owner[q] # owner[r]
  BY <1>1 DEF RegistryInv
<1>3. \A S \in kept : owner[r] \notin S
  BY <1>1 DEF RegistryInv, EachSlotOnce
<1>4. EachSlotOnce'
  <2>1. {owner[q] : q \in born \ done'} = {owner[q] : q \in born \ done} \ {owner[r]}
    BY <1>1, <1>2
  <2> QED
    BY <1>1, <1>3, <2>1 DEF RegistryInv, EachSlotOnce
<1> QED
  BY <1>1, <1>4 DEF RegistryInv

LEMMA TradeInv ==
  ASSUME RegistryInv, NEW r1 \in Reporters, NEW r2 \in Reporters, Trade(r1, r2)
  PROVE  RegistryInv'
<1>1. /\ r1 \in born \ done /\ r2 \in born \ done
      /\ owner' = [owner EXCEPT ![r1] = owner[r2], ![r2] = owner[r1]]
      /\ mode' = mode /\ born' = born /\ members' = members /\ kept' = kept /\ done' = done
  BY DEF Trade
<1>2. /\ owner' \in [Reporters -> Reporters]
      /\ owner'[r1] = owner[r2] /\ owner'[r2] = owner[r1]
      /\ \A q \in Reporters \ {r1, r2} : owner'[q] = owner[q]
  BY <1>1 DEF RegistryInv
<1>3. \A q, z \in Reporters : owner'[q] = owner'[z] => q = z
  BY <1>2 DEF RegistryInv
<1>4. {owner'[q] : q \in born \ done} = {owner[q] : q \in born \ done}
  BY <1>1, <1>2 DEF RegistryInv
<1>5. EachSlotOnce'
  BY <1>1, <1>3, <1>4 DEF RegistryInv, EachSlotOnce
<1> QED
  BY <1>1, <1>2, <1>3, <1>5 DEF RegistryInv

LEMMA DiscardInv == ASSUME RegistryInv, NEW x, NEW S, Discard(x, S) PROVE RegistryInv'
<1> DEFINE R == {r \in born : owner[r] = x}
<1>1. /\ S \in kept /\ x \in S
      /\ kept' = (kept \ {S}) \cup ({S \ {x}} \ {{}})
      /\ done' = done \cup R
      /\ born' = born /\ members' = members /\ owner' = owner /\ mode' = mode
  BY DEF Discard
<1>2. x \notin members /\ \A Z \in kept \ {S} : x \notin Z
  BY <1>1 DEF RegistryInv, EachSlotOnce
<1>3. UNION kept' = (UNION kept) \ {x}
  <2>1. ASSUME NEW y \in UNION kept' PROVE y \in UNION kept /\ y # x
    BY <1>1, <1>2
  <2>2. ASSUME NEW y \in UNION kept, y # x PROVE y \in UNION kept'
    <3>1. PICK Z \in kept : y \in Z
      BY <2>2
    <3>2. CASE Z = S
      <4>1. y \in S \ {x}
        BY <2>2, <3>1, <3>2
      <4>2. S \ {x} \in kept'
        BY <1>1, <4>1
      <4> QED
        BY <4>1, <4>2
    <3>3. CASE Z # S
      BY <1>1, <3>1, <3>3
    <3> QED
      BY <3>2, <3>3
  <2> QED
    BY <2>1, <2>2
<1>4. {owner'[q] : q \in born' \ done'} = {owner[q] : q \in born \ done} \ {x}
  BY <1>1
<1>5. members' \cup UNION kept' = {owner'[q] : q \in born' \ done'}
  <2>1. members \cup UNION kept = {owner[q] : q \in born \ done}
    BY DEF RegistryInv, EachSlotOnce
  <2> QED
    BY <1>1, <1>2, <1>3, <1>4, <2>1
<1>6. \A Z \in kept' : Z \cap members' = {}
  BY <1>1 DEF RegistryInv, EachSlotOnce
<1>7. \A Z, Y \in kept' : Z # Y => Z \cap Y = {}
  BY <1>1 DEF RegistryInv, EachSlotOnce
<1>8. \A q, z \in born' \ done' : owner'[q] = owner'[z] => q = z
  BY <1>1 DEF RegistryInv
<1>9. EachSlotOnce'
  BY <1>5, <1>6, <1>7, <1>8 DEF EachSlotOnce
<1> QED
  BY <1>1, <1>9 DEF RegistryInv

LEMMA CloseInv == RegistryInv /\ Close => RegistryInv'
<1> SUFFICES ASSUME RegistryInv, Close PROVE RegistryInv'
  OBVIOUS
<1>1. /\ members' = {} /\ kept' = kept \cup ({members} \ {{}})
      /\ born' = born /\ owner' = owner /\ done' = done
  BY DEF Close
<1>2. UNION kept' = members \cup UNION kept
  BY <1>1
<1>3. EachSlotOnce'
  BY <1>1, <1>2 DEF RegistryInv, EachSlotOnce
<1> QED
  BY <1>1, <1>3 DEF RegistryInv

LEMMA OpenInv == ASSUME RegistryInv, NEW S, Open(S) PROVE RegistryInv'
<1>1. /\ mode = "Idle" /\ mode' = "Busy" /\ members = {} /\ members' = S
      /\ S = {} \/ S \in kept
      /\ kept' = kept \ {S}
      /\ born' = born /\ owner' = owner /\ done' = done
  BY DEF Open, RegistryInv
<1>2. S \cup UNION kept' = UNION kept
  BY <1>1
<1>3. \A Z \in kept' : Z \cap S = {}
  BY <1>1 DEF RegistryInv, EachSlotOnce
<1>4. EachSlotOnce'
  BY <1>1, <1>2, <1>3 DEF RegistryInv, EachSlotOnce
<1> QED
  BY <1>1, <1>4 DEF RegistryInv

LEMMA NextRegistryInv == RegistryInv /\ [Next]_vars => RegistryInv'
<1> SUFFICES ASSUME RegistryInv, [Next]_vars PROVE RegistryInv'
  OBVIOUS
<1>1. CASE UNCHANGED vars
  BY <1>1 DEF vars, RegistryInv, EachSlotOnce
<1> QED
  BY <1>1, RegisterInv, HandInInv, TradeInv, DiscardInv, CloseInv, OpenInv DEF Next

(* The slots of the tasks that are not through are split up, without       *)
(* remainder, among the open session and those set aside.                  *)
THEOREM RegistryPartition == Spec => []EachSlotOnce
<1>1. RegistryInv => EachSlotOnce
  BY DEF RegistryInv
<1> QED
  BY <1>1, InitRegistryInv, NextRegistryInv, PTL DEF Spec
=============================================================================
