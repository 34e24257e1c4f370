------------------------- MODULE FirstResponseProofs -------------------------
(* Theorems about FirstResponse, for every length and chunk size. *)
EXTENDS FirstResponse, TLAPS

(* The cache never lags below the counter, so that no chunk is cut; the    *)
(* chunk in hand is the only difference between what the stream gave and   *)
(* what was counted; what was counted is in the file or lost; a chunk      *)
(* taken after the abort flag was set is the last one.                     *)
Kept == \A b \in Bytes : b \in file <=> b < process /\ b \notin lost

IInv ==
  /\ TypeOK
  /\ remain <= cache
  /\ process + remain = Length
  /\ \A b \in lost : b < process
  /\ test # "panicked" => Kept
  /\ pc = "write" => process + chunk = sent
  /\ pc # "write" /\ test # "panicked" => process = sent
  /\ test = "panicked" => main = "over"
  /\ late > 0 => abort /\ pc # "poll" /\ late = 1

LEMMA InitInv == Init => IInv
<1> SUFFICES ASSUME Init PROVE IInv
  OBVIOUS
<1>1. abort \in BOOLEAN
  BY DEF Init
<1>2. /\ main = "both" /\ pc = "poll" /\ test = "pending"
      /\ remain = Length /\ cache = Length
      /\ process = 0 /\ chunk = 0 /\ sent = 0 /\ late = 0
      /\ file = {} /\ lost = {}
  BY DEF Init
<1> QED
  BY <1>1, <1>2, FirstAssumption DEF IInv, TypeOK, Kept, Bytes

LEMMA NextInv == IInv /\ [Next]_vars => IInv'
<1> SUFFICES ASSUME IInv, [Next]_vars PROVE IInv'
  OBVIOUS
<1> USE FirstAssumption DEF IInv, TypeOK, Ended, Kept, Bytes
<1>1. ASSUME NEW len \in 0 .. MaxChunk, Chunk(len) PROVE IInv'
  <2>1. Allowed(len) = len
    BY <1>1 DEF Chunk, Allowed
  <2> QED
    BY <1>1, <2>1 DEF Chunk
<1>2. CASE StreamEnds  BY <1>2 DEF StreamEnds, Over
<1>3. CASE StreamFails BY <1>3 DEF StreamFails, Over
<1>4. ASSUME NEW B \in SUBSET InHand, WriteDone(B) PROVE IInv'
  <2>1. /\ cache' = remain /\ remain' = remain - chunk /\ process' = process + chunk
        /\ UNCHANGED <<chunk, sent, abort, late>> /\ pc = "write" /\ main # "over"
    BY <1>4 DEF WriteDone, Record
  <2>2. /\ pc' \in {"ok", "cancelled", "poll"} /\ (abort => pc' # "poll")
        /\ main' \in {main, "over"} /\ test' \in {test, "dropped"}
    BY <1>4 DEF WriteDone, GoOn, Over
  <2>3. file' = file \cup B /\ lost' = lost \cup (InHand \ B)
    BY <1>4 DEF WriteDone
  <2>4. test # "panicked" /\ Kept
    BY <2>1
  <2>5. \A b : b \in InHand <=> b \in Int /\ process <= b /\ b < process + chunk
    BY DEF InHand
  <2>6. /\ file' \subseteq Bytes /\ lost' \subseteq Bytes
        /\ \A b \in lost' : b < process'
    <3>1. process + chunk <= Length
      BY <2>1
    <3>2. InHand \subseteq Bytes
      BY <2>5, <3>1
    <3>3. file' \subseteq Bytes /\ lost' \subseteq Bytes
      BY <2>3, <3>2
    <3>4. \A b \in lost : b \in Int /\ b < process + chunk
      OBVIOUS
    <3>5. \A b \in lost' : b < process'
      BY <2>1, <2>3, <2>5, <3>4
    <3> QED
      BY <3>3, <3>5
  <2>7. ASSUME NEW b \in Bytes
        PROVE  b \in file' <=> b < process' /\ b \notin lost'
    BY <2>1, <2>3, <2>4, <2>5
  <2> QED
    BY <2>1, <2>2, <2>6, <2>7
<1>5. ASSUME NEW kind \in {"partial", "whole"}, TestAnswers(kind) PROVE IInv'
  BY <1>5 DEF TestAnswers
<1>6. ASSUME NEW B \in SUBSET InHand, TestPanics(B) PROVE IInv'
  <2>1. file' \subseteq Bytes
    BY <1>6 DEF TestPanics, InHand
  <2> QED
    BY <1>6, <2>1 DEF TestPanics
<1>7. CASE UNCHANGED vars
  BY <1>7 DEF vars
<1> QED
  BY <1>1, <1>2, <1>3, <1>4, <1>5, <1>6, <1>7 DEF Next, Stream, Written, Done

LEMMA Invariant == Spec => []IInv
BY InitInv, NextInv, PTL DEF Spec

(* The counters of the first download stay within the file. *)
THEOREM FirstTypeCorrect == Spec => []TypeOK
<1>1. IInv => TypeOK
  BY DEF IInv
<1> QED
  BY <1>1, Invariant, PTL

(* However the download of the first response stops: it holds every byte   *)
(* before process but those of failed writes, none after it, and the       *)
(* counter says how many are left.                                         *)
THEOREM RestCorrect == Spec => []RestIsExact
<1>1. IInv => RestIsExact
  BY DEF IInv, RestIsExact, Kept
<1> QED
  BY <1>1, Invariant, PTL

(* After the test has answered, one more chunk is taken at most. *)
THEOREM StopsInTime == Spec => []OneMoreChunk
<1>1. IInv => OneMoreChunk
  BY DEF IInv, TypeOK, OneMoreChunk
<1> QED
  BY <1>1, Invariant, PTL
=============================================================================
