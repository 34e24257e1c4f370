------------------------ MODULE DownloadSessionProofs ------------------------
(***************************************************************************)
(* Theorems about DownloadSession, for every file length, number of tasks, *)
(* chunk size, way to cut, and set of statuses.  Those about bytes of the  *)
(* resource assume servers that send the range asked for; the others hold  *)
(* for all.                                                                *)
(***************************************************************************)
EXTENDS DownloadSession, SegmentPiecesProofs

-----------------------------------------------------------------------------
(* The pieces of a segment of this file. *)

LEMMA SegmentIsOne ==
  \A s \in Segment : /\ s \in AnySegment
                     /\ s.start \in Nat /\ s.remain \in Nat \ {0} /\ s.start + s.remain <= Size
BY SessionAssumption DEF Segment, AnySegment, Bytes

LEMMA FilePieces ==
  ASSUME NEW s \in Segment, NEW n \in Nat \ {0}
  PROVE  /\ \A p \in Pieces(s, n) :
              /\ p \in Segment
              /\ s.start <= p.start /\ p.start + p.remain <= s.start + s.remain
         /\ \A p, q \in Pieces(s, n) : p # q => Apart(p, q)
         /\ \A b \in Bytes : Covers(s, b) => \E p \in Pieces(s, n) : Covers(p, b)
<1>1. /\ s \in AnySegment
      /\ s.start \in Nat /\ s.remain \in Nat \ {0} /\ s.start + s.remain <= Size
  BY SegmentIsOne
<1>2. /\ \A p \in Pieces(s, n) :
           /\ p \in AnySegment
           /\ s.start <= p.start /\ p.start + p.remain <= s.start + s.remain
      /\ \A p, q \in Pieces(s, n) : p # q => Apart(p, q)
      /\ \A b \in Nat : Covers(s, b) => \E p \in Pieces(s, n) : Covers(p, b)
  BY <1>1, PiecesTile
<1>3. ASSUME NEW p \in Pieces(s, n) PROVE p \in Segment
  <2>1. /\ p \in AnySegment
        /\ s.start <= p.start /\ p.start + p.remain <= s.start + s.remain
    BY <1>2
  <2>2. /\ p = [start |-> p.start, remain |-> p.remain]
        /\ p.start \in Nat /\ p.remain \in Nat \ {0}
    BY <2>1 DEF AnySegment
  <2>3. p.start \in 0 .. Size - 1 /\ p.remain \in 1 .. Size /\ p.start + p.remain <= Size
    BY <1>1, <2>1, <2>2, SessionAssumption
  <2> QED
    BY <2>2, <2>3 DEF Segment, Bytes
<1>4. \A b \in Bytes : b \in Nat
  BY SessionAssumption DEF Bytes
<1> QED
  BY <1>2, <1>3, <1>4

-----------------------------------------------------------------------------
(* The inductive invariant. *)

(* The slots' ranges follow one another in some order. *)
SlotsInv ==
  /\ mode = "down" => \A t \in Tasks : pc[t] = "free"
  /\ lock = "save" => mode = "up"
  /\ \A t \in Tasks : remain[t] <= end[t]
  /\ \A t, u \in Tasks :
       t # u /\ pc[t] # "free" /\ pc[u] # "free" => end[t] <= Start(u) \/ end[u] <= Start(t)

(* A cache that differs from the counter is an older, larger value, and    *)
(* whoever took the difference left a chunk.                               *)
WritersInv ==
  \A t \in Tasks :
    /\ pc[t] \in {"poll", "write"} =>
         /\ process[t] = Start(t) /\ remain[t] <= cache[t]
         /\ cache[t] # remain[t] => MaxChunk <= remain[t]
    /\ pc[t] = "write" => cut[t] <= MaxChunk /\ cut[t] <= cache[t]
    /\ pc[t] # "write" => cut[t] = 0

(* What nobody has written yet, rightly or wrongly, is in a slot while the *)
(* program is up, and always in a stored segment.                          *)
Unwritten == {b \in Bytes : file[b] = "missing"}
UnwrittenOwned == mode = "up" => \A b \in Unwritten : \E t \in Tasks : Owns(t, b)
UnwrittenSaved == Unwritten \subseteq Covered(saved)

(* Servers that send the range asked for put no byte in a wrong place.     *)
HonestInv ==
  Ranges = {"asked"} => FileRight /\ \A t \in Tasks : body[t] = "aligned"

(* What is stored covers the slots, and its segments do not overlap.       *)
SavedInv ==
  /\ UnwrittenSaved
  /\ \A s, z \in saved : s # z => Apart(s, z)
  /\ \A t \in Tasks, b \in Bytes : Owns(t, b) => b \in Covered(saved)

(* While slots are read, what was collected covers those that were read    *)
(* and lies apart from those that were not.                                *)
DraftInv ==
  lock = "save" =>
    /\ \A t \in todo : pc[t] # "free"
    /\ Covered(draft) \subseteq Covered(saved)
    /\ \A s, z \in draft : s # z => Apart(s, z)
    /\ \A s \in draft, t \in todo : s.start + s.remain <= Start(t) \/ end[t] <= s.start
    /\ \A t \in Tasks \ todo, b \in Bytes : Owns(t, b) => b \in Covered(draft)

IInv ==
  /\ TypeOK /\ SlotsInv /\ WritersInv
  /\ HonestInv /\ UnwrittenOwned /\ SavedInv /\ DraftInv

LEMMA Sizes == Size \in Nat \ {0} /\ MaxChunk \in Nat \ {0} /\ MaxTimes \in Nat \ {0}
BY SessionAssumption

(* Numbers of a task. *)
LEMMA Numbers ==
  ASSUME TypeOK, NEW t \in Tasks
  PROVE  /\ end[t] \in 0 .. Size /\ remain[t] \in 0 .. Size
         /\ process[t] \in 0 .. Size /\ cache[t] \in 0 .. Size /\ cut[t] \in 0 .. Size
BY DEF TypeOK

(* The write in flight fits into what is left, exactly if it is the last.  *)
LEMMA CutFits ==
  ASSUME TypeOK, WritersInv, NEW t \in Tasks, pc[t] = "write"
  PROVE  /\ cut[t] <= remain[t]
         /\ cut[t] = cache[t] => cut[t] = remain[t]
BY Numbers, Sizes DEF WritersInv

(* It is the beginning of the slot's range. *)
LEMMA FlightOwned ==
  ASSUME TypeOK, WritersInv, SlotsInv, NEW t \in Tasks, NEW b \in InFlight(t)
  PROVE  pc[t] = "write" /\ b \in Bytes /\ Owns(t, b) /\ b < Start(t) + cut[t]
<1>1. pc[t] = "write" /\ b \in process[t] .. process[t] + cut[t] - 1
  BY DEF InFlight
<1>2. process[t] = Start(t)
  BY <1>1 DEF WritersInv
<1>3. cut[t] <= remain[t] /\ remain[t] <= end[t]
  BY <1>1, CutFits DEF SlotsInv
<1> QED
  BY <1>1, <1>2, <1>3, Numbers, Sizes DEF Owns, Start, Bytes

(* Whatever lands is written, and rightly if servers are honest. *)
LEMMA LandsWritten ==
  ASSUME TypeOK, HonestInv, NEW B, Lands(B)
  PROVE  /\ file' \in [Bytes -> {"missing", "right", "wrong"}]
         /\ Ranges = {"asked"} => FileRight'
         /\ \A b \in Unwritten' : b \in Unwritten /\ b \notin B
<1>1. /\ file' \in [Bytes -> {"missing", "right", "wrong"}]
      /\ \A b \in Unwritten' : b \in Unwritten /\ b \notin B
  BY DEF Lands, TypeOK, Unwritten
<1>2. ASSUME Ranges = {"asked"} PROVE FileRight'
  <2>1. FileRight /\ \A t \in Tasks : body[t] # "shifted"
    BY <1>2 DEF HonestInv
  <2>2. file' = [b \in Bytes |-> IF b \in B THEN "right" ELSE file[b]]
    BY <2>1 DEF Lands
  <2> QED
    BY <2>1, <2>2 DEF FileRight
<1> QED
  BY <1>1, <1>2

(* A step that changes no slot and no record of one. *)
LEMMA Calm ==
  ASSUME IInv, UNCHANGED <<saved, mode, slots, saving>>,
         \A t \in Tasks : pc'[t] = "free" <=> pc[t] = "free",
         Unwritten' \subseteq Unwritten
  PROVE  SlotsInv' /\ UnwrittenOwned' /\ SavedInv' /\ DraftInv'
<1>0. /\ saved' = saved /\ mode' = mode /\ end' = end /\ remain' = remain
      /\ lock' = lock /\ todo' = todo /\ draft' = draft
  BY DEF slots, saving
<1>1. \A t \in Tasks, b \in Bytes : Owns(t, b)' <=> Owns(t, b)
  BY <1>0 DEF Owns, Start
<1>2. \A t \in Tasks : Start(t)' = Start(t)
  BY <1>0 DEF Start
<1>3. Covered(saved)' = Covered(saved) /\ Covered(draft)' = Covered(draft)
  BY <1>0 DEF Covered
<1>4. SlotsInv'
  BY <1>0, <1>2 DEF IInv, SlotsInv
<1>5. \A b \in Unwritten' : b \in Bytes /\ b \in Unwritten
  BY DEF Unwritten
<1>6. UnwrittenOwned'
  BY <1>0, <1>1, <1>5 DEF IInv, UnwrittenOwned
<1>7. SavedInv'
  BY <1>0, <1>1, <1>3, <1>5 DEF IInv, SavedInv, UnwrittenSaved
<1>8. DraftInv'
  <2>1. \A t \in todo : t \in Tasks
    BY DEF IInv, TypeOK
  <2> QED
    BY <1>0, <1>1, <1>2, <1>3, <2>1 DEF IInv, DraftInv
<1> QED
  BY <1>4, <1>6, <1>7, <1>8

-----------------------------------------------------------------------------
(* The tasks' steps. *)

(* A future that is dropped takes writer and cache with it. *)
LEMMA LeavesInv ==
  ASSUME IInv, NEW t \in Tasks, NEW how \in {"returned", "stopped", "ended", "panicked"},
         Leaves(t, how), pc[t] # "free"
  PROVE  /\ pc' \in [Tasks -> {"free", "request", "poll", "write",
                               "returned", "stopped", "ended", "panicked"}]
         /\ process' \in [Tasks -> 0 .. Size] /\ cache' \in [Tasks -> 0 .. Size]
         /\ cut' \in [Tasks -> 0 .. Size] /\ body' \in [Tasks -> {"aligned", "shifted"}]
         /\ \A x \in Tasks : pc'[x] = "free" <=> pc[x] = "free"
         /\ UNCHANGED slots => WritersInv'
         /\ \A x \in Tasks \ {t} : /\ pc'[x] = pc[x] /\ body'[x] = body[x]
                                   /\ process'[x] = process[x] /\ cache'[x] = cache[x]
                                   /\ cut'[x] = cut[x]
         /\ pc'[t] = how /\ body'[t] = "aligned" /\ cut'[t] = 0
<1>1. TypeOK /\ WritersInv
  BY DEF IInv
<1>2. /\ pc' \in [Tasks -> {"free", "request", "poll", "write",
                            "returned", "stopped", "ended", "panicked"}]
      /\ process' \in [Tasks -> 0 .. Size] /\ cache' \in [Tasks -> 0 .. Size]
      /\ cut' \in [Tasks -> 0 .. Size] /\ body' \in [Tasks -> {"aligned", "shifted"}]
  BY <1>1, Sizes DEF Leaves, TypeOK
<1>3. /\ \A x \in Tasks \ {t} : /\ pc'[x] = pc[x] /\ body'[x] = body[x]
                                /\ process'[x] = process[x] /\ cache'[x] = cache[x]
                                /\ cut'[x] = cut[x]
      /\ pc'[t] = how /\ body'[t] = "aligned" /\ cut'[t] = 0
  BY <1>1 DEF Leaves, TypeOK
<1>4. \A x \in Tasks : pc'[x] = "free" <=> pc[x] = "free"
  BY <1>3
<1>5. ASSUME UNCHANGED slots PROVE WritersInv'
  <2>1. end' = end /\ remain' = remain
    BY <1>5 DEF slots
  <2>2. \A x \in Tasks : Start(x)' = Start(x)
    BY <2>1 DEF Start
  <2> QED
    BY <1>1, <1>3, <2>1, <2>2 DEF WritersInv
<1> QED
  BY <1>2, <1>3, <1>4, <1>5

(* The common part of the steps that end a task's future without a write.  *)
LEMMA LeavesQuietly ==
  ASSUME IInv, NEW t \in Tasks, NEW how \in {"returned", "stopped", "ended", "panicked"},
         Leaves(t, how), pc[t] # "free", UNCHANGED <<file, saved, mode, slots, saving>>
  PROVE  IInv'
<1>1. file' = file /\ saved' = saved /\ mode' = mode
      /\ end' = end /\ remain' = remain /\ lock' = lock /\ todo' = todo /\ draft' = draft
  BY DEF slots, saving
<1>2. TypeOK'
  BY <1>1, LeavesInv DEF IInv, TypeOK, Segment, Bytes
<1>3. Unwritten' \subseteq Unwritten /\ HonestInv'
  BY <1>1, LeavesInv DEF Unwritten, IInv, HonestInv, FileRight
<1>4. SlotsInv' /\ UnwrittenOwned' /\ SavedInv' /\ DraftInv'
  BY <1>3, LeavesInv, Calm
<1>5. WritersInv'
  BY LeavesInv
<1> QED
  BY <1>2, <1>3, <1>4, <1>5 DEF IInv

(* Only 206 is accepted. *)
LEMMA OutcomeIs ==
  ASSUME NEW status, NEW only_partical
  PROVE  /\ Outcome(status, only_partical) \in {"poll", "ended", "stopped", "panicked"}
         /\ Outcome(status, only_partical) = "poll" => status = 206
BY DEF Outcome, Accepted

LEMMA AnswerInv ==
  ASSUME IInv, NEW t \in Tasks, NEW status, NEW only_partical, NEW range \in Ranges,
         Answer(t, status, only_partical, range)
  PROVE  IInv'
<1> DEFINE how == Outcome(status, only_partical)
<1>1. pc[t] = "request" /\ UNCHANGED <<file, saved, mode, slots, saving>>
  BY DEF Answer
<1>2. CASE how # "poll"
  <2>1. Leaves(t, how)
    BY <1>2 DEF Answer
  <2> QED
    BY <1>1, <1>2, <2>1, OutcomeIs, LeavesQuietly
<1>3. CASE how = "poll"
  <2>0. TypeOK /\ WritersInv /\ SlotsInv
    BY DEF IInv
  <2>1. /\ pc' = [pc EXCEPT ![t] = "poll"]
        /\ process' = [process EXCEPT ![t] = Start(t)]
        /\ cache' = [cache EXCEPT ![t] = remain[t]]
        /\ body' = [body EXCEPT ![t] = StartsAt(t, status, range)] /\ cut' = cut
    BY <1>3 DEF Answer
  <2>2. file' = file /\ saved' = saved /\ mode' = mode
        /\ end' = end /\ remain' = remain /\ lock' = lock /\ todo' = todo /\ draft' = draft
    BY <1>1 DEF slots, saving
  <2>3. Start(t) \in 0 .. Size
    BY <2>0, Numbers, Sizes DEF Start, SlotsInv
  <2>4. TypeOK'
    <3>1. StartsAt(t, status, range) \in {"aligned", "shifted"}
      BY DEF StartsAt
    <3> QED
      BY <2>0, <2>1, <2>2, <2>3, <3>1 DEF TypeOK, Segment, Bytes
  <2>5. \A x \in Tasks : pc'[x] = "free" <=> pc[x] = "free"
    BY <1>1, <2>0, <2>1 DEF TypeOK
  <2>6. Unwritten' \subseteq Unwritten /\ HonestInv'
    <3>1. Ranges = {"asked"} => StartsAt(t, status, range) = "aligned"
      BY <1>3, OutcomeIs DEF StartsAt
    <3>2. Ranges = {"asked"} => \A x \in Tasks : body'[x] = "aligned"
      BY <2>0, <2>1, <3>1 DEF IInv, HonestInv, TypeOK
    <3> QED
      BY <2>2, <3>2 DEF Unwritten, IInv, HonestInv, FileRight
  <2>7. SlotsInv' /\ UnwrittenOwned' /\ SavedInv' /\ DraftInv'
    BY <1>1, <2>5, <2>6, Calm
  <2>8. WritersInv'
    <3> SUFFICES ASSUME NEW x \in Tasks
                 PROVE  /\ pc'[x] \in {"poll", "write"} =>
                             /\ process'[x] = Start(x)' /\ remain'[x] <= cache'[x]
                             /\ cache'[x] # remain'[x] => MaxChunk <= remain'[x]
                        /\ pc'[x] = "write" => cut'[x] <= MaxChunk /\ cut'[x] <= cache'[x]
                        /\ pc'[x] # "write" => cut'[x] = 0
      BY DEF WritersInv
    <3>1. Start(x)' = Start(x)
      BY <2>2 DEF Start
    <3>2. CASE x = t
      <4>1. cut[t] = 0
        BY <1>1, <2>0 DEF WritersInv
      <4> QED
        BY <2>0, <2>1, <2>2, <3>1, <3>2, <4>1, Numbers DEF TypeOK
    <3>3. CASE x # t
      BY <2>0, <2>1, <2>2, <3>1, <3>3 DEF TypeOK, WritersInv
    <3> QED
      BY <3>2, <3>3
  <2> QED
    BY <2>4, <2>6, <2>7, <2>8 DEF IInv
<1> QED
  BY <1>2, <1>3

LEMMA ChunkInv ==
  ASSUME IInv, NEW t \in Tasks, NEW len \in 0 .. MaxChunk, Chunk(t, len)
  PROVE  IInv'
<1> DEFINE n == IF len < cache[t] THEN len ELSE cache[t]
<1>0. TypeOK /\ WritersInv /\ SlotsInv
  BY DEF IInv
<1>1. /\ pc[t] = "poll" /\ pc' = [pc EXCEPT ![t] = "write"]
      /\ cut' = [cut EXCEPT ![t] = n]
      /\ UNCHANGED <<file, saved, mode, slots, process, cache, body, saving>>
  BY DEF Chunk
<1>2. n \in 0 .. Size /\ n <= MaxChunk /\ n <= cache[t]
  BY <1>0, Numbers, Sizes
<1> HIDE DEF n
<1>3. file' = file /\ saved' = saved /\ mode' = mode /\ end' = end /\ remain' = remain
      /\ process' = process /\ cache' = cache /\ body' = body
      /\ lock' = lock /\ todo' = todo /\ draft' = draft
  BY <1>1 DEF slots, saving
<1>4. TypeOK'
  BY <1>0, <1>1, <1>2, <1>3 DEF TypeOK, Segment, Bytes
<1>5. \A x \in Tasks : pc'[x] = "free" <=> pc[x] = "free"
  BY <1>0, <1>1 DEF TypeOK
<1>6. Unwritten' \subseteq Unwritten /\ HonestInv'
  BY <1>3 DEF Unwritten, IInv, HonestInv, FileRight
<1>7. SlotsInv' /\ UnwrittenOwned' /\ SavedInv' /\ DraftInv'
  BY <1>1, <1>5, <1>6, Calm
<1>8. WritersInv'
  <2>1. \A x \in Tasks : Start(x)' = Start(x)
    BY <1>3 DEF Start
  <2>2. \A x \in Tasks \ {t} : pc'[x] = pc[x] /\ cut'[x] = cut[x]
    BY <1>0, <1>1 DEF TypeOK
  <2>3. pc'[t] = "write" /\ cut'[t] = n
    BY <1>0, <1>1 DEF TypeOK
  <2> QED
    BY <1>0, <1>1, <1>2, <1>3, <2>1, <2>2, <2>3 DEF WritersInv
<1> QED
  BY <1>4, <1>6, <1>7, <1>8 DEF IInv

LEMMA WriteStopsInv ==
  ASSUME IInv, NEW t \in Tasks, NEW B, WriteStops(t, B)
  PROVE  IInv'
<1>0. TypeOK /\ WritersInv /\ SlotsInv /\ HonestInv
  BY DEF IInv
<1>1. /\ pc[t] = "write" /\ Lands(B) /\ Leaves(t, "stopped")
      /\ UNCHANGED <<saved, mode, slots, saving>>
  BY DEF WriteStops
<1>2. saved' = saved /\ mode' = mode /\ end' = end /\ remain' = remain
      /\ lock' = lock /\ todo' = todo /\ draft' = draft
  BY <1>1 DEF slots, saving
<1>3. /\ file' \in [Bytes -> {"missing", "right", "wrong"}]
      /\ Unwritten' \subseteq Unwritten /\ HonestInv'
  BY <1>0, <1>1, LandsWritten, LeavesInv DEF HonestInv
<1>4. TypeOK'
  BY <1>0, <1>1, <1>2, <1>3, LeavesInv DEF TypeOK, Segment, Bytes
<1>5. SlotsInv' /\ UnwrittenOwned' /\ SavedInv' /\ DraftInv'
  BY <1>1, <1>3, LeavesInv, Calm
<1>6. WritersInv'
  BY <1>1, LeavesInv
<1> QED
  BY <1>3, <1>4, <1>5, <1>6 DEF IInv

(* The range shrinks from its start by exactly the bytes that landed. *)
LEMMA WriteDoneInv ==
  ASSUME IInv, NEW t \in Tasks, WriteDone(t)
  PROVE  IInv'
<1>0. TypeOK /\ WritersInv /\ SlotsInv /\ HonestInv
  BY DEF IInv
<1>1. /\ pc[t] = "write" /\ Lands(InFlight(t))
      /\ remain' = [remain EXCEPT ![t] = remain[t] - cut[t]]
      /\ UNCHANGED <<saved, mode, end, saving>>
  BY DEF WriteDone
<1>2. saved' = saved /\ mode' = mode /\ end' = end
      /\ lock' = lock /\ todo' = todo /\ draft' = draft
  BY <1>1 DEF saving
<1>3. /\ file' \in [Bytes -> {"missing", "right", "wrong"}]
      /\ Unwritten' \subseteq Unwritten
      /\ Ranges = {"asked"} => FileRight'
      /\ \A b \in Unwritten' : b \notin InFlight(t)
  BY <1>0, <1>1, LandsWritten
<1>4. /\ cut[t] <= remain[t] /\ remain[t] <= end[t]
      /\ cut[t] = cache[t] => cut[t] = remain[t]
      /\ process[t] = end[t] - remain[t]
  BY <1>0, <1>1, CutFits DEF SlotsInv, WritersInv, Start
<1>5. /\ end[t] \in 0 .. Size /\ remain[t] \in 0 .. Size
      /\ process[t] \in 0 .. Size /\ cache[t] \in 0 .. Size /\ cut[t] \in 0 .. Size
  BY <1>0, Numbers
<1> DEFINE r == remain[t] - cut[t]
           p == process[t] + cut[t]
<1>6. r \in 0 .. Size /\ r <= remain[t] /\ p \in 0 .. Size /\ p = end[t] - r
  BY <1>4, <1>5, Sizes
<1>7. /\ remain'[t] = r /\ \A x \in Tasks \ {t} : remain'[x] = remain[x]
      /\ remain' \in [Tasks -> 0 .. Size]
  BY <1>0, <1>1, <1>6 DEF TypeOK
<1>8. /\ pc' \in [Tasks -> {"free", "request", "poll", "write",
                            "returned", "stopped", "ended", "panicked"}]
      /\ process' \in [Tasks -> 0 .. Size] /\ cache' \in [Tasks -> 0 .. Size]
      /\ cut' \in [Tasks -> 0 .. Size] /\ body' \in [Tasks -> {"aligned", "shifted"}]
      /\ \A x \in Tasks : pc'[x] = "free" <=> pc[x] = "free"
      /\ \A x \in Tasks \ {t} : /\ pc'[x] = pc[x] /\ body'[x] = body[x]
                                /\ process'[x] = process[x] /\ cache'[x] = cache[x]
                                /\ cut'[x] = cut[x]
      /\ body'[t] \in {"aligned", body[t]} /\ pc'[t] \in {"returned", "poll"} /\ cut'[t] = 0
      /\ pc'[t] # "returned" => pc'[t] = "poll" /\ process'[t] = p /\ cache'[t] = r
  <2>1. CASE cut[t] = cache[t]
    <3>1. Leaves(t, "returned")
      BY <2>1 DEF WriteDone
    <3> QED
      BY <1>1, <3>1, LeavesInv
  <2>2. CASE cut[t] # cache[t]
    <3>1. /\ pc' = [pc EXCEPT ![t] = "poll"]
          /\ process' = [process EXCEPT ![t] = p]
          /\ cache' = [cache EXCEPT ![t] = r]
          /\ cut' = [cut EXCEPT ![t] = 0] /\ body' = body
      BY <2>2 DEF WriteDone
    <3> HIDE DEF r, p
    <3> QED
      BY <1>0, <1>1, <1>6, <3>1, Sizes DEF TypeOK
  <2> QED
    BY <2>1, <2>2
<1>9. TypeOK'
  BY <1>0, <1>2, <1>3, <1>7, <1>8 DEF TypeOK, Segment, Bytes
<1>10. /\ \A x \in Tasks \ {t} : Start(x)' = Start(x)
       /\ Start(t)' = p /\ Start(t)' >= Start(t) /\ Start(t) = process[t]
  BY <1>2, <1>4, <1>5, <1>6, <1>7 DEF Start
<1> HIDE DEF r, p
<1>11. SlotsInv'
  <2>1. \A x \in Tasks : remain'[x] <= end[x]
    BY <1>0, <1>4, <1>5, <1>6, <1>7 DEF SlotsInv
  <2>2. ASSUME NEW x \in Tasks, NEW u \in Tasks, x # u, pc'[x] # "free", pc'[u] # "free"
        PROVE  end'[x] <= Start(u)' \/ end'[u] <= Start(x)'
    <3>1. end[x] <= Start(u) \/ end[u] <= Start(x)
      BY <1>0, <1>8, <2>2 DEF SlotsInv
    <3>2. Start(u)' >= Start(u) /\ Start(x)' >= Start(x)
      BY <1>0, <1>10, Numbers DEF Start
    <3>3. /\ end[x] \in Nat /\ end[u] \in Nat /\ Start(u) \in Int /\ Start(x) \in Int
          /\ Start(u)' \in Int /\ Start(x)' \in Int
      BY <1>0, <1>9, Numbers DEF Start, TypeOK
    <3> QED
      BY <1>2, <3>1, <3>2, <3>3
  <2> QED
    BY <1>0, <1>2, <1>8, <2>1, <2>2 DEF SlotsInv
<1>12. WritersInv'
  <2>1. pc'[t] = "poll" => process'[t] = Start(t)' /\ cache'[t] = remain'[t] /\ remain'[t] <= cache'[t]
    BY <1>6, <1>7, <1>8, <1>10
  <2> QED
    BY <1>0, <1>7, <1>8, <1>10, <2>1 DEF WritersInv
(* Ownership is lost for the bytes of the write only. *)
<1>13. \A x \in Tasks, b \in Bytes : Owns(x, b)' => Owns(x, b)
  <2> SUFFICES ASSUME NEW x \in Tasks, NEW b \in Bytes, Owns(x, b)' PROVE Owns(x, b)
    OBVIOUS
  <2>1. CASE x = t
    <3>1. Start(t)' <= b /\ b < end[t] /\ pc[t] # "free"
      BY <1>1, <1>2, <2>1 DEF Owns
    <3> QED
      BY <1>5, <1>6, <1>10, <2>1, <3>1, Sizes DEF Owns, Bytes
  <2>2. CASE x # t
    BY <1>2, <1>8, <1>10, <2>2 DEF Owns
  <2> QED
    BY <2>1, <2>2
<1>14. ASSUME NEW x \in Tasks, NEW b \in Unwritten', Owns(x, b) PROVE Owns(x, b)'
  <2>1. b \in Bytes /\ b \notin InFlight(t)
    BY <1>3 DEF Unwritten
  <2>2. CASE x = t
    <3>1. b \notin process[t] .. process[t] + cut[t] - 1
      BY <1>1, <2>1 DEF InFlight
    <3>2. process[t] <= b /\ b < end[t] /\ b \in Int
      BY <1>10, <1>14, <2>1, <2>2, Sizes DEF Owns, Bytes
    <3>3. p <= b
      BY <1>5, <3>1, <3>2 DEF p
    <3> QED
      BY <1>1, <1>2, <1>8, <1>10, <2>2, <3>2, <3>3 DEF Owns
  <2>3. CASE x # t
    BY <1>2, <1>8, <1>10, <1>14, <2>3 DEF Owns
  <2> QED
    BY <2>2, <2>3
<1>15. UnwrittenOwned'
  <2> SUFFICES ASSUME mode = "up", NEW b \in Unwritten' PROVE \E x \in Tasks : Owns(x, b)'
    BY <1>2 DEF UnwrittenOwned
  <2>1. PICK x \in Tasks : Owns(x, b)
    BY <1>3 DEF IInv, UnwrittenOwned
  <2> QED
    BY <1>14, <2>1
<1>16. Covered(saved)' = Covered(saved) /\ Covered(draft)' = Covered(draft)
  BY <1>2 DEF Covered
<1>17. SavedInv'
  BY <1>2, <1>3, <1>13, <1>16 DEF IInv, SavedInv, UnwrittenSaved
<1>18. DraftInv'
  <2> SUFFICES ASSUME lock = "save" PROVE DraftInv'
    BY <1>2 DEF DraftInv
  <2>0. \A x \in todo : x \in Tasks
    BY <1>0 DEF TypeOK
  <2>1. /\ \A x \in todo : pc[x] # "free"
        /\ Covered(draft) \subseteq Covered(saved)
        /\ \A s, z \in draft : s # z => Apart(s, z)
        /\ \A s \in draft, x \in todo : s.start + s.remain <= Start(x) \/ end[x] <= s.start
        /\ \A x \in Tasks \ todo, b \in Bytes : Owns(x, b) => b \in Covered(draft)
    BY DEF IInv, DraftInv
  <2>2. ASSUME NEW s \in draft, NEW x \in todo
        PROVE  s.start + s.remain <= Start(x)' \/ end[x] <= s.start
    <3>1. s.start + s.remain \in Int
      BY <1>0, Sizes DEF TypeOK, Segment, Bytes
    <3>2. Start(x)' >= Start(x) /\ Start(x) \in Int /\ Start(x)' \in Int
      BY <1>0, <1>9, <1>10, <2>0, Numbers DEF Start, TypeOK
    <3> HIDE DEF TypeOK
    <3> QED
      BY <2>1, <3>1, <3>2
  <2>3. \A x \in todo : pc'[x] # "free"
    BY <1>8, <2>0, <2>1
  <2> QED
    BY <1>2, <1>13, <1>16, <2>1, <2>2, <2>3 DEF DraftInv
<1>19. HonestInv'
  BY <1>0, <1>3, <1>8 DEF HonestInv
<1> QED
  BY <1>9, <1>11, <1>12, <1>15, <1>17, <1>18, <1>19 DEF IInv

-----------------------------------------------------------------------------
(* The driver's steps. *)

LEMMA RetryInv ==
  ASSUME IInv, NEW t \in Tasks, Retry(t)
  PROVE  IInv'
<1>0. TypeOK /\ WritersInv
  BY DEF IInv
<1>1. /\ pc[t] \in {"returned", "stopped"} /\ pc' = [pc EXCEPT ![t] = "request"]
      /\ UNCHANGED <<file, saved, mode, slots, writer, saving>>
  BY DEF Retry
<1>2. file' = file /\ saved' = saved /\ mode' = mode /\ end' = end /\ remain' = remain
      /\ process' = process /\ cache' = cache /\ cut' = cut /\ body' = body
      /\ lock' = lock /\ todo' = todo /\ draft' = draft
  BY <1>1 DEF slots, writer, saving
<1>3. TypeOK'
  BY <1>0, <1>1, <1>2 DEF TypeOK, Segment, Bytes
<1>4. \A x \in Tasks : pc'[x] = "free" <=> pc[x] = "free"
  BY <1>0, <1>1 DEF TypeOK
<1>5. Unwritten' \subseteq Unwritten /\ HonestInv'
  BY <1>2 DEF Unwritten, IInv, HonestInv, FileRight
<1>6. SlotsInv' /\ UnwrittenOwned' /\ SavedInv' /\ DraftInv'
  BY <1>1, <1>4, <1>5, Calm
<1>7. WritersInv'
  <2>1. \A x \in Tasks : Start(x)' = Start(x)
    BY <1>2 DEF Start
  <2>2. \A x \in Tasks \ {t} : pc'[x] = pc[x]
    BY <1>0, <1>1 DEF TypeOK
  <2>3. pc'[t] = "request"
    BY <1>0, <1>1 DEF TypeOK
  <2> QED
    BY <1>0, <1>1, <1>2, <2>1, <2>2, <2>3 DEF WritersInv
<1> QED
  BY <1>3, <1>5, <1>6, <1>7 DEF IInv

(* A slot without bytes owns none. *)
LEMMA HandInInv ==
  ASSUME IInv, NEW t \in Tasks, HandIn(t)
  PROVE  IInv'
<1>0. TypeOK /\ WritersInv /\ SlotsInv
  BY DEF IInv
<1>1. /\ lock = "free" /\ pc[t] \in {"returned", "stopped"} /\ remain[t] = 0
      /\ pc' = [pc EXCEPT ![t] = "free"]
      /\ end' = [end EXCEPT ![t] = 0] /\ remain' = [remain EXCEPT ![t] = 0]
      /\ UNCHANGED <<file, saved, mode, writer, saving>>
  BY DEF HandIn
<1>2. file' = file /\ saved' = saved /\ mode' = mode
      /\ process' = process /\ cache' = cache /\ cut' = cut /\ body' = body
      /\ lock' = lock /\ todo' = todo /\ draft' = draft
  BY <1>1 DEF writer, saving
<1>3. TypeOK'
  BY <1>0, <1>1, <1>2, Sizes DEF TypeOK, Segment, Bytes
<1>4. /\ pc'[t] = "free" /\ end'[t] = 0 /\ remain'[t] = 0
      /\ \A x \in Tasks \ {t} : pc'[x] = pc[x] /\ end'[x] = end[x] /\ remain'[x] = remain[x]
  BY <1>0, <1>1 DEF TypeOK
<1>5. \A x \in Tasks \ {t} : Start(x)' = Start(x)
  BY <1>4 DEF Start
<1>6. Unwritten' = Unwritten /\ HonestInv' /\ Covered(saved)' = Covered(saved)
  BY <1>2 DEF Unwritten, IInv, HonestInv, FileRight, Covered
<1>7. SlotsInv'
  BY <1>0, <1>2, <1>4, <1>5 DEF SlotsInv
<1>8. WritersInv'
  <2>1. cut[t] = 0
    BY <1>0, <1>1 DEF WritersInv
  <2> QED
    BY <1>0, <1>2, <1>4, <1>5, <2>1 DEF WritersInv
<1>9. ASSUME NEW x \in Tasks, NEW b \in Bytes PROVE Owns(x, b)' <=> Owns(x, b)
  <2>1. CASE x = t
    <3>1. Start(t) = end[t] /\ end[t] \in Int /\ b \in Int
      BY <1>0, <1>1, Numbers, Sizes DEF Start, Bytes
    <3>2. ~Owns(t, b)
      BY <3>1 DEF Owns
    <3>3. ~Owns(t, b)'
      BY <1>4 DEF Owns
    <3> QED
      BY <2>1, <3>2, <3>3
  <2>2. CASE x # t
    BY <1>4, <1>5, <2>2 DEF Owns
  <2> QED
    BY <2>1, <2>2
<1>10. UnwrittenOwned'
  <2>1. \A b \in Unwritten : b \in Bytes
    BY DEF Unwritten
  <2> QED
    BY <1>2, <1>6, <1>9, <2>1 DEF IInv, UnwrittenOwned
<1>11. SavedInv'
  BY <1>2, <1>6, <1>9 DEF IInv, SavedInv, UnwrittenSaved
<1>12. DraftInv'
  BY <1>1, <1>2 DEF DraftInv
<1> QED
  BY <1>3, <1>6, <1>7, <1>8, <1>10, <1>11, <1>12 DEF IInv

(* The range is cut in two.  What is left of it is at least a chunk, which *)
(* the writer that does not know yet cannot exceed.                        *)
LEMMA SplitInv ==
  ASSUME IInv, NEW t \in Tasks, NEW n \in 1 .. Size, NEW u \in Tasks, Split(t, n, u)
  PROVE  IInv'
<1>0. TypeOK /\ WritersInv /\ SlotsInv
  BY DEF IInv
<1>1. /\ lock = "free" /\ pc[t] # "free" /\ pc[u] = "free"
      /\ remain[t] - n >= MaxChunk
      /\ pc' = [pc EXCEPT ![u] = "request"]
      /\ end' = [end EXCEPT ![t] = end[t] - n, ![u] = end[t]]
      /\ remain' = [remain EXCEPT ![t] = remain[t] - n, ![u] = n]
      /\ UNCHANGED <<file, saved, mode, writer, saving>>
  BY DEF Split
<1>2. file' = file /\ saved' = saved /\ mode' = mode
      /\ process' = process /\ cache' = cache /\ cut' = cut /\ body' = body
      /\ lock' = lock /\ todo' = todo /\ draft' = draft
  BY <1>1 DEF writer, saving
<1>3. t # u
  BY <1>1
<1>4. /\ end[t] \in 0 .. Size /\ remain[t] \in 0 .. Size /\ cache[t] \in 0 .. Size
      /\ remain[t] <= end[t]
  BY <1>0, Numbers DEF SlotsInv
<1>5. end[t] - n \in 0 .. Size /\ remain[t] - n \in 0 .. Size /\ n \in 0 .. Size
  BY <1>1, <1>4, Sizes
<1>6. /\ end'[t] = end[t] - n /\ remain'[t] = remain[t] - n /\ pc'[t] = pc[t]
      /\ end'[u] = end[t] /\ remain'[u] = n /\ pc'[u] = "request"
      /\ \A x \in Tasks \ {t, u} : pc'[x] = pc[x] /\ end'[x] = end[x] /\ remain'[x] = remain[x]
  BY <1>0, <1>1, <1>3 DEF TypeOK
<1>7. TypeOK'
  <2>1. end' \in [Tasks -> 0 .. Size] /\ remain' \in [Tasks -> 0 .. Size]
    BY <1>0, <1>1, <1>4, <1>5 DEF TypeOK
  <2> QED
    BY <1>0, <1>1, <1>2, <2>1 DEF TypeOK, Segment, Bytes
<1>8. /\ Start(t)' = Start(t) /\ Start(u)' = end[t] - n /\ end'[t] = Start(u)'
      /\ \A x \in Tasks \ {t, u} : Start(x)' = Start(x)
  BY <1>4, <1>5, <1>6 DEF Start
<1>9. Unwritten' = Unwritten /\ HonestInv' /\ Covered(saved)' = Covered(saved)
  BY <1>2 DEF Unwritten, IInv, HonestInv, FileRight, Covered
<1>10. SlotsInv'
  <2>1. \A x \in Tasks : remain'[x] <= end'[x]
    BY <1>0, <1>4, <1>5, <1>6 DEF SlotsInv
  <2>2. mode' = "up"
    BY <1>0, <1>1, <1>2 DEF SlotsInv, TypeOK
  <2>3. ASSUME NEW x \in Tasks, NEW y \in Tasks, x # y, pc'[x] # "free", pc'[y] # "free"
        PROVE  end'[x] <= Start(y)' \/ end'[y] <= Start(x)'
    <3>1. \A z \in Tasks : z \notin {t, u} /\ pc[z] # "free" => end[z] <= Start(t) \/ end[t] <= Start(z)
      BY <1>0, <1>1 DEF SlotsInv
    <3>2. \A z \in Tasks : end[z] \in Int /\ Start(z) \in Int
      BY <1>0, Numbers DEF Start
    <3>3. Start(t) <= end[t] - n /\ n \in Nat
      BY <1>4, <1>5 DEF Start
    <3>4. \A z \in Tasks \ {t, u} : pc'[z] # "free" =>
            /\ end'[z] <= Start(t)' \/ end'[t] <= Start(z)'
            /\ end'[z] <= Start(u)' \/ end'[u] <= Start(z)'
      BY <1>6, <1>8, <3>1, <3>2, <3>3
    <3>5. CASE x \notin {t, u} /\ y \notin {t, u}
      BY <1>0, <1>6, <1>8, <2>3, <3>5 DEF SlotsInv
    <3>6. end'[t] <= Start(u)'
      BY <1>5, <1>8
    <3> QED
      BY <2>3, <3>4, <3>5, <3>6
  <2> QED
    BY <1>1, <1>2, <2>1, <2>2, <2>3 DEF SlotsInv
<1>11. WritersInv'
  <2>0. cut[u] = 0
    BY <1>0, <1>1 DEF WritersInv
  <2>1. pc[t] \in {"poll", "write"} =>
          /\ process[t] = Start(t)' /\ remain'[t] <= cache[t]
          /\ cache[t] # remain'[t] => MaxChunk <= remain'[t]
    BY <1>0, <1>1, <1>4, <1>5, <1>6, <1>8, Sizes DEF WritersInv
  <2> QED
    BY <1>0, <1>2, <1>6, <1>8, <2>0, <2>1 DEF WritersInv
<1>12. ASSUME NEW b \in Bytes
       PROVE  /\ \A x \in Tasks \ {t, u} : Owns(x, b)' <=> Owns(x, b)
              /\ Owns(t, b)' \/ Owns(u, b)' <=> Owns(t, b)
  <2>1. \A x \in Tasks \ {t, u} : Owns(x, b)' <=> Owns(x, b)
    BY <1>6, <1>8 DEF Owns
  <2>2. b \in Int
    BY Sizes DEF Bytes
  <2>3. Owns(t, b) <=> Start(t) <= b /\ b < end[t]
    BY <1>1 DEF Owns
  <2>4. Owns(t, b)' <=> Start(t) <= b /\ b < end[t] - n
    BY <1>1, <1>6, <1>8 DEF Owns
  <2>5. Owns(u, b)' <=> end[t] - n <= b /\ b < end[t]
    BY <1>6, <1>8 DEF Owns
  <2>6. Start(t) \in Int /\ end[t] \in Int /\ Start(t) <= end[t] - n /\ n \in Nat
    BY <1>4, <1>5 DEF Start
  <2> QED
    BY <2>1, <2>2, <2>3, <2>4, <2>5, <2>6
<1>13. UnwrittenOwned'
  <2> SUFFICES ASSUME mode = "up", NEW b \in Unwritten PROVE \E x \in Tasks : Owns(x, b)'
    BY <1>2, <1>9 DEF UnwrittenOwned
  <2>1. PICK x \in Tasks : Owns(x, b)
    BY DEF IInv, UnwrittenOwned
  <2>2. b \in Bytes
    BY DEF Unwritten
  <2>3. x # u
    BY <1>1, <2>1 DEF Owns
  <2> QED
    BY <1>12, <2>1, <2>2, <2>3
<1>14. SavedInv'
  <2>1. \A x \in Tasks, b \in Bytes : Owns(x, b)' => b \in Covered(saved)
    BY <1>12 DEF IInv, SavedInv
  <2> QED
    BY <1>2, <1>9, <2>1 DEF IInv, SavedInv, UnwrittenSaved
<1>15. DraftInv'
  BY <1>1, <1>2 DEF DraftInv
<1> QED
  BY <1>7, <1>9, <1>10, <1>11, <1>13, <1>14, <1>15 DEF IInv

(* A step that only changes what is saved or about to be. *)
LEMMA SavingStep ==
  ASSUME IInv, UNCHANGED <<file, mode, pc, slots, writer>>,
         lock' \in {"free", "save"}, todo' \subseteq Tasks, draft' \subseteq Segment,
         saved' \subseteq Segment, lock' = "save" => mode = "up"
  PROVE  /\ TypeOK' /\ SlotsInv' /\ WritersInv' /\ HonestInv' /\ UnwrittenOwned'
         /\ \A t \in Tasks, b \in Bytes : Owns(t, b)' <=> Owns(t, b)
         /\ \A t \in Tasks : Start(t)' = Start(t)
         /\ Unwritten' = Unwritten
<1>1. file' = file /\ mode' = mode /\ pc' = pc /\ end' = end /\ remain' = remain
      /\ process' = process /\ cache' = cache /\ cut' = cut /\ body' = body
  BY DEF slots, writer
<1>2. \A t \in Tasks : Start(t)' = Start(t)
  BY <1>1 DEF Start
<1>3. \A t \in Tasks, b \in Bytes : Owns(t, b)' <=> Owns(t, b)
  BY <1>1, <1>2 DEF Owns
<1>4. TypeOK'
  BY <1>1 DEF IInv, TypeOK, Segment, Bytes
<1>5. SlotsInv' /\ WritersInv'
  BY <1>1, <1>2 DEF IInv, SlotsInv, WritersInv
<1>6. HonestInv' /\ Unwritten' = Unwritten
  BY <1>1 DEF IInv, HonestInv, FileRight, Unwritten
<1>7. UnwrittenOwned'
  <2>1. \A b \in Unwritten : b \in Bytes
    BY DEF Unwritten
  <2> QED
    BY <1>1, <1>3, <1>6, <2>1 DEF IInv, UnwrittenOwned
<1> QED
  BY <1>2, <1>3, <1>4, <1>5, <1>6, <1>7

LEMMA BeginSaveInv == IInv /\ BeginSave => IInv'
<1> SUFFICES ASSUME IInv, BeginSave PROVE IInv'
  OBVIOUS
<1>1. /\ mode = "up" /\ lock = "free"
      /\ lock' = "save" /\ todo' = {t \in Tasks : pc[t] # "free"} /\ draft' = {}
      /\ UNCHANGED <<file, mode, pc, slots, writer>> /\ saved' = saved /\ pc' = pc
  BY DEF BeginSave
<1>2. saved \subseteq Segment
  BY DEF IInv, TypeOK
<1>3. /\ TypeOK' /\ SlotsInv' /\ WritersInv' /\ HonestInv' /\ UnwrittenOwned'
      /\ \A t \in Tasks, b \in Bytes : Owns(t, b)' <=> Owns(t, b)
      /\ Unwritten' = Unwritten
  BY <1>1, <1>2, SavingStep
<1>4. Covered(saved)' = Covered(saved) /\ Covered(draft)' = {}
  BY <1>1 DEF Covered
<1>5. SavedInv'
  BY <1>1, <1>3, <1>4 DEF IInv, SavedInv, UnwrittenSaved
<1>6. DraftInv'
  BY <1>1, <1>4 DEF DraftInv, Owns
<1> QED
  BY <1>3, <1>5, <1>6 DEF IInv

(* The slot's range becomes a segment of the draft. *)
LEMMA SaveSlotInv ==
  ASSUME IInv, NEW t \in Tasks, SaveSlot(t)
  PROVE  IInv'
<1> DEFINE new == [start |-> Start(t), remain |-> remain[t]]
<1>0. TypeOK /\ SlotsInv
  BY DEF IInv
<1>1. /\ lock = "save" /\ t \in todo /\ todo' = todo \ {t} /\ lock' = lock
      /\ draft' = draft \cup (IF remain[t] = 0 THEN {} ELSE {new})
      /\ saved' = saved
      /\ UNCHANGED <<file, mode, pc, slots, writer>>
  BY DEF SaveSlot
<1>2. /\ \A x \in todo : pc[x] # "free"
      /\ Covered(draft) \subseteq Covered(saved)
      /\ \A s, z \in draft : s # z => Apart(s, z)
      /\ \A s \in draft, x \in todo : s.start + s.remain <= Start(x) \/ end[x] <= s.start
      /\ \A x \in Tasks \ todo, b \in Bytes : Owns(x, b) => b \in Covered(draft)
  BY <1>1 DEF IInv, DraftInv
<1>3. /\ end[t] \in 0 .. Size /\ remain[t] \in 0 .. Size /\ remain[t] <= end[t]
      /\ Start(t) \in Int /\ Start(t) + remain[t] = end[t]
  BY <1>0, Numbers DEF SlotsInv, Start
<1>4. new.start = Start(t) /\ new.remain = remain[t] /\ new.start + new.remain = end[t]
  BY <1>3
<1>5. remain[t] # 0 => new \in Segment
  <2> SUFFICES ASSUME remain[t] # 0 PROVE new \in Segment
    OBVIOUS
  <2>1. Start(t) \in 0 .. Size - 1 /\ remain[t] \in 1 .. Size /\ Start(t) + remain[t] <= Size
    BY <1>3, Sizes DEF Start
  <2> QED
    BY <2>1 DEF Segment, Bytes
<1> HIDE DEF new
<1>6. draft' \subseteq Segment /\ saved' \subseteq Segment /\ todo' \subseteq Tasks
  BY <1>0, <1>1, <1>5 DEF TypeOK
<1>7. /\ TypeOK' /\ SlotsInv' /\ WritersInv' /\ HonestInv' /\ UnwrittenOwned'
      /\ \A x \in Tasks, b \in Bytes : Owns(x, b)' <=> Owns(x, b)
      /\ \A x \in Tasks : Start(x)' = Start(x)
      /\ Unwritten' = Unwritten
  BY <1>0, <1>1, <1>6, SavingStep DEF SlotsInv
<1>8. Covered(saved)' = Covered(saved) /\ end' = end /\ pc' = pc
  BY <1>1 DEF Covered, slots
<1>9. \A b \in Bytes : Covers(new, b) <=> Owns(t, b)
  BY <1>1, <1>2, <1>4 DEF Covers, Owns
<1>10. \A b \in Bytes : Owns(t, b) => remain[t] # 0
  BY <1>3, Sizes DEF Owns, Bytes
<1>11. \A b \in Bytes : b \in Covered(draft)' <=> b \in Covered(draft) \/ Owns(t, b)
  <2>1. \A b \in Bytes : b \in Covered(draft)' <=> \E s \in draft' : Covers(s, b)
    BY DEF Covered
  <2>2. \A b \in Bytes : b \in Covered(draft) <=> \E s \in draft : Covers(s, b)
    BY DEF Covered
  <2> QED
    BY <1>1, <1>9, <1>10, <2>1, <2>2
<1>12. SavedInv'
  BY <1>1, <1>7, <1>8 DEF IInv, SavedInv, UnwrittenSaved
<1>13. ASSUME remain[t] # 0, NEW x \in Tasks, x # t, x \in todo
       PROVE  end[t] <= Start(x) \/ end[x] <= Start(t)
  BY <1>0, <1>1, <1>2, <1>13 DEF SlotsInv
<1>14. DraftInv'
  <2>1. \A x \in todo' : pc'[x] # "free"
    BY <1>1, <1>2, <1>8
  <2>2. Covered(draft)' \subseteq Covered(saved)'
    <3>1. \A b \in Covered(draft)' : b \in Bytes
      BY DEF Covered
    <3>2. \A b \in Bytes : Owns(t, b) => b \in Covered(saved)
      BY DEF IInv, SavedInv
    <3> QED
      BY <1>2, <1>8, <1>11, <3>1, <3>2
  <2>3. \A s \in draft' : s \in draft \/ (s = new /\ remain[t] # 0)
    BY <1>1
  <2>4. \A s, z \in draft' : s # z => Apart(s, z)
    <3>1. \A s \in draft : Apart(s, new) /\ Apart(new, s)
      BY <1>1, <1>2, <1>4 DEF Apart
    <3> QED
      BY <1>2, <2>3, <3>1
  <2>5. \A s \in draft', x \in todo' : s.start + s.remain <= Start(x)' \/ end'[x] <= s.start
    <3>1. \A x \in todo' : x \in todo /\ x \in Tasks /\ x # t
      BY <1>0, <1>1 DEF TypeOK
    <3> QED
      BY <1>2, <1>4, <1>7, <1>8, <1>13, <2>3, <3>1
  <2>6. \A x \in Tasks \ todo', b \in Bytes : Owns(x, b)' => b \in Covered(draft)'
    BY <1>1, <1>2, <1>7, <1>11
  <2> QED
    BY <2>1, <2>2, <2>4, <2>5, <2>6 DEF DraftInv
<1> QED
  BY <1>7, <1>12, <1>14 DEF IInv

(* Every slot was read: the draft covers all that the slots cover. *)
LEMMA EndSaveInv == IInv /\ EndSave => IInv' /\ Unwritten' = Unwritten
                                     /\ Unwritten \subseteq Covered(saved)'
                                     /\ Covered(saved)' \subseteq Covered(saved)
<1> SUFFICES ASSUME IInv, EndSave
             PROVE  /\ IInv' /\ Unwritten' = Unwritten
                    /\ Unwritten \subseteq Covered(saved)'
                    /\ Covered(saved)' \subseteq Covered(saved)
  OBVIOUS
<1>0. TypeOK /\ SlotsInv
  BY DEF IInv
<1>1. /\ lock = "save" /\ todo = {} /\ saved' = draft /\ lock' = "free" /\ draft' = {}
      /\ UNCHANGED <<file, mode, pc, slots, writer>> /\ todo' = todo
  BY DEF EndSave
<1>2. /\ Covered(draft) \subseteq Covered(saved)
      /\ \A s, z \in draft : s # z => Apart(s, z)
      /\ \A x \in Tasks, b \in Bytes : Owns(x, b) => b \in Covered(draft)
  BY <1>1 DEF IInv, DraftInv
<1>3. draft' \subseteq Segment /\ saved' \subseteq Segment /\ todo' \subseteq Tasks
  BY <1>0, <1>1 DEF TypeOK
<1>4. /\ TypeOK' /\ SlotsInv' /\ WritersInv' /\ HonestInv' /\ UnwrittenOwned'
      /\ \A x \in Tasks, b \in Bytes : Owns(x, b)' <=> Owns(x, b)
      /\ Unwritten' = Unwritten
  BY <1>1, <1>3, SavingStep
<1>5. Covered(saved)' = Covered(draft)
  BY <1>1 DEF Covered
<1>6. Unwritten \subseteq Covered(draft)
  <2> SUFFICES ASSUME NEW b \in Unwritten PROVE b \in Covered(draft)
    OBVIOUS
  <2>1. b \in Bytes /\ mode = "up"
    BY <1>0, <1>1 DEF Unwritten, SlotsInv
  <2> QED
    BY <1>2, <2>1 DEF IInv, UnwrittenOwned
<1>7. SavedInv'
  BY <1>1, <1>2, <1>4, <1>5, <1>6 DEF SavedInv, UnwrittenSaved
<1>8. DraftInv'
  BY <1>1 DEF DraftInv
<1> QED
  BY <1>2, <1>4, <1>5, <1>6, <1>7, <1>8 DEF IInv

(* All pieces of all stored segments lie apart and cover them. *)
LEMMA AllPieces ==
  ASSUME saved \subseteq Segment, NEW n \in Nat \ {0},
         \A s, z \in saved : s # z => Apart(s, z)
  PROVE  LET P == UNION {Pieces(s, n) : s \in saved} IN
         /\ \A p \in P : p \in Segment
         /\ \A p, q \in P : p # q => Apart(p, q)
         /\ \A b \in Bytes : b \in Covered(saved) <=> \E p \in P : Covers(p, b)
<1> DEFINE P == UNION {Pieces(s, n) : s \in saved}
<1>1. \A p \in P : \E s \in saved : p \in Pieces(s, n)
  OBVIOUS
<1>2. \A s \in saved : \A p \in Pieces(s, n) : p \in P
  OBVIOUS
<1> HIDE DEF P
<1>3. \A s \in saved :
         /\ \A p \in Pieces(s, n) :
              /\ p \in Segment
              /\ s.start <= p.start /\ p.start + p.remain <= s.start + s.remain
         /\ \A p, q \in Pieces(s, n) : p # q => Apart(p, q)
         /\ \A b \in Bytes : Covers(s, b) => \E p \in Pieces(s, n) : Covers(p, b)
  BY FilePieces
<1>0. \A s \in Segment : s.start \in Nat /\ s.remain \in Nat
  BY Sizes DEF Segment, Bytes
<1>4. \A p \in P : p \in Segment
  BY <1>1, <1>3
<1>5. ASSUME NEW p \in P, NEW q \in P, p # q PROVE Apart(p, q)
  <2>1. PICK s \in saved : p \in Pieces(s, n)
    BY <1>1
  <2>2. PICK z \in saved : q \in Pieces(z, n)
    BY <1>1
  <2>3. CASE s = z
    BY <1>3, <1>5, <2>1, <2>2, <2>3
  <2>4. CASE s # z
    <3>1. Apart(s, z)
      BY <2>4
    <3>2. /\ s.start <= p.start /\ p.start + p.remain <= s.start + s.remain
          /\ z.start <= q.start /\ q.start + q.remain <= z.start + z.remain
      BY <1>3, <2>1, <2>2
    <3>3. /\ s.start \in Nat /\ s.remain \in Nat /\ z.start \in Nat /\ z.remain \in Nat
          /\ p.start \in Nat /\ p.remain \in Nat /\ q.start \in Nat /\ q.remain \in Nat
      BY <1>0, <1>4
    <3> QED
      BY <3>1, <3>2, <3>3 DEF Apart
  <2> QED
    BY <2>3, <2>4
<1>6. ASSUME NEW b \in Bytes PROVE b \in Covered(saved) <=> \E p \in P : Covers(p, b)
  <2>1. b \in Covered(saved) <=> \E s \in saved : Covers(s, b)
    BY DEF Covered
  <2>2. ASSUME NEW s \in saved, Covers(s, b) PROVE \E p \in P : Covers(p, b)
    BY <1>2, <1>3, <2>2
  <2>3. ASSUME NEW p \in P, Covers(p, b) PROVE \E s \in saved : Covers(s, b)
    <3>1. PICK s \in saved : p \in Pieces(s, n)
      BY <1>1
    <3>2. /\ p.start <= b /\ b < p.start + p.remain
          /\ s.start <= p.start /\ p.start + p.remain <= s.start + s.remain
      BY <1>3, <2>3, <3>1 DEF Covers
    <3>3. /\ s.start \in Nat /\ s.remain \in Nat /\ p.start \in Nat /\ p.remain \in Nat /\ b \in Int
      BY <1>0, <1>4, Sizes DEF Bytes
    <3>4. Covers(s, b)
      BY <3>2, <3>3 DEF Covers
    <3> QED
      BY <3>4
  <2> QED
    BY <2>1, <2>2, <2>3
<1> QED
  BY <1>4, <1>5, <1>6 DEF P

(* Every piece becomes the range of one task. *)
LEMMA LaunchInv ==
  ASSUME IInv, NEW n \in 1 .. MaxTimes, NEW T \in SUBSET Tasks, NEW g, Launch(n, T, g)
  PROVE  IInv'
<1> DEFINE P == UNION {Pieces(s, n) : s \in saved}
<1>0. TypeOK /\ SlotsInv /\ WritersInv /\ SavedInv
  BY DEF IInv
<1>1. /\ mode = "down" /\ g \in Bijection(T, P) /\ mode' = "up"
      /\ pc' = [t \in Tasks |-> IF t \in T THEN "request" ELSE "free"]
      /\ end' = [t \in Tasks |-> IF t \in T THEN g[t].start + g[t].remain ELSE 0]
      /\ remain' = [t \in Tasks |-> IF t \in T THEN g[t].remain ELSE 0]
      /\ UNCHANGED <<file, saved, writer, saving>>
  BY DEF Launch
<1>2. file' = file /\ saved' = saved
      /\ process' = process /\ cache' = cache /\ cut' = cut /\ body' = body
      /\ lock' = lock /\ todo' = todo /\ draft' = draft
  BY <1>1 DEF writer, saving
<1>3. n \in Nat \ {0} /\ saved \subseteq Segment /\ \A s, z \in saved : s # z => Apart(s, z)
  BY <1>0, Sizes DEF TypeOK, SavedInv
<1>4. /\ \A p \in P : p \in Segment
      /\ \A p, q \in P : p # q => Apart(p, q)
      /\ \A b \in Bytes : b \in Covered(saved) <=> \E p \in P : Covers(p, b)
  BY <1>3, AllPieces
<1> HIDE DEF P
<1>5. /\ \A t \in T : g[t] \in P
      /\ \A t, u \in T : t # u => g[t] # g[u]
      /\ \A p \in P : \E t \in T : g[t] = p
  BY <1>1 DEF Bijection, Injection, Surjection, IsInjective
<1>6. \A t \in T : /\ g[t].start \in Nat /\ g[t].remain \in 1 .. Size
                   /\ g[t].start + g[t].remain \in 0 .. Size
                   /\ g[t].start + g[t].remain - g[t].remain = g[t].start
  <2> SUFFICES ASSUME NEW t \in T
               PROVE  /\ g[t].start \in Nat /\ g[t].remain \in 1 .. Size
                      /\ g[t].start + g[t].remain \in 0 .. Size
                      /\ g[t].start + g[t].remain - g[t].remain = g[t].start
    OBVIOUS
  <2>1. /\ g[t].start \in 0 .. Size - 1 /\ g[t].remain \in 1 .. Size
        /\ g[t].start + g[t].remain <= Size
    BY <1>4, <1>5 DEF Segment, Bytes
  <2> QED
    BY <2>1, Sizes
<1>7. /\ \A t \in T : /\ pc'[t] = "request" /\ end'[t] = g[t].start + g[t].remain
                      /\ remain'[t] = g[t].remain /\ Start(t)' = g[t].start
      /\ \A t \in Tasks \ T : pc'[t] = "free" /\ end'[t] = 0 /\ remain'[t] = 0
  BY <1>1, <1>6 DEF Start
<1>8. TypeOK'
  <2>1. end' \in [Tasks -> 0 .. Size] /\ remain' \in [Tasks -> 0 .. Size]
    BY <1>1, <1>6, Sizes
  <2>2. pc' \in [Tasks -> {"free", "request", "poll", "write",
                           "returned", "stopped", "ended", "panicked"}]
    BY <1>1
  <2> QED
    BY <1>0, <1>1, <1>2, <2>1, <2>2 DEF TypeOK, Segment, Bytes
<1>9. Unwritten' = Unwritten /\ HonestInv' /\ Covered(saved)' = Covered(saved)
  BY <1>2 DEF Unwritten, IInv, HonestInv, FileRight, Covered
<1>10. lock = "free"
  BY <1>0, <1>1 DEF TypeOK, SlotsInv
<1>11. SlotsInv'
  <2>1. \A t \in Tasks : remain'[t] <= end'[t]
    BY <1>6, <1>7
  <2>2. ASSUME NEW t \in Tasks, NEW u \in Tasks, t # u, pc'[t] # "free", pc'[u] # "free"
        PROVE  end'[t] <= Start(u)' \/ end'[u] <= Start(t)'
    <3>1. t \in T /\ u \in T
      BY <1>7, <2>2
    <3>2. Apart(g[t], g[u])
      BY <1>4, <1>5, <2>2, <3>1
    <3> QED
      BY <1>7, <3>1, <3>2 DEF Apart
  <2> QED
    BY <1>1, <1>2, <1>10, <2>1, <2>2 DEF SlotsInv
<1>12. WritersInv'
  <2>1. \A t \in Tasks : pc'[t] \notin {"poll", "write"}
    BY <1>7
  <2>2. \A t \in Tasks : cut[t] = 0
    BY <1>0, <1>1 DEF WritersInv, SlotsInv
  <2> QED
    BY <1>0, <1>2, <2>1, <2>2 DEF WritersInv
<1>13. \A b \in Bytes, t \in T : Owns(t, b)' <=> Covers(g[t], b)
  BY <1>7 DEF Owns, Covers
<1>14. \A b \in Bytes, t \in Tasks : Owns(t, b)' => t \in T
  BY <1>7 DEF Owns
<1>15. UnwrittenOwned'
  <2> SUFFICES ASSUME NEW b \in Unwritten PROVE \E t \in Tasks : Owns(t, b)'
    BY <1>9 DEF UnwrittenOwned
  <2>1. b \in Bytes /\ b \in Covered(saved)
    BY <1>0 DEF Unwritten, SavedInv, UnwrittenSaved
  <2>2. PICK p \in P : Covers(p, b)
    BY <1>4, <2>1
  <2>3. PICK t \in T : g[t] = p
    BY <1>5
  <2> QED
    BY <1>13, <2>1, <2>2, <2>3
<1>16. SavedInv'
  <2>1. \A t \in Tasks, b \in Bytes : Owns(t, b)' => b \in Covered(saved)
    BY <1>4, <1>5, <1>13, <1>14
  <2> QED
    BY <1>0, <1>2, <1>9, <2>1 DEF SavedInv, UnwrittenSaved
<1>17. DraftInv'
  BY <1>2, <1>10 DEF DraftInv
<1> QED
  BY <1>8, <1>9, <1>11, <1>12, <1>15, <1>16, <1>17 DEF IInv

LEMMA CrashInv ==
  ASSUME IInv, NEW B, Crash(B)
  PROVE  IInv' /\ Unwritten' \subseteq Unwritten
<1>0. TypeOK /\ WritersInv /\ HonestInv /\ SavedInv
  BY DEF IInv
<1>1. /\ Lands(B) /\ mode' = "down"
      /\ pc' = [t \in Tasks |-> "free"] /\ body' = [t \in Tasks |-> "aligned"]
      /\ end' = [t \in Tasks |-> 0] /\ remain' = [t \in Tasks |-> 0]
      /\ process' = [t \in Tasks |-> 0] /\ cache' = [t \in Tasks |-> 0]
      /\ cut' = [t \in Tasks |-> 0]
      /\ lock' = "free" /\ todo' = {} /\ draft' = {} /\ saved' = saved
  BY DEF Crash
<1>2. /\ file' \in [Bytes -> {"missing", "right", "wrong"}]
      /\ Unwritten' \subseteq Unwritten /\ HonestInv'
  BY <1>0, <1>1, LandsWritten DEF HonestInv
<1>3. TypeOK'
  BY <1>0, <1>1, <1>2, Sizes DEF TypeOK, Segment, Bytes
<1>4. SlotsInv' /\ WritersInv' /\ UnwrittenOwned' /\ DraftInv'
  BY <1>1 DEF SlotsInv, WritersInv, UnwrittenOwned, DraftInv
<1>5. Covered(saved)' = Covered(saved)
  BY <1>1 DEF Covered
<1>6. SavedInv'
  BY <1>0, <1>1, <1>2, <1>5 DEF SavedInv, UnwrittenSaved, Owns
<1> QED
  BY <1>2, <1>3, <1>4, <1>6 DEF IInv

-----------------------------------------------------------------------------
(* The theorems. *)

LEMMA InitInv == Init => IInv /\ Unwritten = Bytes /\ Covered(saved) = Bytes
<1> SUFFICES ASSUME Init PROVE IInv /\ Unwritten = Bytes /\ Covered(saved) = Bytes
  OBVIOUS
<1> DEFINE full == [start |-> 0, remain |-> Size]
<1>1. full \in Segment /\ saved = {full}
  BY Sizes DEF Init, Segment, Bytes
<1>2. Unwritten = Bytes
  BY DEF Init, Unwritten
<1>3. Covered(saved) = Bytes
  <2>1. \A b \in Bytes : Covers(full, b)
    BY Sizes DEF Covers, Bytes
  <2> QED
    BY <1>1, <2>1 DEF Covered
<1>4. TypeOK
  BY <1>1, Sizes DEF Init, TypeOK
<1>5. SlotsInv /\ WritersInv /\ HonestInv /\ UnwrittenOwned /\ DraftInv
  BY Sizes DEF Init, SlotsInv, WritersInv, HonestInv, FileRight, UnwrittenOwned, DraftInv, Start
<1>6. SavedInv
  BY <1>1, <1>2, <1>3 DEF SavedInv, UnwrittenSaved
<1> QED
  BY <1>2, <1>3, <1>4, <1>5, <1>6 DEF IInv

LEMMA StutterInv == IInv /\ UNCHANGED vars => IInv'
<1> SUFFICES ASSUME IInv, UNCHANGED vars PROVE IInv'
  OBVIOUS
<1>0. UNCHANGED <<file, mode, pc, slots, writer>> /\ UNCHANGED <<saved, mode, slots, saving>>
  BY DEF vars
<1>1. file' = file /\ saved' = saved /\ mode' = mode /\ pc' = pc
      /\ lock' = lock /\ todo' = todo /\ draft' = draft
  BY DEF vars, saving
<1>2. /\ lock' \in {"free", "save"} /\ todo' \subseteq Tasks /\ draft' \subseteq Segment
      /\ saved' \subseteq Segment
      /\ lock' = "save" => mode = "up"
  BY <1>1 DEF IInv, TypeOK, SlotsInv
<1>3. /\ TypeOK' /\ SlotsInv' /\ WritersInv' /\ HonestInv' /\ UnwrittenOwned'
      /\ Unwritten' \subseteq Unwritten
  BY <1>0, <1>2, SavingStep
<1>4. SavedInv' /\ DraftInv'
  BY <1>0, <1>1, <1>3, Calm
<1> QED
  BY <1>3, <1>4 DEF IInv

LEMMA TaskInv ==
  ASSUME IInv, NEW t \in Tasks, TaskStep(t)
  PROVE  IInv'
<1>1. CASE \E status \in Statuses, only_partical \in BOOLEAN, range \in Ranges :
             Answer(t, status, only_partical, range)
  BY <1>1, AnswerInv
<1>2. CASE \E len \in 0 .. MaxChunk : Chunk(t, len)
  BY <1>2, ChunkInv
<1>3. CASE WriteDone(t)
  BY <1>3, WriteDoneInv
<1>4. CASE \E B \in SUBSET InFlight(t) : WriteStops(t, B)
  BY <1>4, WriteStopsInv
<1>5. CASE StreamEnds(t)
  BY <1>5, LeavesQuietly DEF StreamEnds
<1>6. CASE NetworkFails(t)
  BY <1>6, LeavesQuietly DEF NetworkFails
<1> QED
  BY <1>1, <1>2, <1>3, <1>4, <1>5, <1>6 DEF TaskStep

LEMMA DriverInv ==
  ASSUME IInv, NEW t \in Tasks, DriverStep(t)
  PROVE  IInv'
<1>1. CASE HandIn(t)    BY <1>1, HandInInv
<1>2. CASE Retry(t)     BY <1>2, RetryInv
<1>3. CASE SaveSlot(t)  BY <1>3, SaveSlotInv
<1>4. CASE \E n \in 1 .. Size, u \in Tasks : Split(t, n, u)
  BY <1>4, SplitInv
<1> QED
  BY <1>1, <1>2, <1>3, <1>4 DEF DriverStep

LEMMA NextInv == IInv /\ [Next]_vars => IInv'
<1> SUFFICES ASSUME IInv, [Next]_vars PROVE IInv'
  OBVIOUS
<1>1. ASSUME NEW t \in Tasks, TaskStep(t) \/ DriverStep(t) PROVE IInv'
  BY <1>1, TaskInv, DriverInv
<1>2. CASE \E n \in 1 .. MaxTimes, T \in SUBSET Tasks :
             \E g \in Bijection(T, UNION {Pieces(s, n) : s \in saved}) : Launch(n, T, g)
  BY <1>2, LaunchInv
<1>3. CASE BeginSave \/ EndSave
  BY <1>3, BeginSaveInv, EndSaveInv
<1>4. CASE \E B \in SUBSET UNION {InFlight(t) : t \in Tasks} : Crash(B)
  BY <1>4, CrashInv
<1>5. CASE Complete \/ UNCHANGED vars
  BY <1>5, StutterInv DEF Complete
<1> QED
  BY <1>1, <1>2, <1>3, <1>4, <1>5 DEF Next

LEMMA InductiveInv == Spec => []IInv
<1>1. Init => IInv
  BY InitInv
<1> QED
  BY <1>1, NextInv, PTL DEF Spec

(* No counter, position or segment leaves the file, however slots are cut. *)
THEOREM SessionTypeCorrect == Spec => []TypeOK
<1>1. IInv => TypeOK
  BY DEF IInv
<1> QED
  BY <1>1, InductiveInv, PTL

(* With honest servers what is missing is what nobody has written. *)
LEMMA MissingIsUnwritten ==
  ASSUME Ranges = {"asked"}, IInv
  PROVE  Missing = Unwritten
BY DEF IInv, HonestInv, TypeOK, FileRight, Missing, Unwritten

(* While the program is up, somebody owns every byte that is missing.      *)
THEOREM NothingForgotten ==
  ASSUME Ranges = {"asked"}
  PROVE  Spec => []MissingOwned
<1>1. IInv => MissingOwned
  BY MissingIsUnwritten DEF IInv, UnwrittenOwned, MissingOwned
<1> QED
  BY <1>1, InductiveInv, PTL

(* Whenever the program is killed, what is stored asks for all that is     *)
(* missing.                                                                *)
THEOREM KilledAnywhere ==
  ASSUME Ranges = {"asked"}
  PROVE  Spec => []MissingSaved
<1>1. IInv => MissingSaved
  BY MissingIsUnwritten DEF IInv, SavedInv, UnwrittenSaved, MissingSaved
<1> QED
  BY <1>1, InductiveInv, PTL

(* Whatever range servers send: what is stored asks for every byte that    *)
(* nobody has written.                                                     *)
THEOREM UnwrittenKept == Spec => []UnwrittenSaved
<1>1. IInv => UnwrittenSaved
  BY DEF IInv, SavedInv
<1> QED
  BY <1>1, InductiveInv, PTL

(* Writes in flight never meet. *)
THEOREM WritesApart == Spec => []OneWriter
<1>1. ASSUME IInv PROVE OneWriter
  <2>0. TypeOK /\ WritersInv /\ SlotsInv
    BY <1>1 DEF IInv
  <2>1. \A t \in Tasks : \A b \in InFlight(t) : Owns(t, b)
    BY <2>0, FlightOwned
  <2>2. ASSUME NEW t \in Tasks, NEW u \in Tasks \ {t}, NEW b \in InFlight(t), b \in InFlight(u)
        PROVE  FALSE
    <3>1. Owns(t, b) /\ Owns(u, b) /\ b \in Bytes
      BY <2>0, <2>2, FlightOwned
    <3>2. end[t] <= Start(u) \/ end[u] <= Start(t)
      BY <2>0, <3>1 DEF SlotsInv, Owns
    <3>3. /\ Start(t) <= b /\ b < end[t] /\ Start(u) <= b /\ b < end[u] /\ b \in Int
          /\ end[t] \in Int /\ end[u] \in Int /\ Start(t) \in Int /\ Start(u) \in Int
      BY <2>0, <3>1, Numbers, Sizes DEF Owns, Bytes, Start
    <3> QED
      BY <3>2, <3>3
  <2> QED
    BY <2>1, <2>2 DEF OneWriter
<1> QED
  BY <1>1, InductiveInv, PTL

(* Writer, end and counter of a running task agree after any splits. *)
THEOREM StaysInStep == Spec => []ProcessInStep
<1>1. IInv => ProcessInStep
  BY DEF IInv, WritersInv, ProcessInStep
<1> QED
  BY <1>1, InductiveInv, PTL

-----------------------------------------------------------------------------
(* The session implements ResumableFile. *)

LEMMA InitFile ==
  ASSUME Ranges = {"asked"}
  PROVE  Init => File!Init
BY InitInv, MissingIsUnwritten DEF File!Init

(* Steps of a task never add to what is missing and leave what is stored.  *)
LEMMA TaskFile ==
  ASSUME IInv, NEW t \in Tasks, TaskStep(t)
  PROVE  Unwritten' \subseteq Unwritten /\ saved' = saved
<1>0. TypeOK /\ HonestInv
  BY DEF IInv
<1>1. ASSUME file' = file PROVE Unwritten' \subseteq Unwritten
  BY <1>1 DEF Unwritten
<1>2. CASE \E status \in Statuses, only_partical \in BOOLEAN, range \in Ranges :
             Answer(t, status, only_partical, range)
  BY <1>1, <1>2 DEF Answer
<1>3. CASE \E len \in 0 .. MaxChunk : Chunk(t, len)
  BY <1>1, <1>3 DEF Chunk
<1>4. CASE WriteDone(t)
  BY <1>0, <1>4, LandsWritten DEF WriteDone
<1>5. CASE \E B \in SUBSET InFlight(t) : WriteStops(t, B)
  BY <1>0, <1>5, LandsWritten DEF WriteStops
<1>6. CASE StreamEnds(t)
  BY <1>1, <1>6 DEF StreamEnds
<1>7. CASE NetworkFails(t)
  BY <1>1, <1>7 DEF NetworkFails
<1> QED
  BY <1>2, <1>3, <1>4, <1>5, <1>6, <1>7 DEF TaskStep

LEMMA NextFile ==
  ASSUME Ranges = {"asked"}
  PROVE  IInv /\ [Next]_vars => [File!Next]_<<Missing, Covered(saved)>>
<1> SUFFICES ASSUME IInv, [Next]_vars PROVE [File!Next]_<<Missing, Covered(saved)>>
  OBVIOUS
<1>9. Missing = Unwritten
  BY MissingIsUnwritten
<1>10. Missing' = Unwritten'
  <2>1. IInv'
    BY NextInv
  <2> QED
    BY <2>1 DEF IInv, HonestInv, TypeOK, FileRight, Missing, Unwritten
<1>0. ASSUME Missing' \subseteq Missing, saved' = saved PROVE File!Arrive
  BY <1>0 DEF File!Arrive, Covered
<1>1. ASSUME file' = file, saved' = saved PROVE File!Arrive
  BY <1>0, <1>1 DEF Missing
<1>2. ASSUME NEW t \in Tasks, TaskStep(t) PROVE File!Arrive
  BY <1>9, <1>10, <1>0, <1>2, TaskFile
<1>3. ASSUME NEW t \in Tasks, DriverStep(t) PROVE File!Arrive
  <2>1. CASE HandIn(t)    BY <1>1, <2>1 DEF HandIn
  <2>2. CASE Retry(t)     BY <1>1, <2>2 DEF Retry
  <2>3. CASE SaveSlot(t)  BY <1>1, <2>3 DEF SaveSlot
  <2>4. CASE \E n \in 1 .. Size, u \in Tasks : Split(t, n, u)
    BY <1>1, <2>4 DEF Split
  <2> QED
    BY <1>3, <2>1, <2>2, <2>3, <2>4 DEF DriverStep
<1>4. CASE \E n \in 1 .. MaxTimes, T \in SUBSET Tasks :
             \E g \in Bijection(T, UNION {Pieces(s, n) : s \in saved}) : Launch(n, T, g)
  BY <1>1, <1>4 DEF Launch, File!Next
<1>5. CASE BeginSave
  BY <1>1, <1>5 DEF BeginSave, File!Next
<1>6. CASE EndSave
  BY <1>9, <1>10, <1>6, EndSaveInv DEF File!Next, File!Save
<1>7. CASE \E B \in SUBSET UNION {InFlight(t) : t \in Tasks} : Crash(B)
  <2>1. PICK B \in SUBSET UNION {InFlight(t) : t \in Tasks} : Crash(B)
    BY <1>7
  <2>2. Missing' \subseteq Missing /\ saved' = saved
    BY <1>9, <1>10, <2>1, CrashInv DEF Crash
  <2> QED
    BY <1>0, <2>2 DEF File!Next
<1>8. CASE Complete \/ UNCHANGED vars
  BY <1>1, <1>8 DEF Complete, vars, File!Next
<1> QED
  BY <1>2, <1>3, <1>4, <1>5, <1>6, <1>7, <1>8 DEF Next, File!Next

(* Over any crashes, retries, splits and saves, bytes only ever arrive, and *)
(* the stored record shrinks without losing one that is missing.           *)
THEOREM SessionImplementsFile ==
  ASSUME Ranges = {"asked"}
  PROVE  Spec => FileSpec
<1>1. Init => File!Init
  BY InitFile
<1> QED
  BY <1>1, NextFile, InductiveInv, PTL DEF Spec, FileSpec, File!Spec

-----------------------------------------------------------------------------
(* Every running task is a RemainWriter. *)

(* A step that leaves a future's variables alone. *)
LEMMA WriterRests ==
  ASSUME NEW t \in Tasks, Running(t),
         pc'[t] = pc[t], end'[t] = end[t], remain'[t] = remain[t],
         process'[t] = process[t], cache'[t] = cache[t], cut'[t] = cut[t]
  PROVE  UNCHANGED Writer(t)!vars
<1>1. Running(t)'
  BY DEF Running
<1> QED
  BY <1>1 DEF Writer!vars, Running, Start

LEMMA WriterChunk ==
  ASSUME IInv, NEW t \in Tasks, NEW len \in 0 .. MaxChunk, Chunk(t, len)
  PROVE  Writer(t)!Next
<1> DEFINE n == IF len < cache[t] THEN len ELSE cache[t]
<1>0. TypeOK /\ WritersInv /\ SlotsInv
  BY DEF IInv
<1>1. /\ pc[t] = "poll" /\ pc'[t] = "write" /\ cut'[t] = n
      /\ end' = end /\ remain' = remain /\ process' = process /\ cache' = cache
  BY <1>0 DEF Chunk, TypeOK, slots
<1>2. /\ end[t] \in 0 .. Size /\ remain[t] \in 0 .. Size /\ cache[t] \in 0 .. Size
      /\ process[t] = end[t] - remain[t] /\ remain[t] <= cache[t]
      /\ cache[t] # remain[t] => MaxChunk <= remain[t]
      /\ cut[t] = 0
  BY <1>0, <1>1, Numbers DEF WritersInv, Start
<1>3. n \in 0 .. MaxChunk /\ n <= cache[t] /\ (n < cache[t] => n = len)
  BY <1>2, Sizes
<1> HIDE DEF n
<1>4. process[t] + n <= Size /\ process[t] \in Int
  BY <1>2, <1>3, Sizes
<1>5. Writer(t)!AsUsize(cache[t]) = cache[t]
  BY <1>2, Sizes DEF Writer!AsUsize
<1>6. n >= cache[t] <=> n = cache[t]
  BY <1>2, <1>3, Sizes
<1>7. Running(t) /\ Running(t)'
  BY <1>1 DEF Running
<1>8. process[t] + cut[t] + n = process[t] + n /\ process'[t] + cut'[t] = process[t] + cut[t] + n
  BY <1>1, <1>2, <1>3, <1>4, Sizes
<1>9. Writer(t)!Chunk(n)
  BY <1>1, <1>4, <1>5, <1>6, <1>7, <1>8 DEF Writer!Chunk, Writer!Cutting, Writer!Recording
<1> QED
  BY <1>3, <1>9 DEF Writer!Next

LEMMA WriterWritten ==
  ASSUME IInv, NEW t \in Tasks, WriteDone(t)
  PROVE  Writer(t)!Next
<1>0. TypeOK /\ WritersInv /\ SlotsInv
  BY DEF IInv
<1>1. /\ pc[t] = "write" /\ end' = end /\ remain'[t] = remain[t] - cut[t]
      /\ Running(t)
  BY <1>0 DEF WriteDone, TypeOK, Running
<1>2. /\ end[t] \in 0 .. Size /\ remain[t] \in 0 .. Size /\ cache[t] \in 0 .. Size
      /\ cut[t] \in 0 .. Size
      /\ process[t] = end[t] - remain[t] /\ process[t] = Start(t)
      /\ cut[t] = cache[t] => cut[t] = remain[t]
  BY <1>0, <1>1, Numbers, CutFits DEF WritersInv, Start
<1>3. CASE cut[t] = cache[t]
  <2>1. pc'[t] = "returned" /\ cut'[t] = 0 /\ ~Running(t)'
    BY <1>0, <1>1, <1>3 DEF WriteDone, Leaves, TypeOK, Running
  <2>2. Start(t)' = process[t] + cut[t]
    BY <1>1, <1>2, Sizes DEF Start
  <2>3. Writer(t)!Written
    BY <1>1, <1>2, <1>3, <2>1, <2>2
    DEF Writer!Written, Writer!ToWrite, Writer!Record, Writer!Recording, Writer!Conditional
  <2> QED
    BY <2>3 DEF Writer!Next
<1>4. CASE cut[t] # cache[t]
  <2>1. /\ pc'[t] = "poll" /\ cut'[t] = 0 /\ Running(t)'
        /\ process'[t] = process[t] + cut[t] /\ cache'[t] = remain[t] - cut[t]
    BY <1>0, <1>1, <1>4 DEF WriteDone, TypeOK, Running
  <2>2. process[t] + cut[t] + 0 = process[t] + cut[t]
    BY <1>2, Sizes
  <2>3. Writer(t)!Written
    BY <1>1, <1>4, <2>1, <2>2
    DEF Writer!Written, Writer!ToWrite, Writer!Record, Writer!Recording, Writer!Conditional
  <2> QED
    BY <2>3 DEF Writer!Next
<1> QED
  BY <1>3, <1>4

(* Who is split loses bytes to a thief that leaves it a chunk. *)
LEMMA WriterStolen ==
  ASSUME IInv, NEW t \in Tasks, NEW n \in 1 .. Size, NEW u \in Tasks, Split(t, n, u), Running(t)
  PROVE  Writer(t)!Next
<1>0. TypeOK
  BY DEF IInv
<1>1. t # u
  BY DEF Split, Running
<1>2. /\ pc'[t] = pc[t] /\ end'[t] = end[t] - n /\ remain'[t] = remain[t] - n
      /\ remain[t] - n >= MaxChunk
      /\ process' = process /\ cache' = cache /\ cut' = cut
  BY <1>0, <1>1 DEF Split, TypeOK, writer
<1>3. end[t] \in 0 .. Size
  BY <1>0, Numbers
<1>4. Size - end'[t] = Size - end[t] + n
  BY <1>2, <1>3, Sizes
<1>5. Running(t)'
  BY <1>2 DEF Running
<1>6. Writer(t)!Steal(n)
  BY <1>2, <1>4, <1>5 DEF Writer!Steal
<1> QED
  BY <1>6 DEF Writer!Next

(* What the other tasks and the driver do is not felt. *)
LEMMA WriterUndisturbed ==
  ASSUME IInv, NEW t \in Tasks, Running(t), NEW x \in Tasks \ {t}, TaskStep(x) \/ DriverStep(x)
  PROVE  [Writer(t)!Next]_(Writer(t)!vars)
<1>0. TypeOK
  BY DEF IInv
<1>1. pc'[t] = pc[t] /\ process'[t] = process[t] /\ cache'[t] = cache[t] /\ cut'[t] = cut[t]
      /\ end'[t] = end[t] /\ remain'[t] = remain[t] => UNCHANGED Writer(t)!vars
  BY WriterRests
<1>2. ASSUME NEW how, Leaves(x, how)
      PROVE  pc'[t] = pc[t] /\ process'[t] = process[t] /\ cache'[t] = cache[t] /\ cut'[t] = cut[t]
  BY <1>0, <1>2 DEF Leaves, TypeOK
<1>3. ASSUME NEW status, NEW only_partical, NEW range, Answer(x, status, only_partical, range)
      PROVE  UNCHANGED Writer(t)!vars
  BY <1>0, <1>1, <1>2, <1>3 DEF Answer, TypeOK, slots
<1>4. ASSUME NEW len, Chunk(x, len) PROVE UNCHANGED Writer(t)!vars
  BY <1>0, <1>1, <1>4 DEF Chunk, TypeOK, slots
<1>5. CASE WriteDone(x)
  <2>1. remain'[t] = remain[t] /\ end'[t] = end[t]
    BY <1>0, <1>5 DEF WriteDone, TypeOK
  <2>2. pc'[t] = pc[t] /\ process'[t] = process[t] /\ cache'[t] = cache[t] /\ cut'[t] = cut[t]
    BY <1>0, <1>2, <1>5 DEF WriteDone, TypeOK
  <2> QED
    BY <1>1, <2>1, <2>2
<1>6. ASSUME NEW B, WriteStops(x, B) PROVE UNCHANGED Writer(t)!vars
  BY <1>1, <1>2, <1>6 DEF WriteStops, slots
<1>7. CASE StreamEnds(x) \/ NetworkFails(x)
  BY <1>1, <1>2, <1>7 DEF StreamEnds, NetworkFails, slots
<1>8. CASE TaskStep(x)
  BY <1>3, <1>4, <1>5, <1>6, <1>7, <1>8 DEF TaskStep
<1>9. CASE HandIn(x)
  BY <1>0, <1>1, <1>9 DEF HandIn, TypeOK, writer
<1>10. CASE Retry(x)
  BY <1>0, <1>1, <1>10 DEF Retry, TypeOK, writer, slots
<1>11. CASE SaveSlot(x)
  BY <1>1, <1>11 DEF SaveSlot, writer, slots
<1>12. ASSUME NEW n \in 1 .. Size, NEW u \in Tasks, Split(x, n, u) PROVE UNCHANGED Writer(t)!vars
  <2>1. t # u
    BY <1>12 DEF Split, Running
  <2> QED
    BY <1>0, <1>1, <1>12, <2>1 DEF Split, TypeOK, writer
<1> QED
  BY <1>8, <1>9, <1>10, <1>11, <1>12 DEF DriverStep

LEMMA WriterStep ==
  ASSUME IInv, [Next]_vars, NEW t \in Tasks,
         \/ Running(t) /\ Running(t)'
         \/ pc[t] = "write" /\ pc'[t] = "returned"
  PROVE  [Writer(t)!Next]_(Writer(t)!vars)
<1>0. TypeOK /\ SlotsInv /\ Running(t) /\ pc'[t] \in {"poll", "write", "returned"}
      /\ (pc[t] = "poll" => pc'[t] # "returned")
  BY DEF IInv, Running
<1>1. ASSUME NEW x \in Tasks \ {t}, TaskStep(x) \/ DriverStep(x)
      PROVE  [Writer(t)!Next]_(Writer(t)!vars)
  BY <1>0, <1>1, WriterUndisturbed
<1>2. ASSUME TaskStep(t) PROVE Writer(t)!Next
  <2>1. ASSUME NEW status, NEW only_partical, NEW range, Answer(t, status, only_partical, range) PROVE FALSE
    BY <1>0, <2>1 DEF Answer, Running
  <2>2. ASSUME Leaves(t, "stopped") PROVE FALSE
    BY <1>0, <2>2 DEF Leaves, TypeOK
  <2>3. ASSUME StreamEnds(t) PROVE FALSE
    BY <1>0, <2>3 DEF StreamEnds, Leaves, TypeOK
  <2>4. ~NetworkFails(t) /\ \A B : ~WriteStops(t, B)
    BY <2>2 DEF NetworkFails, WriteStops
  <2> QED
    BY <1>2, <2>1, <2>3, <2>4, WriterChunk, WriterWritten DEF TaskStep
<1>3. ASSUME DriverStep(t) PROVE [Writer(t)!Next]_(Writer(t)!vars)
  <2>1. ~HandIn(t) /\ ~Retry(t)
    BY <1>0 DEF HandIn, Retry, Running
  <2>2. SaveSlot(t) => UNCHANGED Writer(t)!vars
    BY <1>0, WriterRests DEF SaveSlot, writer, slots
  <2> QED
    BY <1>0, <1>3, <2>1, <2>2, WriterStolen DEF DriverStep
<1>4. mode = "up"
  BY <1>0 DEF SlotsInv, TypeOK, Running
<1>5. ASSUME NEW B, Crash(B) PROVE FALSE
  BY <1>0, <1>5 DEF Crash
<1>6. CASE BeginSave \/ EndSave
  BY <1>0, <1>6, WriterRests DEF BeginSave, EndSave, writer, slots
<1>7. CASE Complete \/ UNCHANGED vars
  BY <1>0, <1>7, WriterRests DEF Complete, vars, writer, slots
<1>8. \A n, T, g : ~Launch(n, T, g)
  BY <1>4 DEF Launch
<1> QED
  BY <1>1, <1>2, <1>3, <1>5, <1>6, <1>7, <1>8 DEF Next

(* Until it returns from its last write, a future does what RemainWriter's *)
(* careful tasks do, so that RemainWriter's theorems are about it: it      *)
(* relies on nothing that the session does not keep.                       *)
THEOREM TasksImplementWriters == Spec => TasksAreWriters
<1> DEFINE Kept(t) == \/ Running(t) /\ Running(t)'
                      \/ pc[t] = "write" /\ pc'[t] = "returned"
                      => [Writer(t)!Next]_(Writer(t)!vars)
<1>1. IInv /\ [Next]_vars => \A t \in Tasks : Kept(t)
  BY WriterStep
<1> QED
  BY <1>1, InductiveInv, PTL DEF Spec, TasksAreWriters
=============================================================================
