------------------------- MODULE RemainWriterProofs -------------------------
(***************************************************************************)
(* Theorems about RemainWriter, for every segment, stream and chunk size.  *)
(***************************************************************************)
EXTENDS RemainWriter, TLAPS

LEMMA AsUsizeIsNat == \A n \in Int : AsUsize(n) \in Nat /\ (n \in 0 .. MaxI64 => AsUsize(n) = n)
BY WriterAssumption DEF AsUsize

(* split_chunk allows the chunk or what the cache holds, if that is less. *)
LEMMA SplitChunk ==
  ASSUME cache \in Int, NEW len \in Nat, Chunk(len)
  PROVE  /\ last' \in BOOLEAN /\ chunk' = len
         /\ last' => len >= AsUsize(cache) /\ cut' = AsUsize(cache)
         /\ ~last' => cut' = len
         /\ api \in Cutting /\ ~last' => len < AsUsize(cache)
         /\ cut' \in Nat /\ cut' <= chunk'
<1>1. AsUsize(cache) \in Nat
  BY AsUsizeIsNat
<1>2. last' <=> api \in Cutting /\ len >= AsUsize(cache)
  BY DEF Chunk
<1>3. last' \in BOOLEAN /\ chunk' = len
  BY DEF Chunk
<1>4. cut' = IF last' THEN AsUsize(cache) ELSE len
  BY DEF Chunk
<1> HIDE DEF Chunk
<1> QED
  BY <1>1, <1>2, <1>3, <1>4

-----------------------------------------------------------------------------
(* What is recorded was written. *)

WriteInv ==
  /\ TypeOK
  /\ pc = "write" => cut <= chunk /\ (~last => cut = chunk)
  /\ RecordedWereWritten /\ Accounting

LEMMA InitWrite == Init => WriteInv
<1> SUFFICES ASSUME Init PROVE WriteInv
  OBVIOUS
<1>1. Length \in Nat /\ MaxI64 \in Nat
  BY WriterAssumption
<1>2. cache \in Int
  BY <1>1 DEF Init
<1>3. TypeOK
  <2>1. promised \in Contracts /\ api \in Apis /\ pc \in {"poll", "write", "paused"} \cup Ended
    BY DEF Init
  <2>2. remain \in Int
    BY <1>1 DEF Init
  <2>3. process = 0 /\ sent = 0 /\ chunk = 0 /\ cut = 0 /\ stolen = 0
    BY DEF Init
  <2>4. {process, sent, chunk, cut, stolen} \subseteq Nat
    BY <2>3
  <2>5. last \in BOOLEAN
    BY DEF Init
  <2> QED
    BY <1>2, <2>1, <2>2, <2>4, <2>5 DEF TypeOK
<1> QED
  BY <1>1, <1>3 DEF Init, WriteInv, RecordedWereWritten, Accounting

LEMMA NextWrite == WriteInv /\ [Next]_vars => WriteInv'
<1> SUFFICES ASSUME WriteInv, [Next]_vars PROVE WriteInv'
  OBVIOUS
<1> USE WriterAssumption DEF WriteInv, TypeOK, Ended, RecordedWereWritten, Accounting
<1>1. ASSUME NEW len \in 0 .. MaxChunk, Chunk(len) PROVE WriteInv'
  <2>1. AsUsize(cache) \in Nat /\ len \in Nat
    BY AsUsizeIsNat
  <2>2. cut' \in Nat /\ cut' <= chunk' /\ last' \in BOOLEAN /\ (~last' => cut' = chunk')
    BY <1>1, <2>1, SplitChunk
  <2> QED
    BY <1>1, <2>1, <2>2 DEF Chunk
<1>2. CASE StreamEnds   BY <1>2 DEF StreamEnds
<1>3. CASE StreamFails  BY <1>3 DEF StreamFails
<1>4. CASE Written
  <2>a. pc = "write" /\ pc' \in IF last THEN {"complete"}
                         ELSE IF api \in Conditional THEN {"poll", "paused"} ELSE {"poll"}
    BY <1>4 DEF Written
  <2>1. pc' \in {"complete", "poll", "paused"} /\ (last <=> pc' = "complete")
    BY <2>a
  <2>2. /\ process' = process + ToWrite /\ ToWrite \in Nat /\ cut <= ToWrite
        /\ api = "fetch_stream" \/ ~last => ToWrite = cut
    BY <2>a, <1>4 DEF Written, ToWrite
  <2>3. /\ chunk' = 0 /\ cut' = 0 /\ last' = FALSE
        /\ UNCHANGED <<promised, api, sent, stolen>>
    BY <1>4 DEF Written
  <2>4. IF api \in Recording THEN remain' = remain - cut /\ cache' = remain'
                             ELSE UNCHANGED <<remain, cache>>
    BY <1>4 DEF Written, Record
  <2>5. /\ remain \in Int /\ cut \in Nat /\ process \in Nat /\ stolen \in Nat /\ sent \in Nat
        /\ Length - stolen - remain <= process
        /\ api \in Recording => process + remain + stolen = Length
    BY <2>a DEF Recording
  <2>b. remain' \in Int /\ cache' \in Int
    BY <2>4, <2>5
  <2>d. process' \in Nat
    BY <2>2, <2>5
  <2>c. {process', sent', chunk', cut', stolen'} \subseteq Nat /\ last' \in BOOLEAN
    <3>1. chunk' \in Nat /\ cut' \in Nat /\ last' \in BOOLEAN
      BY <2>3
    <3>2. sent' \in Nat /\ stolen' \in Nat
      BY <2>3, <2>5
    <3> HIDE DEF WriteInv, TypeOK, RecordedWereWritten, Accounting
    <3> QED
      BY <2>d, <3>1, <3>2
  <2>6. TypeOK'
    BY <2>1, <2>3, <2>b, <2>c
  <2> HIDE DEF WriteInv, TypeOK, RecordedWereWritten, Accounting, ToWrite
  <2>7. RecordedWereWritten'
    BY <2>2, <2>3, <2>4, <2>5 DEF RecordedWereWritten
  <2>8. Accounting'
    <3> SUFFICES ASSUME api \in Recording, api = "fetch_chunk" => pc' # "complete"
                 PROVE  process' + remain' + stolen' = Length
      BY <2>3 DEF Accounting
    <3>1. ToWrite = cut
      BY <2>1, <2>2 DEF Recording
    <3> QED
      BY <2>2, <2>3, <2>4, <2>5, <3>1
  <2>9. pc' # "write"
    BY <2>1
  <2> QED
    BY <2>6, <2>7, <2>8, <2>9 DEF WriteInv
<1>5. CASE WriteFails   BY <1>5 DEF WriteFails
<1>6. CASE Continue     BY <1>6 DEF Continue
<1>10. CASE CallAgain   BY <1>10 DEF CallAgain
<1>7. CASE Cancel       BY <1>7 DEF Cancel
<1>8. ASSUME NEW n \in 1 .. Length, Steal(n) PROVE WriteInv'
  BY <1>8 DEF Steal
<1>9. CASE UNCHANGED vars
  BY <1>9 DEF vars
<1> QED
  BY <1>1, <1>2, <1>3, <1>4, <1>5, <1>6, <1>7, <1>8, <1>9, <1>10 DEF Next, Finished

LEMMA WriteInvariant == Spec => []WriteInv
BY InitWrite, NextWrite, PTL DEF Spec

(* The counter a download is resumed from never runs ahead of the file, in *)
(* any of the methods and whatever others subtract.                        *)
THEOREM NothingUnwrittenIsRecorded == Spec => []RecordedWereWritten
<1>1. WriteInv => RecordedWereWritten
  BY DEF WriteInv
<1> QED
  BY <1>1, WriteInvariant, PTL

(* With fetch_stream it does not lag behind either. *)
THEOREM AccountsAreExact == Spec => []Accounting
<1>1. WriteInv => Accounting
  BY DEF WriteInv
<1> QED
  BY <1>1, WriteInvariant, PTL

-----------------------------------------------------------------------------
(* A stale cache is harmless when a chunk's worth of bytes is left.        *)

(* A cache that is not the counter is a larger, older value of it, and     *)
(* then at least one chunk is left; the chunk in hand fits in any case.    *)
CacheInv ==
  Careful =>
    /\ 0 <= remain /\ remain <= cache /\ cache <= MaxI64
    /\ cache # remain => remain >= MaxChunk
    /\ pc = "write" => /\ cut <= remain /\ cut <= chunk /\ chunk <= MaxChunk
                       /\ last => cut = cache
                       /\ ~last => cut < cache
    /\ pc = "complete" => remain = 0

LEMMA InitCache == Init => CacheInv
BY WriterAssumption DEF Init, CacheInv, Careful

LEMMA NextCache == WriteInv /\ CacheInv /\ [Next]_vars => CacheInv'
<1> SUFFICES ASSUME TypeOK, CacheInv, [Next]_vars, Careful' PROVE CacheInv'
  BY DEF WriteInv, CacheInv
<1>0. Careful
  BY DEF Careful, Next, vars, Chunk, StreamEnds, StreamFails, Written, WriteFails, Continue,
         CallAgain, Cancel, Steal, Finished
<1>a. "margin" \in promised /\ api \in Recording /\ api \in Cutting /\ api \notin Conditional
  BY <1>0 DEF Careful, Recording, Cutting, Conditional
<1> USE <1>0, <1>a, WriterAssumption DEF CacheInv, TypeOK
<1>1. ASSUME NEW len \in 0 .. MaxChunk, Chunk(len) PROVE CacheInv'
  <2>1. AsUsize(cache) = cache
    BY AsUsizeIsNat
  <2>2. /\ chunk' = len /\ cut' <= chunk'
        /\ last' => len >= cache /\ cut' = cache
        /\ ~last' => len < cache /\ cut' = len
    BY <1>1, <2>1, SplitChunk
  <2>3. pc' = "write" /\ UNCHANGED <<remain, cache>>
    BY <1>1 DEF Chunk
  <2>4. cut' <= remain
    BY <2>1, <2>2
  <2> QED
    BY <2>2, <2>3, <2>4
<1>2. CASE StreamEnds   BY <1>2 DEF StreamEnds
<1>3. CASE StreamFails  BY <1>3 DEF StreamFails
<1>4. CASE Written
  <2>1. remain' = remain - cut /\ cache' = remain'
    BY <1>4 DEF Written, Record
  <2>2. pc = "write" /\ pc' = IF last THEN "complete" ELSE "poll"
    BY <1>4 DEF Written
  <2>3. last => remain = cut
    BY <2>2
  <2> QED
    BY <2>1, <2>2, <2>3
<1>5. CASE WriteFails
  <2>1. UNCHANGED <<remain, cache>> /\ pc' = "failed"
    BY <1>5, <1>a DEF WriteFails, Conditional
  <2> QED
    BY <2>1
<1>6. CASE Continue     BY <1>6 DEF Continue
<1>10. CASE CallAgain   BY <1>10 DEF CallAgain
<1>7. CASE Cancel       BY <1>7 DEF Cancel
<1>8. ASSUME NEW n \in 1 .. Length, Steal(n) PROVE CacheInv'
  BY <1>8 DEF Steal
<1>9. CASE UNCHANGED vars
  BY <1>9 DEF vars
<1> QED
  BY <1>1, <1>2, <1>3, <1>4, <1>5, <1>6, <1>7, <1>8, <1>9, <1>10 DEF Next, Finished

LEMMA CacheInvariant == Spec => [](WriteInv /\ CacheInv)
<1>1. Init => WriteInv /\ CacheInv
  BY InitWrite, InitCache
<1>2. WriteInv /\ CacheInv /\ [Next]_vars => (WriteInv /\ CacheInv)'
  BY NextWrite, NextCache
<1> QED
  BY <1>1, <1>2, PTL DEF Spec

LEMMA AtMost ==
  \A p, r, s, l, e \in Int : p + r + s = l /\ 0 <= r /\ 0 <= e => p <= l - s + e
OBVIOUS

(* While a task goes on, accounts are exact; fetch_chunk's last chunk is   *)
(* written whole, and nothing is taken away after it.                      *)
LEMMA NextOverrun == WriteInv /\ CacheInv /\ NoOverrun /\ [Next]_vars => NoOverrun'
<1> SUFFICES ASSUME WriteInv, CacheInv, NoOverrun, [Next]_vars, Careful' PROVE NoOverrun'
  BY DEF NoOverrun
<1>0. WriteInv' /\ CacheInv'
  BY NextWrite, NextCache
<1>1. /\ api' \in Recording /\ 0 <= remain' /\ remain' \in Int
      /\ process' \in Nat /\ stolen' \in Nat /\ Length \in Nat /\ MaxChunk \in Nat
  BY <1>0, WriterAssumption DEF Careful, CacheInv, WriteInv, TypeOK
<1>2. CASE pc' # "complete"
  <2>1. process' + remain' + stolen' = Length
    BY <1>0, <1>1, <1>2 DEF WriteInv, Accounting
  <2>2. /\ process' \in Int /\ remain' \in Int /\ stolen' \in Int /\ Length \in Int
        /\ MaxChunk \in Int /\ 0 <= MaxChunk /\ 0 \in Int /\ 0 <= 0
    BY <1>1
  <2>3. process' <= Length - stolen' + MaxChunk /\ process' <= Length - stolen' + 0
    BY <1>1, <2>1, <2>2, AtMost
  <2> QED
    BY <2>3 DEF NoOverrun, Overrun
<1>3. CASE pc' = "complete" /\ pc # "complete"
  <2>1. CASE Written
    <3>1. pc = "write" /\ process' = process + ToWrite /\ UNCHANGED <<stolen, api, promised>>
      BY <2>1 DEF Written
    <3>2. process + remain + stolen = Length
      BY <1>1, <3>1 DEF WriteInv, Accounting
    <3>3. /\ 0 <= remain /\ cut <= remain /\ chunk <= MaxChunk
          /\ remain \in Int /\ cut \in Nat /\ chunk \in Nat /\ process \in Nat
      BY <3>1 DEF CacheInv, Careful, WriteInv, TypeOK
    <3>4. CASE api = "fetch_chunk"
      <4>1. ToWrite = chunk /\ api' = "fetch_chunk"
        BY <3>1, <3>4 DEF ToWrite
      <4> QED
        BY <1>1, <3>1, <3>2, <3>3, <4>1 DEF NoOverrun, Overrun
    <3>5. CASE api # "fetch_chunk"
      <4>1. ToWrite = cut
        BY <3>5 DEF ToWrite
      <4> QED
        BY <1>1, <3>1, <3>2, <3>3, <4>1 DEF NoOverrun, Overrun
    <3> QED
      BY <3>4, <3>5
  <2>2. CASE WriteFails
    BY <1>1, <1>3, <2>2 DEF WriteFails, Recording
  <2> QED
    BY <1>3, <2>1, <2>2 DEF Next, vars, Chunk, StreamEnds, StreamFails, Continue, CallAgain,
                            Cancel, Steal, Finished
<1>4. CASE pc = "complete"
  <2>1. Careful /\ remain = 0 /\ "margin" \in promised
    BY <1>4 DEF Careful, CacheInv, Next, vars, Chunk, StreamEnds, StreamFails, Written,
                WriteFails, Continue, CallAgain, Cancel, Steal, Finished
  <2>2. ASSUME NEW n \in 1 .. Length, Steal(n) PROVE FALSE
    BY <1>1, <2>1, <2>2 DEF Steal
  <2>3. UNCHANGED <<process, stolen, api>>
    BY <1>4, <2>2 DEF Next, vars, Chunk, StreamEnds, StreamFails, Written, WriteFails,
                      Continue, CallAgain, Cancel, Finished
  <2> QED
    BY <2>1, <2>3 DEF NoOverrun, Overrun
<1> QED
  BY <1>2, <1>3, <1>4

LEMMA InitOverrun == Init => NoOverrun
BY WriterAssumption DEF Init, NoOverrun, Overrun

(* A task whose cache was read once, and from which only bytes beyond the  *)
(* next chunk are taken, never writes into the bytes that were taken, or   *)
(* with fetch_chunk by a chunk at most.                                    *)
THEOREM NeverOverruns == Spec => []NoOverrun
BY InitOverrun, NextOverrun, CacheInvariant, PTL DEF Spec

(* The counter of such a task stays a number of bytes. *)
THEOREM CounterInRange == Spec => []NeverNegative
<1>1. CacheInv => NeverNegative
  BY DEF CacheInv, NeverNegative
<1> QED
  BY <1>1, CacheInvariant, PTL

(* ... and stops exactly where they begin. *)
THEOREM StopsWhereItShould == Spec => []StopsAtEnd
<1>1. CacheInv => StopsAtEnd
  BY DEF CacheInv, StopsAtEnd
<1> QED
  BY <1>1, CacheInvariant, PTL

-----------------------------------------------------------------------------
(* The stream and the file keep in step. *)

AlignInv ==
  /\ StreamAligned
  /\ "fresh" \in promised /\ pc = "write" =>
       /\ process + chunk = sent
       /\ ~last => cut = chunk

LEMMA InitAlign == Init => AlignInv
BY DEF Init, AlignInv, StreamAligned

LEMMA NextAlign == TypeOK /\ AlignInv /\ [Next]_vars => AlignInv'
<1> SUFFICES ASSUME TypeOK, AlignInv, [Next]_vars PROVE AlignInv'
  OBVIOUS
<1> USE DEF AlignInv, StreamAligned
<1>1. ASSUME NEW len \in 0 .. MaxChunk, Chunk(len) PROVE AlignInv'
  <2>1. chunk' = len /\ (~last' => cut' = len)
    BY <1>1 DEF Chunk
  <2>2. pc = "poll" /\ pc' = "write" /\ sent' = sent + len /\ UNCHANGED <<process, promised>>
    BY <1>1 DEF Chunk
  <2> QED
    BY <2>1, <2>2
<1>2. CASE StreamEnds   BY <1>2 DEF StreamEnds
<1>3. CASE StreamFails  BY <1>3 DEF StreamFails
<1>4. CASE Written
  <2>1. pc = "write" /\ process' = process + ToWrite /\ UNCHANGED <<promised, sent>>
    BY <1>4 DEF Written
  <2>2. CASE last
    BY <1>4, <2>2 DEF Written
  <2>3. CASE ~last
    <3>1. "fresh" \in promised => ToWrite = chunk
      BY <2>1, <2>3 DEF ToWrite
    <3>2. pc' # "write"
      BY <1>4 DEF Written
    <3> QED
      BY <2>1, <3>1, <3>2
  <2> QED
    BY <2>2, <2>3
<1>5. CASE WriteFails   BY <1>5 DEF WriteFails
<1>6. CASE Continue     BY <1>6 DEF Continue
<1>7. CASE CallAgain    BY <1>7 DEF CallAgain
<1>8. CASE Cancel       BY <1>8 DEF Cancel
<1>9. ASSUME NEW n \in 1 .. Length, Steal(n) PROVE AlignInv'
  BY <1>9 DEF Steal
<1>10. CASE UNCHANGED vars
  BY <1>10 DEF vars
<1> QED
  BY <1>1, <1>2, <1>3, <1>4, <1>5, <1>6, <1>7, <1>8, <1>9, <1>10 DEF Next, Finished

(* No method skips or repeats a byte of its response, whatever fails, as   *)
(* long as a writer is not used again after a failed or dropped call.      *)
THEOREM StaysAligned == Spec => []StreamAligned
<1>1. Init => TypeOK /\ AlignInv
  BY InitWrite, InitAlign DEF WriteInv
<1>2. WriteInv /\ AlignInv /\ [Next]_vars => AlignInv'
  BY NextAlign DEF WriteInv
<1>3. AlignInv => StreamAligned
  BY DEF AlignInv
<1> QED
  BY <1>1, <1>2, <1>3, WriteInvariant, PTL DEF Spec

(* Every reachable state is well typed. *)
THEOREM WriterTypeCorrect == Spec => []TypeOK
<1>1. WriteInv => TypeOK
  BY DEF WriteInv
<1> QED
  BY <1>1, WriteInvariant, PTL
=============================================================================
