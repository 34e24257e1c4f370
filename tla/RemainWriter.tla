---------------------------- MODULE RemainWriter ----------------------------
(***************************************************************************)
(* subcontext.rs: one download task copies the chunks of its response to   *)
(* the file and keeps the number of bytes left to write in an atomic       *)
(* counter that others hold too (Remain::remain, the slot's SlotShareExt). *)
(* The task compares every chunk with its cache of the counter only, and   *)
(* renews the cache when it records a chunk.                               *)
(*                                                                         *)
(* Positions count from the start of the task's segment.  Whoever splits   *)
(* a running segment is not written yet in the repository; as the counter  *)
(* is all the task and the others share, it takes the last bytes of the    *)
(* segment away by subtracting them (Steal).  What the callers promise:    *)
(*   "flash"   flash_cache is called before the first chunk                *)
(*   "margin"  Steal leaves the task a chunk's worth of bytes              *)
(*   "fresh"   no method is called again on a writer and a stream after a  *)
(*             call on them failed or was dropped                          *)
(***************************************************************************)
EXTENDS Integers

CONSTANTS
  Apis,         \* the methods that may be used, see AllApis
  Length,       \* bytes of the segment
  StreamLen,    \* bytes the server is ready to send
  MaxChunk,     \* the longest chunk
  MaxI64,       \* i64::MAX
  Contracts     \* what the callers may have promised, sets of the above

(* The methods that record what they write in the counter, that cut the    *)
(* last chunk, that stop when a condition holds, and that borrow writer    *)
(* and stream and leave both to the caller.  fetch_util, fetch_all,        *)
(* fetech_chunk and fetch_chunk_in_remain are those of a bare Writer; the  *)
(* last one is passed its allowance, for which the caller has its cache.   *)
Recording   == {"fetch_stream", "fetch_chunk"}
Cutting     == Recording \cup {"fetch_conditional", "fetch_chunk_in_remain"}
Conditional == {"fetch_conditional", "fetch_util"}
Borrowing   == Conditional \cup {"fetch_chunk", "fetech_chunk", "fetch_chunk_in_remain"}
AllApis     == Cutting \cup Borrowing \cup {"fetch_all"}

ASSUME WriterAssumption ==
  /\ Apis \subseteq AllApis
  /\ {Length, StreamLen, MaxChunk, MaxI64} \subseteq Nat
  /\ Length <= MaxI64 /\ StreamLen <= MaxI64 /\ MaxChunk <= MaxI64
  /\ Contracts \subseteq SUBSET {"flash", "margin", "fresh"}

VARIABLES
  promised, \* what the callers of this task promised
  api,      \* the method this task uses
  pc,       \* what the task is doing
  remain,   \* Remain.remain, the shared counter
  cache,    \* Remain.cache
  process,  \* Writer.process: bytes the writer confirmed
  sent,     \* bytes taken from the stream
  chunk,    \* length of the chunk in hand
  cut,      \* how much of it split_chunk allows
  last,     \* split_chunk said Break
  stolen    \* bytes taken away by others

vars == <<promised, api, pc, remain, cache, process, sent, chunk, cut, last, stolen>>

Ended == {"complete", "eof", "failed", "cancelled"}

(* Remain::new leaves the cache at i64::MAX. *)
Init ==
  /\ promised \in Contracts /\ api \in Apis /\ pc = "poll"
  /\ remain = Length
  /\ cache = IF "flash" \in promised THEN Length ELSE MaxI64
  /\ process = 0 /\ sent = 0 /\ chunk = 0 /\ cut = 0 /\ stolen = 0
  /\ last = FALSE

(* Mutant: the cache taken as a signed number. *)
AsUsizeSigned(n) == n

(* `as usize` of an i64: a negative number becomes a huge one. *)
AsUsize(n) == n % (2 * (MaxI64 + 1))

(* stream.try_next() yields a chunk; a method that cuts compares it with   *)
(* the cache, and the write starts.                                        *)
Chunk(len) ==
  /\ pc = "poll" /\ sent + len <= StreamLen
  /\ pc' = "write"
  /\ sent' = sent + len /\ chunk' = len
  /\ last' = (api \in Cutting /\ len >= AsUsize(cache))
  /\ cut'  = IF last' THEN AsUsize(cache) ELSE len
  /\ UNCHANGED <<promised, api, remain, cache, process, stolen>>

(* The stream ends, whether or not every byte has come. *)
StreamEnds ==
  /\ pc = "poll" /\ pc' = "eof"
  /\ UNCHANGED <<promised, api, remain, cache, process, sent, chunk, cut, last, stolen>>

StreamFails ==
  /\ pc = "poll" /\ pc' = "failed"
  /\ UNCHANGED <<promised, api, remain, cache, process, sent, chunk, cut, last, stolen>>

(* write_in_remain, which fetch_chunk calls, writes the whole buffer even  *)
(* when split_chunk says Break.                                            *)
ToWrite == IF api = "fetch_chunk" THEN chunk ELSE cut

(* Mutants: fetch_sub's result, the old value, becomes the cache; the      *)
(* whole chunk is recorded.                                                *)
RecordOld ==
  IF api \in Recording
  THEN remain' = remain - cut /\ cache' = remain
  ELSE UNCHANGED <<remain, cache>>
RecordWhole ==
  IF api \in Recording
  THEN remain' = remain - chunk /\ cache' = remain'
  ELSE UNCHANGED <<remain, cache>>

(* record_writed: the new value of the counter becomes the cache.  Neither *)
(* fetch_conditional nor a bare Writer calls it.                           *)
Record ==
  IF api \in Recording
  THEN remain' = remain - cut /\ cache' = remain'
  ELSE UNCHANGED <<remain, cache>>

(* pwrite succeeds.  fetch_conditional and fetch_util return None when     *)
(* their condition holds, and may be called again.                         *)
Written ==
  /\ pc = "write"
  /\ process' = process + ToWrite
  /\ Record
  /\ pc' \in IF last THEN {"complete"}
             ELSE IF api \in Conditional THEN {"poll", "paused"} ELSE {"poll"}
  /\ chunk' = 0 /\ cut' = 0 /\ last' = FALSE
  /\ UNCHANGED <<promised, api, sent, stolen>>

(* Mutant: the error of a write is dropped. *)
WriteFailsRecorded ==
  /\ pc = "write" /\ pc' = "poll"
  /\ Record
  /\ UNCHANGED <<promised, api, process, sent, chunk, cut, last, stolen>>

(* pwrite fails.  fetch_conditional drops the error of the last write.     *)
WriteFails ==
  /\ pc = "write"
  /\ pc' = IF last /\ api = "fetch_conditional" THEN "complete" ELSE "failed"
  /\ UNCHANGED <<promised, api, remain, cache, process, sent, chunk, cut, last, stolen>>

Continue ==
  /\ pc = "paused" /\ pc' = "poll"
  /\ UNCHANGED <<promised, api, remain, cache, process, sent, chunk, cut, last, stolen>>

(* The caller calls a borrowing method again although the last call failed *)
(* or was dropped: the chunk it had taken from the stream is gone.         *)
CallAgain ==
  /\ api \in Borrowing /\ "fresh" \notin promised
  /\ pc \in {"failed", "cancelled"} /\ pc' = "poll"
  /\ UNCHANGED <<promised, api, remain, cache, process, sent, chunk, cut, last, stolen>>

(* The task's future is dropped at an await. *)
Cancel ==
  /\ pc \in {"poll", "write", "paused"} /\ pc' = "cancelled"
  /\ UNCHANGED <<promised, api, remain, cache, process, sent, chunk, cut, last, stolen>>

(* Another holder of the counter takes the last n bytes away.  Looking at  *)
(* the margin and subtracting are one atomic step on the counter.          *)
Steal(n) ==
  /\ remain - n >= IF "margin" \in promised THEN MaxChunk ELSE 0
  /\ remain' = remain - n /\ stolen' = stolen + n
  /\ UNCHANGED <<promised, api, pc, cache, process, sent, chunk, cut, last>>

Finished == pc \in Ended /\ UNCHANGED vars

Next ==
  \/ \E len \in 0 .. MaxChunk : Chunk(len)
  \/ StreamEnds \/ StreamFails
  \/ Written \/ WriteFails \/ Continue \/ CallAgain \/ Cancel
  \/ \E n \in 1 .. Length : Steal(n)
  \/ Finished

Spec == Init /\ [][Next]_vars

-----------------------------------------------------------------------------
(* Properties. *)

TypeOK ==
  /\ promised \in Contracts
  /\ api \in Apis /\ pc \in {"poll", "write", "paused"} \cup Ended
  /\ remain \in Int /\ cache \in Int
  /\ {process, sent, chunk, cut, stolen} \subseteq Nat
  /\ last \in BOOLEAN

(* remain is what a download is resumed from: it never counts a byte that  *)
(* the writer did not confirm, whoever takes bytes away meanwhile.         *)
RecordedWereWritten == Length - stolen - remain <= process

(* A method that records what it writes does so to the byte, but for the   *)
(* last chunk of fetch_chunk.                                              *)
Accounting ==
  api \in Recording /\ (api = "fetch_chunk" => pc # "complete") =>
    process + remain + stolen = Length

(* A task of careful callers never writes into bytes that were taken away  *)
(* from it, although it looks at its cache only.  fetch_chunk writes the   *)
(* last chunk uncut: it runs over by a chunk at most.                      *)
Careful == api \in Recording /\ {"flash", "margin"} \subseteq promised
Overrun == IF api = "fetch_chunk" THEN MaxChunk ELSE 0
NoOverrun == Careful => process <= Length - stolen + Overrun

(* Nor does it take the counter below zero, which `as usize` would make a  *)
(* huge allowance and a resumed download a range that is no range.         *)
NeverNegative == Careful => remain >= 0

(* Such a task stops by itself exactly when nothing is left for it. *)
StopsAtEnd == Careful /\ pc = "complete" => remain = 0

(* As long as a task goes on, the next byte of its response belongs at its *)
(* next position, so that what is in the file is the resource, in every    *)
(* method and over any number of pauses; it takes a caller that keeps its  *)
(* hands off a writer whose last call failed or was dropped.               *)
StreamAligned ==
  "fresh" \in promised /\ pc \in {"poll", "paused"} => process = sent

(* A response that ends early is an error: Ok(()) means all was written.   *)
OkIsComplete == pc \in {"complete", "eof"} => process >= Length - stolen
=============================================================================
