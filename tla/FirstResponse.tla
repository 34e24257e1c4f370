---------------------------- MODULE FirstResponse ----------------------------
(***************************************************************************)
(* group_impl.rs: build_new when the headers left it open whether ranges   *)
(* are served (Unconfirmed).  One task polls two futures (select): the     *)
(* download of the first response, DownloadContext::download, and a test   *)
(* request for a part of the file.  When the test answers first, the task  *)
(* sets the abort flag and awaits the download, which checks the flag      *)
(* after each chunk.  A step is what one poll does between two awaits.     *)
(*                                                                         *)
(* No branch of build_new assigns test_response yet: the model ends with   *)
(* the select, and keeps in test what the assignment would receive.        *)
(***************************************************************************)
EXTENDS Integers

CONSTANTS
  Length,    \* Content-Length; the body never exceeds it (HTTP framing)
  MaxChunk   \* the longest chunk; an empty one is possible

ASSUME FirstAssumption == Length \in Nat /\ MaxChunk \in Nat

VARIABLES
  main,     \* the select: "both", "draining" (test answered first), "over"
  pc,       \* the download: "poll", "write" or how it ended
  remain,   \* the counter that outlives build_new's futures
  cache,    \* DownloadContext.remain_cache
  process,  \* where the next chunk is written
  chunk,    \* the bytes of the chunk in hand that are to be written
  file,     \* the positions at which the file holds its byte
  lost,     \* what failed writes left out (the program does not know)
  sent,     \* bytes taken from the stream
  abort,    \* abort_signal
  late,     \* chunks taken after abort was set, counted up to 2
  test      \* the test request: "pending", its answer, "dropped", "panicked"

vars == <<main, pc, remain, cache, process, chunk, file, lost, sent, abort, late, test>>

Ended == {"ok", "failed", "cancelled"}
Bytes == 0 .. Length - 1

Init ==
  /\ main = "both" /\ pc = "poll" /\ test = "pending"
  /\ remain = Length /\ cache = Length
  /\ process = 0 /\ chunk = 0 /\ sent = 0 /\ late = 0
  /\ file = {} /\ lost = {}
  /\ abort = FALSE

(* min(bytes.len(), remain_cache as usize): a negative cache is a huge one. *)
Allowed(len) == IF 0 <= cache /\ cache < len THEN cache ELSE len

(* stream.try_next() yields a chunk and pwrite is awaited. *)
Chunk(len) ==
  /\ pc = "poll" /\ main # "over" /\ sent + len <= Length
  /\ pc' = "write"
  /\ chunk' = Allowed(len) /\ sent' = sent + len
  /\ late' = IF abort /\ late < 2 THEN late + 1 ELSE late
  /\ UNCHANGED <<main, remain, cache, process, file, lost, abort, test>>

(* The download future is ready: select returns, and drops a test request  *)
(* that has not answered.                                                  *)
Over(how) ==
  /\ pc' = how /\ main' = "over"
  /\ test' = IF main = "both" THEN "dropped" ELSE test

StreamEnds ==
  /\ pc = "poll" /\ main # "over"
  /\ Over("ok")
  /\ UNCHANGED <<remain, cache, process, chunk, file, lost, sent, abort, late>>

StreamFails ==
  /\ pc = "poll" /\ main # "over"
  /\ Over("failed")
  /\ UNCHANGED <<remain, cache, process, chunk, file, lost, sent, abort, late>>

(* Mutants: the caller counts the bytes once more; the flag is looked at   *)
(* before the chunk is counted.                                            *)
RecordTwice ==
  /\ cache' = remain - chunk /\ remain' = remain - 2 * chunk
  /\ process' = process + chunk
RecordUnlessAborted ==
  IF abort
  THEN UNCHANGED <<remain, cache, process>>
  ELSE cache' = remain /\ remain' = remain - chunk /\ process' = process + chunk

(* fetch_sub's result, the value before the subtraction, is the cache. *)
Record ==
  /\ cache' = remain /\ remain' = remain - chunk
  /\ process' = process + chunk

(* Mutant: the flag is not looked at. *)
GoOnIgnoresAbort ==
  IF cache' <= 0 THEN Over("ok")
  ELSE pc' = "poll" /\ UNCHANGED <<main, test>>

GoOn ==
  IF cache' <= 0 THEN Over("ok")
  ELSE IF abort THEN Over("cancelled")
  ELSE pc' = "poll" /\ UNCHANGED <<main, test>>

(* Where pwrite was told to put the bytes in hand. *)
InHand == process .. process + chunk - 1

(* pwrite is done and has put the bytes B into the file: all of them, or   *)
(* any part when it fails.  Its error is mapped and dropped, so that a     *)
(* write that failed is counted like one that succeeded.                   *)
WriteDone(B) ==
  /\ pc = "write" /\ main # "over"
  /\ file' = file \cup B /\ lost' = lost \cup (InHand \ B)
  /\ Record /\ GoOn
  /\ UNCHANGED <<chunk, sent, abort, late>>

(* The test request answers first, with 206 or another success. *)
TestAnswers(kind) ==
  /\ main = "both" /\ test = "pending"
  /\ test' = kind /\ main' = "draining" /\ abort' = TRUE
  /\ UNCHANGED <<pc, remain, cache, process, chunk, file, lost, sent, late>>

(* Its unwrap()s panic on an error; both futures are dropped, and a write  *)
(* that was going on has put any part B of its bytes into the file.        *)
TestPanics(B) ==
  /\ main = "both" /\ test = "pending" /\ (pc = "write" \/ B = {})
  /\ main' = "over" /\ pc' = "cancelled" /\ test' = "panicked"
  /\ file' = file \cup B
  /\ UNCHANGED <<remain, cache, process, chunk, lost, sent, abort, late>>

Done == main = "over" /\ UNCHANGED vars

Stream == (\E len \in 0 .. MaxChunk : Chunk(len)) \/ StreamEnds \/ StreamFails
Written == \E B \in SUBSET InHand : WriteDone(B)

Next ==
  \/ Stream \/ Written
  \/ \E kind \in {"partial", "whole"} : TestAnswers(kind)
  \/ \E B \in SUBSET InHand : TestPanics(B)
  \/ Done

Spec == Init /\ [][Next]_vars

(* A started write finishes, well or badly. *)
ProgramFair == Spec /\ WF_vars(Written)

(* ... and the server goes on sending, ends the response or breaks it off. *)
ServerFair == ProgramFair /\ WF_vars(Stream)

-----------------------------------------------------------------------------
(* Properties. *)

TypeOK ==
  /\ main \in {"both", "draining", "over"}
  /\ pc \in {"poll", "write"} \cup Ended
  /\ remain \in 0 .. Length /\ cache \in 0 .. Length
  /\ process \in 0 .. Length /\ chunk \in 0 .. Length /\ sent \in 0 .. Length
  /\ file \subseteq Bytes /\ lost \subseteq Bytes
  /\ late \in 0 .. 2 /\ abort \in BOOLEAN
  /\ test \in {"pending", "partial", "whole", "dropped", "panicked"}

(* What the download leaves behind is exact but for failed writes: the     *)
(* remain bytes from process on are not in the file, each one before them  *)
(* is there unless its write failed, and no chunk taken from the stream is *)
(* cut or counted twice, although the cache lags one chunk behind.  The    *)
(* counter alone does not tell a lost byte from a written one.  (A panic   *)
(* leaves a write half done.)                                              *)
RestIsExact ==
  test # "panicked" =>
    /\ process + remain = Length
    /\ pc # "write" => process = sent
    /\ \A b \in Bytes : b \in file <=> b < process /\ b \notin lost

(* The download is under control: when the test has answered it takes one  *)
(* more chunk at most.                                                     *)
OneMoreChunk == late <= 1

(* "It must be guaranteed that download_future can be made to exit": once  *)
(* the abort flag is set, the select is over at some time.                 *)
AbortEnds == abort ~> main = "over"
=============================================================================
