--------------------------- MODULE DownloadSession ---------------------------
(***************************************************************************)
(* A download that is resumed, from its parts: the stored segments are cut *)
(* into slots (segment.rs; group_impl.rs, SlotExt and SlotShareExt), every *)
(* task asks for the range of its slot, looks at the status (error.rs) and *)
(* runs RemainWriter::fetch_stream (subcontext.rs) into the file.          *)
(*                                                                         *)
(* Who puts the parts together is not written yet (CanResume::run is       *)
(* todo!()), so that what a driver does to them, Launch, HandIn, Retry,    *)
(* Split, the three steps of saving a ResumeInfo, and being killed, may    *)
(* happen in any order here.  The driver keeps the contracts that          *)
(* RemainWriter and DownloadGroup ask for, and holds the group's lock for  *)
(* what changes slots; the counters change without it.                     *)
(***************************************************************************)
EXTENDS ErrorPolicy, SegmentPieces, FiniteSets, Functions

CONSTANTS
  Size,      \* the length of the resource
  Tasks,     \* the tasks there may be, and with each the slot it reports for
  MaxChunk,  \* the longest chunk of a response
  MaxTimes,  \* into how many pieces a segment is cut at most
  Statuses,  \* what servers answer
  Ranges     \* which range a 206 brings: the one "asked" for, or an "other"

ASSUME SessionAssumption ==
  /\ Size \in Nat \ {0} /\ MaxChunk \in Nat \ {0} /\ MaxTimes \in Nat \ {0}
  /\ Statuses \subseteq 100 .. 599 /\ Ranges \subseteq {"asked", "other"}

VARIABLES
  file,     \* what the file holds at each position
  saved,    \* ResumeInfo.segments as stored, the only thing but the file to survive
  mode,     \* whether the program is up
  pc,       \* what each task is doing; "free" when there is no such slot
  end,      \* SlotExt.end
  remain,   \* SlotShareExt.remain
  process,  \* Writer.process
  cache,    \* Remain.cache
  cut,      \* length of the write in flight
  body,     \* whether the response starts where the writer does
  lock,     \* "save" while the driver reads the slots
  todo,     \* the slots it has not read yet
  draft     \* the segments it has collected

slots == <<end, remain>>
writer == <<process, cache, cut, body>>
saving == <<lock, todo, draft>>
vars == <<file, saved, mode, pc, slots, writer, saving>>

Bytes == 0 .. Size - 1
Segment == {s \in [start : Bytes, remain : 1 .. Size] : s.start + s.remain <= Size}
Covered(S) == {b \in Bytes : \E s \in S : Covers(s, b)}

(* The bytes a slot still asks for.  The slot's counter is an atomic u64,  *)
(* the one Remain lowers an atomic i64: one number here, as nothing says   *)
(* how one becomes the other and it stays within 0 .. Size.                *)
Start(t) == end[t] - remain[t]
Owns(t, b) == pc[t] # "free" /\ Start(t) <= b /\ b < end[t]

(* The bytes of the write that a task waits for. *)
InFlight(t) == IF pc[t] = "write" THEN process[t] .. process[t] + cut[t] - 1 ELSE {}

Init ==
  /\ file = [b \in Bytes |-> "missing"]
  /\ saved = {[start |-> 0, remain |-> Size]}
  /\ mode = "down"
  /\ pc = [t \in Tasks |-> "free"] /\ body = [t \in Tasks |-> "aligned"]
  /\ end = [t \in Tasks |-> 0] /\ remain = [t \in Tasks |-> 0]
  /\ process = [t \in Tasks |-> 0] /\ cache = [t \in Tasks |-> 0]
  /\ cut = [t \in Tasks |-> 0]
  /\ lock = "free" /\ todo = {} /\ draft = {}

-----------------------------------------------------------------------------
(* The tasks. *)

(* A task's future is done: its writer and its Remain are dropped. *)
Leaves(t, how) ==
  /\ pc' = [pc EXCEPT ![t] = how] /\ body' = [body EXCEPT ![t] = "aligned"]
  /\ process' = [process EXCEPT ![t] = 0] /\ cache' = [cache EXCEPT ![t] = 0]
  /\ cut' = [cut EXCEPT ![t] = 0]

(* Where an accepted answer starts.  The status decides alone whether it   *)
(* is accepted: a 206 is one whatever its Content-Range, which is not read.*)
(* Any other status comes with the resource from its first byte.           *)
StartsAt(t, status, range) ==
  IF (status = 206 /\ range = "asked") \/ (status # 206 /\ Start(t) = 0)
  THEN "aligned" ELSE "shifted"

(* The answer to the request for Start(t) .. end[t] - 1; a new RemainWriter *)
(* starts there, with flash_cache called.                                  *)
Answer(t, status, only_partical, range) ==
  /\ pc[t] = "request"
  /\ IF Outcome(status, only_partical) = "poll"
     THEN /\ pc' = [pc EXCEPT ![t] = "poll"]
          /\ process' = [process EXCEPT ![t] = Start(t)]
          /\ cache' = [cache EXCEPT ![t] = remain[t]]
          /\ body' = [body EXCEPT ![t] = StartsAt(t, status, range)]
          /\ UNCHANGED cut
     ELSE Leaves(t, Outcome(status, only_partical))
  /\ UNCHANGED <<file, saved, mode, slots, saving>>

(* Mutant: a chunk is compared with the end that the request asked for.    *)
ChunkUncut(t, len) ==
  /\ pc[t] = "poll"
  /\ pc' = [pc EXCEPT ![t] = "write"]
  /\ cut' = [cut EXCEPT ![t] = len]
  /\ UNCHANGED <<file, saved, mode, slots, process, cache, body, saving>>

(* fetch_stream takes a chunk and split_chunk cuts it down to the cache.   *)
Chunk(t, len) ==
  /\ pc[t] = "poll"
  /\ pc' = [pc EXCEPT ![t] = "write"]
  /\ cut' = [cut EXCEPT ![t] = IF len < cache[t] THEN len ELSE cache[t]]
  /\ UNCHANGED <<file, saved, mode, slots, process, cache, body, saving>>

(* Those bytes B of t's write reach the file. *)
Lands(B) ==
  file' = [b \in Bytes |->
             IF \E t \in Tasks : b \in B \cap InFlight(t) /\ body[t] = "shifted" THEN "wrong"
             ELSE IF b \in B THEN "right" ELSE file[b]]

(* pwrite is done; write_all advances the writer and record_writed the     *)
(* counter.  split_chunk said Break when the write reached the cache.      *)
WriteDone(t) ==
  /\ pc[t] = "write"
  /\ Lands(InFlight(t))
  /\ remain' = [remain EXCEPT ![t] = @ - cut[t]]
  /\ IF cut[t] = cache[t]
     THEN Leaves(t, "returned")
     ELSE /\ pc' = [pc EXCEPT ![t] = "poll"]
          /\ process' = [process EXCEPT ![t] = @ + cut[t]]
          /\ cache' = [cache EXCEPT ![t] = remain[t] - cut[t]]
          /\ cut' = [cut EXCEPT ![t] = 0]
          /\ UNCHANGED body
  /\ UNCHANGED <<saved, mode, end, saving>>

(* pwrite fails, or the task is cancelled meanwhile, with any part of the  *)
(* bytes in the file.                                                      *)
WriteStops(t, B) ==
  /\ pc[t] = "write" /\ B \subseteq InFlight(t)
  /\ Lands(B)
  /\ Leaves(t, "stopped")
  /\ UNCHANGED <<saved, mode, slots, saving>>

(* fetch_stream returns Ok(()) when the stream ends, early or not. *)
StreamEnds(t) ==
  /\ pc[t] = "poll"
  /\ Leaves(t, "returned")
  /\ UNCHANGED <<file, saved, mode, slots, saving>>

(* The request or the stream fails, or the task is cancelled there. *)
NetworkFails(t) ==
  /\ pc[t] \in {"request", "poll"}
  /\ Leaves(t, "stopped")
  /\ UNCHANGED <<file, saved, mode, slots, saving>>

-----------------------------------------------------------------------------
(* The driver. *)

(* The program starts: each of the tasks T gets a piece of what is stored. *)
Launch(n, T, g) ==
  /\ mode = "down" /\ saved # {}
  /\ g \in Bijection(T, UNION {Pieces(s, n) : s \in saved})
  /\ mode' = "up"
  /\ pc' = [t \in Tasks |-> IF t \in T THEN "request" ELSE "free"]
  /\ end' = [t \in Tasks |-> IF t \in T THEN g[t].start + g[t].remain ELSE 0]
  /\ remain' = [t \in Tasks |-> IF t \in T THEN g[t].remain ELSE 0]
  /\ UNCHANGED <<file, saved, writer, saving>>

(* Mutant: Ok(()) is taken to mean that all was written. *)
HandInOnOk(t) ==
  /\ lock = "free" /\ pc[t] = "returned"
  /\ pc' = [pc EXCEPT ![t] = "free"]
  /\ end' = [end EXCEPT ![t] = 0] /\ remain' = [remain EXCEPT ![t] = 0]
  /\ UNCHANGED <<file, saved, mode, writer, saving>>

(* The slot of a task that is through is removed from the group. *)
HandIn(t) ==
  /\ lock = "free" /\ pc[t] \in {"returned", "stopped"} /\ remain[t] = 0
  /\ pc' = [pc EXCEPT ![t] = "free"]
  /\ end' = [end EXCEPT ![t] = 0] /\ remain' = [remain EXCEPT ![t] = 0]
  /\ UNCHANGED <<file, saved, mode, writer, saving>>

(* A task that is not through is run again. *)
Retry(t) ==
  /\ pc[t] \in {"returned", "stopped"} /\ remain[t] # 0
  /\ pc' = [pc EXCEPT ![t] = "request"]
  /\ UNCHANGED <<file, saved, mode, slots, writer, saving>>

(* Mutants: the end of the slot that was split is left; a task is left     *)
(* with less than a chunk.                                                 *)
SplitKeepsEnd(t, n, u) ==
  /\ lock = "free" /\ pc[t] # "free" /\ pc[u] = "free"
  /\ remain[t] - n >= MaxChunk
  /\ pc' = [pc EXCEPT ![u] = "request"]
  /\ end' = [end EXCEPT ![u] = end[t]]
  /\ remain' = [remain EXCEPT ![t] = @ - n, ![u] = n]
  /\ UNCHANGED <<file, saved, mode, writer, saving>>
SplitNoMargin(t, n, u) ==
  /\ lock = "free" /\ pc[t] # "free" /\ pc[u] = "free"
  /\ remain[t] - n >= 0
  /\ pc' = [pc EXCEPT ![u] = "request"]
  /\ end' = [end EXCEPT ![t] = @ - n, ![u] = end[t]]
  /\ remain' = [remain EXCEPT ![t] = @ - n, ![u] = n]
  /\ UNCHANGED <<file, saved, mode, writer, saving>>

(* Another task u takes over the last n bytes of t's slot, at any time.    *)
(* The lock keeps other changes of slots away, but not record_writed, so   *)
(* that looking at the margin and subtracting n must be one atomic step on *)
(* the counter (a compare-and-swap), as they are here.                     *)
Split(t, n, u) ==
  /\ lock = "free" /\ pc[t] # "free" /\ pc[u] = "free"
  /\ remain[t] - n >= MaxChunk
  /\ pc' = [pc EXCEPT ![u] = "request"]
  /\ end' = [end EXCEPT ![t] = @ - n, ![u] = end[t]]
  /\ remain' = [remain EXCEPT ![t] = @ - n, ![u] = n]
  /\ UNCHANGED <<file, saved, mode, writer, saving>>

(* A ResumeInfo is made with the lock held, one slot after the other while *)
(* the tasks go on, and replaces the stored one at the end.                *)
BeginSave ==
  /\ mode = "up" /\ lock = "free"
  /\ lock' = "save" /\ todo' = {t \in Tasks : pc[t] # "free"} /\ draft' = {}
  /\ UNCHANGED <<file, saved, mode, pc, slots, writer>>

(* Mutant: what is being written counts as done. *)
SaveSlotInFlight(t) ==
  LET left == remain[t] - cut[t] IN
  /\ lock = "save" /\ t \in todo
  /\ todo' = todo \ {t}
  /\ draft' = draft \cup
       (IF left <= 0 THEN {} ELSE {[start |-> end[t] - left, remain |-> left]})
  /\ UNCHANGED <<file, saved, mode, pc, slots, writer, lock>>

SaveSlot(t) ==
  /\ lock = "save" /\ t \in todo
  /\ todo' = todo \ {t}
  /\ draft' = draft \cup
       (IF remain[t] = 0 THEN {} ELSE {[start |-> Start(t), remain |-> remain[t]]})
  /\ UNCHANGED <<file, saved, mode, pc, slots, writer, lock>>

EndSave ==
  /\ lock = "save" /\ todo = {}
  /\ saved' = draft
  /\ lock' = "free" /\ draft' = {}
  /\ UNCHANGED <<file, mode, pc, slots, writer, todo>>

(* The program is killed: of every write in flight any part is done. *)
Crash(B) ==
  /\ mode = "up" /\ B \subseteq UNION {InFlight(t) : t \in Tasks}
  /\ Lands(B)
  /\ mode' = "down"
  /\ pc' = [t \in Tasks |-> "free"] /\ body' = [t \in Tasks |-> "aligned"]
  /\ end' = [t \in Tasks |-> 0] /\ remain' = [t \in Tasks |-> 0]
  /\ process' = [t \in Tasks |-> 0] /\ cache' = [t \in Tasks |-> 0]
  /\ cut' = [t \in Tasks |-> 0]
  /\ lock' = "free" /\ todo' = {} /\ draft' = {}
  /\ UNCHANGED saved

(* Nothing is left to be resumed. *)
Complete == mode = "down" /\ saved = {} /\ UNCHANGED vars

TaskStep(t) ==
  \/ \E status \in Statuses, only_partical \in BOOLEAN, range \in Ranges :
       Answer(t, status, only_partical, range)
  \/ \E len \in 0 .. MaxChunk : Chunk(t, len)
  \/ WriteDone(t)
  \/ \E B \in SUBSET InFlight(t) : WriteStops(t, B)
  \/ StreamEnds(t) \/ NetworkFails(t)

DriverStep(t) ==
  \/ HandIn(t) \/ Retry(t) \/ SaveSlot(t)
  \/ \E n \in 1 .. Size, u \in Tasks : Split(t, n, u)

Next ==
  \/ \E t \in Tasks : TaskStep(t) \/ DriverStep(t)
  \/ \E n \in 1 .. MaxTimes, T \in SUBSET Tasks :
       \E g \in Bijection(T, UNION {Pieces(s, n) : s \in saved}) : Launch(n, T, g)
  \/ BeginSave \/ EndSave
  \/ \E B \in SUBSET UNION {InFlight(t) : t \in Tasks} : Crash(B)
  \/ Complete

Spec == Init /\ [][Next]_vars

-----------------------------------------------------------------------------
(* Properties. *)

TypeOK ==
  /\ file \in [Bytes -> {"missing", "right", "wrong"}]
  /\ saved \subseteq Segment /\ draft \subseteq Segment
  /\ mode \in {"up", "down"} /\ lock \in {"free", "save"} /\ todo \subseteq Tasks
  /\ pc \in [Tasks -> {"free", "request", "poll", "write",
                       "returned", "stopped", "ended", "panicked"}]
  /\ end \in [Tasks -> 0 .. Size] /\ remain \in [Tasks -> 0 .. Size]
  /\ process \in [Tasks -> 0 .. Size] /\ cache \in [Tasks -> 0 .. Size]
  /\ cut \in [Tasks -> 0 .. Size]
  /\ body \in [Tasks -> {"aligned", "shifted"}]

Missing == {b \in Bytes : file[b] # "right"}

(* While the program is up, every byte that is not in the file is in the   *)
(* range of some task's slot, so that nothing is forgotten when tasks end  *)
(* early, are retried, split, or handed in.                                *)
MissingOwned == mode = "up" => \A b \in Missing : \E t \in Tasks : Owns(t, b)

(* Every byte that is not in the file is in a stored segment: whenever the *)
(* program is killed, also between a write and its record and while slots  *)
(* are being read one by one, the next start fetches it.                   *)
MissingSaved == Missing \subseteq Covered(saved)

(* Two writes in flight never meet, and none leaves its slot's range,      *)
(* although a task looks at its cache only while slots are split.          *)
OneWriter ==
  \A t \in Tasks :
    /\ \A b \in InFlight(t) : Owns(t, b)
    /\ \A u \in Tasks \ {t} : InFlight(t) \cap InFlight(u) = {}

(* The writer of a running task stands where its slot says that the first  *)
(* missing byte is; end is guarded by the lock, remain is not.             *)
ProcessInStep == \A t \in Tasks : pc[t] \in {"poll", "write"} => process[t] = Start(t)

(* DownloaderError says that ErrorContentRange is the error of a server    *)
(* that returns another range than it was asked for: a body that does not  *)
(* start where the writer does is never taken, and no byte of another      *)
(* position gets into the file.                                            *)
FileRight == \A b \in Bytes : file[b] # "wrong"

(* DownloaderError says that ErrorSuccesStatus is the error of a server    *)
(* that "should return Partical response, but didn't".  So a caller that   *)
(* needs a range gets this error for a 200, and no panic.                  *)
RefusalIsReported == \A t \in Tasks : pc[t] # "panicked"

File == INSTANCE ResumableFile WITH missing <- Missing, saved <- Covered(saved)

(* The session implements ResumableFile. *)
FileSpec == File!Spec

(* Task t's future as a RemainWriter that fetch_stream runs, complete when *)
(* it is no longer running.  Positions are those of the file, and what is  *)
(* cut off a chunk is left out.                                            *)
Running(t) == pc[t] \in {"poll", "write"}
Writer(t) == INSTANCE RemainWriter WITH
  Apis <- {"fetch_stream"}, Contracts <- {{"flash", "margin", "fresh"}},
  Length <- Size, StreamLen <- Size, MaxI64 <- Size + MaxChunk,
  promised <- {"flash", "margin", "fresh"}, api <- "fetch_stream",
  pc <- IF Running(t) THEN pc[t] ELSE "complete",
  remain <- remain[t], cache <- IF Running(t) THEN cache[t] ELSE remain[t],
  process <- IF Running(t) THEN process[t] ELSE Start(t),
  sent <- IF Running(t) THEN process[t] + cut[t] ELSE Start(t),
  chunk <- cut[t], cut <- cut[t],
  last <- pc[t] = "write" /\ cut[t] = cache[t], stolen <- Size - end[t]

(* A future takes the steps of a RemainWriter whose callers keep every     *)
(* contract until it returns from its last write, whatever the driver, the *)
(* other tasks and whoever saves do meanwhile: a split is a Steal.         *)
TasksAreWriters ==
  [][\A t \in Tasks :
       \/ Running(t) /\ Running(t)'
       \/ pc[t] = "write" /\ pc'[t] = "returned"
       => [Writer(t)!Next]_(Writer(t)!vars)]_vars
=============================================================================
