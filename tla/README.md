# A TLA+ verification project for rsDtool

`Dtool_impl` is a library for resumable, multi-connection HTTP downloads, written for any
async runtime and for two thread models. It is work in progress: it does not compile yet, the
task that drives a download (`CanResume::run`) is `todo!()`, and several functions have no
body. What is written is the hard part, the concurrent data structures, and that is
what this directory models, checks with TLC and proves with TLAPS.

All paths below are relative to `src/Dtool_impl/src/downloader/` unless they say otherwise.

## 1. Inventory

| Component | State | Operations | Interacts with | Hard because |
|---|---|---|---|---|
| Download group (`download_group.rs`) | a mutex; under it `State::Busy{slots}` or `Idle`; in every slot a back-index | `lock`, `release_lock`, guard `Drop`, `get_state`/`as_state`, `erase_state`/`into_raw`, `new_reporter`, `swap_remove_and_update_index`, `push_slot`, `update_index`, `my_index_mut`, `swap_slot`, `swap_state`/`to_idle`/`to_busy` | every download task holds a `Reporter`, the visor a `DownloadGroup` | many owners, unsafe derefs that rest on the lock, type states, indices that other tasks' removals change, vectors that leave the group and come back |
| Thread models (`family.rs`) | `BorrowChecker.borrowed`; parking_lot's `RawMutex` | `acquire`, `release` | the group's mutex | everything else relies on it |
| Sub-download (`subcontext.rs`) | shared counter `remain`, private `cache`, `process` | `split_chunk`, `record_writed`, `flash_cache`, `write_all`, `fetch_stream`, `fetch_chunk`, `fetch_conditional` | stream, file, whoever holds the counter | the counter is compared through a stale cache; failures and cancellation at every await; signed counter cast to `usize` |
| Segments (`segment.rs`) | `SegmentIter{step, remain, start}` | `split_by_step`, `split_by_times`, `split_at`, `next` | produces what sub-downloads work on | boundaries, rounding, overflow |
| Resumability (`group_impl.rs`) | request headers | `set_file_version`, `check_response_resumability`, `handle_test_request` | first response, test request | a decision from many optional headers on both sides |
| First response race (`group_impl.rs`) | `remain`, `remain_cache`, `abort_signal` | `build_new`, `DownloadContext::download` | select of two futures | a test's answer against a running download; the abort flag is read after chunks only |
| Group composition (`group_impl.rs`: `SlotExt`, `SlotShareExt`, `ResumeInfo`, `CanResume`) | per slot `end`, under the lock, and `remain`, without it; the stored segments | `run` is `todo!()`: its calls are those of the parts | all of the above | a record is read slot by slot while the counters go down; a slot is split under a running task; the program may be killed at any moment |
| Errors and retry (`error.rs`) | suggestion carried in an error | `error_for_succes`, `From` conversions, `retry_by_strategy` | every request | a status decides whether the body fits the writer's position; suggestions lost on conversion; the retry loop has no arms yet |
| Strategy (`strategy.rs`) | speed estimates (`f32`) | `report_progress`, `report_task_count`, `create_task_suggest` | visor | unfinished, floating point |
| Writers (`pwriter.rs`), requests (`httprequest.rs`), adapters (`marker.rs`, `stream_creater.rs`), `../utils/file_name.rs` | | traits, accessors | | no control of their own |

What makes each one correct:

- **Group**: at most one guard exists; a typed guard agrees with the state; the slot at
  position *i* carries index *i*; a task's index leads to its own slot; while Busy the vector
  holds exactly the slots of the tasks that are not through and those that cancelled tasks left
  behind; no slot is lost or doubled over the sessions that are set aside; whoever waits gets
  the lock.
- **Sub-download**: the counter a download is resumed from never counts a byte that was not
  written; response and file stay aligned; a task never writes into bytes taken away from it and
  stops where they begin; `Ok` means complete.
- **Segments**: the pieces tile the segment, all but the last are full steps, and there are
  as many as were asked for at most.
- **Resumability**: what is resumed is tied to the version of the first response.
- **First response**: however it stops, the rest of the file is known exactly, but for what
  failed writes left out; it stops soon after the test's answer.
- **Session**: while the program runs every byte that is not in the file belongs to a slot, and
  at every moment it is in the stored segments too, so that a kill loses nothing; no two tasks
  write the same byte; nothing lands at another byte's position, as long as servers return the
  range they were asked for.

## 2. Modules

| Module | Models | Built on |
|---|---|---|
| `SlotRegistry`, `SlotRegistryProofs` | what the group promises, without vector, indices and lock; what follows from that alone | |
| `DownloadGroup` | `download_group.rs`, `family.rs` | refines `SlotRegistry` (`RegistrySpec`) |
| `MCDownloadGroup` | instances for TLC, symmetry | `DownloadGroup` |
| `DownloadGroupProofs` | theorems | `DownloadGroup` |
| `RemainWriter`, `RemainWriterProofs` | `subcontext.rs` | |
| `SegmentPieces`, `SegmentPiecesProofs` | which pieces a segment is cut into, as functions of segment and count; the arithmetic of it | |
| `SegmentIter`, `SegmentIterProofs` | `segment.rs`, call by call | extends `SegmentPieces` |
| `ResumeCheck`, `ResumeCheckProofs` | the resumability check of `group_impl.rs` | |
| `FirstResponse`, `FirstResponseProofs` | `build_new` and `DownloadContext::download` | |
| `ErrorPolicy` | `error_for_succes` and the suggestions of `error.rs`, as operators | |
| `ResumableFile` | what a resumable download promises: two sets of bytes | |
| `DownloadSession` | many tasks, their slots, the stored record and a driver, killed and restarted | extends `ErrorPolicy`, `SegmentPieces`; refines `ResumableFile` (`FileSpec`); every task refines `RemainWriter` (`TasksAreWriters`) |
| `MCDownloadSession`, `DownloadSessionProofs` | instances for TLC, symmetry; theorems | `DownloadSession` |

Operators named after a mistake (`SwapRemoveShifts`, `RecordOld`, ...) are mutants: they stand
in front of the operator they vary and are listed in PROJECT.json with the property that
notices the difference. No specification uses them.

### DownloadGroup

One `GroupShared` and the handles that refer to it. A handle is consumed by `lock()` and comes
back from `release_lock()`, so one variable, `phase`, holds its life: `unborn`, `unlocked`,
`waiting` (inside `acquire()`), `raw` (`GroupGuard`, `ReporterGuard`), `busy` and `idle` (the
typed guards), `dropped`. A slot is named after the reporter it was created with; `share` maps a
reporter to the slot it refers to now (`swap_slot` changes it), `index` a slot to its back-index,
`slots` is the vector. `parked` holds the vectors of `Busy` values that callers took out with
`swap_state` or inside `to_idle`, `loose` the removed slots they received. `AsMut<Vec>` and
`IndexMut` of `SlotVec` are `Rearrange`: the caller may leave the slots it can reach in any order
and number, as long as none is there twice (slots are owned). `Busy::slots_mut` gives the same
access to a vector that is parked (`ParkedRearrange`, `ParkedRemove`, `ParkedRenewIndex`), and
without the lock: the indices it renews are shared with reporters that live. A value a caller
drops is one that it never passes back, so dropping needs no action. The ext data of groups and
slots is left out: no control depends on it.

The operations of a typed guard have the phase as their only guard, as the code has the type
only. That the state agrees is a property to be checked, and the arms that are
`unreachable!()` or `unreachable_unchecked()` are reached exactly if it fails.

Who calls these methods is not written yet, so any handle may do anything that the interface
allows at any time. `Obligations` names the contracts of the `unsafe` methods and a few
more assumptions, and every theorem assumes as few of them as it needs:

| Obligation | Content | Where it comes from |
|---|---|---|
| `index` | no `push_slot`, `update_index`, write through `my_index_mut`, or mutable access to the vector (`AsMut`, `IndexMut`), in the group or parked | these are there to move slots by hand |
| `retire` | a slot is removed by its own reporter, once, by `my_index`; such a reporter is not swapped; from a parked vector, whoever holds it may remove slots of tasks that are gone | the use that `Reporter` is made for ("reports the state of a block to the group"); `Busy::slots_mut` |
| `restart` | `swap_state` and `to_busy` install a vector with the live reporters' slots | `download_group.rs:480` and `:646`, "busy must be valid data" |

`restart` is a real demand on code to be written: without it, TLC finds a guard whose slot is not
in the vector (`GuardPaired`) after two state swaps. Nothing is asked of how tasks end. Neither
`Reporter` nor `Slot` has a `Drop` that removes the slot, so a cancelled task leaves its slot
behind (`Gone`), and "the vector is empty" does not come until a driver cleans up: it takes
the `Busy` value out and removes such slots there (`ParkedRemove`), as a removal through
a guard is by a task's own index. That renews indices which live reporters share, without
the group's lock; `IndexesMatchPositions` and `MyIndexIsMine` hold over it. `SlotsAreLive` is
about the live tasks and excepts exactly the slots left behind.

`ThreadModel` is the parameter `F`. `Lockable` is not implemented for `RawMutex` in the
repository; `ThreadSafe` is modelled as the mutex it is meant to be. `BorrowChecker` is
modelled as written.

### RemainWriter

One task of `subcontext.rs`: it takes a chunk, compares its length with its `cache` of the
shared counter, writes, and records what it wrote; each is separated from the next by an await
(or may be, for the write), where the task can be dropped (`Cancel`) and where others may
subtract from the counter (`Steal`). Whoever does that is not written yet; the counter is all
that is shared, so the model lets it take the last *n* bytes away by subtracting *n*. `api`
selects the method: `fetch_chunk` writes the whole buffer although it records only what was
allowed, `fetch_conditional` records nothing and drops the last write's error. The four loops of a
bare `Writer` (`fetch_all`, `fetch_util`, `fetech_chunk`, `fetch_chunk_in_remain`) are methods
without a counter. `Conditional` methods return `None` when their condition holds and go on
when they are called again (`paused`, `Continue`).

`promised` is chosen freely from `Contracts`: `flash` (`flash_cache` was called first; a new
`Remain` caches `i64::MAX`), `margin` (a chunk's worth of bytes is left to the task) and
`fresh`: methods that borrow writer and stream leave both to the caller, who may call again
after a failure or a dropped future (`CallAgain`), although the chunk that was taken from the
stream is gone. Without `fresh`, TLC finds that everything after it lands too early
(`StreamAligned`); fetching anew from the counter, as `DownloadSession` does, is safe. `as
usize` is `n % 2^w`, so a negative cache becomes a huge allowance, as in the code; under
`flash` and `margin` the counter never gets there (`NeverNegative`).

What the uncut last chunk of `fetch_chunk` costs is stated, not only named: it may run into bytes
that were taken away, by one chunk at most (`NoOverrun`, `Overrun`), its counter still never
counts a byte too many and still is zero when it stops.

### SegmentIter, ResumeCheck, FirstResponse

`SegmentIter` cuts one segment in every possible way in arithmetic modulo `Modulus`; a debug
build's overflow panic is the constant `OverflowChecks`. `SegmentPieces` has the same cut as one
function, without words: `DownloadSession` launches with it what a loop over the iterator
collects, and `HandsOutPieces` says that the two agree piece by piece, and are through at the
same piece, unless `split_by_times` overflows. `split_at` always panics after taking
its first piece (its `TryFrom` is `todo!()`). Segments satisfy `start + remain < 2^64`, as all
pieces of a `Segment::full` do.

`ResumeCheck` runs `check_response_resumability` on every combination of request and response
headers, then the test request. A header is a version, a length or absent.

`FirstResponse` is the select of `build_new`: an action is what one poll does between
two awaits. `late` counts the chunks taken after the abort flag was set. HTTP framing keeps a
body within its Content-Length, and `build_new` gets here only when that length is known. `file`
is the set of positions that hold their byte. A `pwrite` may fail with any part of its bytes in
the file (`WriteDone(B)`); the code maps its error, drops the result and counts the bytes
(`group_impl.rs:432-437`), so that the program goes on as if it had succeeded, and what is missing
is in the ghost variable `lost` only. `RestIsExact` therefore says which bytes are in the file
*but for failed writes*: no property says that a counted byte is in the file, since the code does
not ensure it. No branch assigns `test_response`, so the model stops where the select does.

### ErrorPolicy, DownloadSession, ResumableFile

`ErrorPolicy` is `error_for_succes` branch by branch: a status is `Accepted`, `Refused`,
`Panics` or is an error with a `Suggestion`. `Outcome` says what this makes of a task; the
retry loop it assumes tries again unless the suggestion is to break, which is all that its
missing arms can differ in here, as waiting times are not modelled.

`DownloadSession` is the composition. Several tasks fetch one resource into one file:

| State | Code |
|---|---|
| `end[t]`, `remain[t]` | the slot's `SlotExt.end` and `SlotShareExt.remain`; its range is `end - remain .. end - 1` |
| `process[t]`, `cache[t]`, `cut[t]` | the `Writer`'s position, `Remain.cache`, the write in flight; they exist while the task polls or writes |
| `saved` | `ResumeInfo.segments` as stored; with `file`, all that survives a kill |
| `lock`, `todo`, `draft` | a `ResumeInfo` being put together, slot by slot, under the group's lock |
| `body[t]` | whether the accepted response starts where the writer does |

`SlotShareExt.remain` is an `AtomicCell<u64>` (`group_impl.rs:122`), the counter `Remain` lowers an
`AtomicCell<i64>` (`subcontext.rs:15`). Nothing written says how one becomes the other; the model
has one number for both, which never leaves `0 .. Size` (`SessionTypeCorrect`).

Tasks run `fetch_stream` as in `RemainWriter` (`Chunk`, `WriteDone`, `StreamEnds`), after a
request whose status goes through `Outcome` (`Answer`). Requests, streams and writes fail, and
tasks are cancelled, at every await (`NetworkFails`, `WriteStops`); a write that stops has put
any part of its bytes into the file, and so has every write in flight when the program is killed
(`Crash`). `error_for_succes` accepts a 206 by its status and nothing reads the Content-Range of an
answer to a slot's request, so where its body starts is up to the server: `Ranges` says whether a
206 always brings the range asked for (`"asked"`) or may bring another one (`"other"`). Servers
that do the latter are assumed away in `session`, and in the theorems that say so; finding 3 is
what they do to the file.

The driver is external, since `CanResume::run` is `todo!()`: it cuts the stored segments with
`split_by_times` and gives every piece a task (`Launch`), hands in a slot whose counter is
zero, runs a task again that is not through, gives the end of a slot to another task while the
first goes on (`Split`), and saves; in any order, as often as it likes. `fetch_stream`'s `Ok`
tells it nothing, because an early end is `Ok` too (finding 2): it goes by the counter. It
keeps the promises of the parts: `flash` and `margin` of `RemainWriter`, and slots change with
the group's lock held. The lock does not stop `record_writed`: for `margin` a driver must look at
the counter and subtract from it in one atomic step (a compare-and-swap; a load followed by a
`fetch_sub` may leave less than a chunk), and `Split` and `Steal` are that one step. `only_partical` is free for every request. The group appears through
what its theorems promise, a task's own slot and changes of slots under the lock, not through
its vector.

That the tasks of a session are `RemainWriter`s is not left to the reader. `TasksAreWriters`
maps every task, from its first poll until its last write returns, to a `RemainWriter` that
uses `fetch_stream` and whose callers promise all three contracts: positions count from the start
of the file; a `Split` is a `Steal`; steps of other tasks, saves and everything else in the
session are stutters. The mapping starts anew with every request, and ends when a stream or a
write fails, a task is cancelled or the program is killed: the writer is dropped then. The part
of a chunk that was cut off is written nowhere, and left out. So the signed counters of `RemainWriter` need no width here: `NeverNegative` applies.

`ResumableFile` keeps two sets, the missing and the saved bytes: the first only shrinks, the
second always contains it and never grows. `FileSpec` maps them to the
bytes that are not right in `file` and to those that `saved` covers.

## 3. Runs

| Run | Instance | Shows |
|---|---|---|
| `group_any` | 1 visor, 2 reporters, ThreadSafe, no obligations, fair (105,826 states) | types, mutual exclusion and type states hold for arbitrary callers, panics on bad indices and rearranged vectors included; every waiting handle gets the lock |
| `group_contract` | 2 visors, 3 reporters, all obligations (202,874) | back-indices are positions, in the group and in vectors set aside, also when slots of cancelled tasks are removed there; a task finds its own slot, guards are paired, the vector is exact but for cancelled tasks, the slots of tasks that are not through are split up without remainder among the session and those set aside (`SlotsAccounted`), the group refines `SlotRegistry` |
| `group_thread_local` | ThreadLocal | finding 1: two guards at once |
| `segment_iter` | 4-bit words, every segment, step and count (9,784) | tiling, full steps, number of pieces, which are those that `SegmentPieces` names |
| `remain_writer` | 7 bytes, 9 sent, chunks to 3, all seven methods, five sets of promises (94,228) | the counter never counts an unwritten byte, both recording methods account to the byte, file and response stay aligned; for careful callers the counter is never negative, a task stops exactly at its end, and overruns it by no byte (`fetch_chunk`: one chunk) |
| `remain_eof` | 4 bytes | finding 2 |
| `resume_pinned` | 2 versions, 2 lengths, all header combinations (10,758) | a resumable verdict is tied to this response's version |
| `first_response` | 6 bytes, chunks to 3, any part of a write may fail, live server (12,258) | rest exact but for failed writes, one more chunk at most, the select ends |
| `first_abort` | 4 bytes, chunks to 2, silent server allowed | finding 4 |
| `session` | 2 tasks, 4 bytes, chunks to 2, cuts into up to 2, statuses 200, 206, 404, 503, a 206 brings the range asked for (158,989) | no byte is forgotten or written by two, whatever fails and whenever the program is killed; the session refines `ResumableFile`, and every task in it `RemainWriter` |
| `error_status` | the same, statuses 200 and 206 | finding 5 |
| `wrong_range` | the same, status 206 only, with any range | finding 3 |

Why the bounds are enough. Three slots are the least number for which swap-removal from the front,
the middle and the end differ and for which a shifted vector is told from a swapped one
(`group_contract`); a visor and two reporters give every pair of kinds of handle that differ
(`group_any`, whose actions leave so much open that more are out of reach).
`IndexesMatchPositions` needs `index` only, and is proved from it alone; TLC checks it with the
other two obligations as well, where removals are at a task's own index or in a parked vector. Reporters are symmetric (no action names one), which is used for safety only;
`RegistrySpec` has no fairness. Four-bit words contain every relation of step, remain and
overflow. Chunk bounds are at least 2 below the lengths, so that first, middle, cut and last
chunks exist. In `session`, four bytes let a task with a stale cache be split and its last chunk
be cut, and two segments be saved, cut again and resumed; two tasks are the least that can meet,
and a slot that was handed in is given out again. Tasks are symmetric as well. The statuses are
one of each kind: a range, the whole resource, an error to give up on and one to retry (1xx and
3xx panic like a 200 that was asked for a range). The theorems below remove the bounds for every
property except the liveness ones. `late` stops counting at 2, beyond what `OneMoreChunk` tells
apart. Deadlock is checked in every run: the terminal states are explicit self-loops (`AllGone`,
`Panicked`, `Finished`, `Stopped`, `Done`, `Complete`).

Fairness. `FairSpec` (group): strong fairness of each handle's `Acquire`, as parking_lot's
mutexes serve waiters eventually fairly; weak fairness of giving back the guard (release or
drop), as the methods of a guard never block and a guard that stays on a stack is dropped
when it unwinds. A caller that keeps a guard over an await would break it. `ProgramFair`
(first response): a started write finishes. `ServerFair` adds that the server goes on
sending, ends or breaks off; nothing in the code enforces it, and without it the property
fails (finding 4).

### Findings

1. `BorrowChecker` never detects anything (`family.rs:94-96`, `105-107`): `&mut unsafe
   { *self.borrowed.get() }` borrows a temporary copy, so the cell stays `false` and
   `panic!("borrow check error")` is dead code.
2. `fetch_stream` returns `Ok(())` for a response that ended early (`subcontext.rs:280`);
   `SubDownloadError::UnexceptedEOF` is never constructed, and the commented-out earlier
   version panicked with "unexcepted response EOF".
3. `error_for_succes` accepts every 206 (`error.rs:13`) and nothing compares its Content-Range with
   the range asked for; `ErrorContentRange` (`error.rs:223`, `232`) is declared for exactly that
   and never constructed. A body that starts elsewhere is written where the task stands and counted.
4. `build_new` awaits an aborted download that reads the flag only after a chunk
   (`group_impl.rs:166`, `443`): with a silent server it never returns, against its own comment.
5. `error_for_succes` panics on a 200 when `only_partical` is set (`error.rs:21`), as on any 1xx or
   3xx: no branch returns, and `error_for_status_ref()` of a response that is no error is
   unwrapped. `ErrorSuccesStatus` is declared and worded (`error.rs:222`, `234`) for exactly this
   answer; it is returned for a 200 when `only_partical` is not set (`error.rs:14-15`), when
   the answer could be used from its first byte on.

Open points that are no run of their own: `DownloadContext::download` drops the result of `pwrite`
(`group_impl.rs:432-435`), although its own `Result` has a variant for the error: a download with
failed writes returns `Ok(())` and counts the bytes; `set_file_version` answers `false` when the
request already carries the version headers (`group_impl.rs:262-263`), so that the second response
of a download whose `RequestInfo` was kept is refused as "no version identifier"; it also stores the ETag under the request
header `ETag`, which servers do not evaluate (`httprequest.rs` has an unfinished `If-Match`
counterpart), so `ResumableIsPinned` says that the version is recorded, not that the server
enforces it; `ResourceType::length()` ignores `Unconfirmed`; `StreamFamily for &Client` unwraps
the result of its request and streams the body of any status (`stream_creater.rs:23`);
`with_parts` refuses headers with a `Range`, `RequestInfo::new` does not, and `with_url` builds a
header map with a `Range` that it then drops; the test of `get_file_name` expects `"a"` for a path
that ends in `/`, where the function returns `None`.

## 4. Theorems

All theorems are checked by TLAPS for every value of the constants that satisfies the module's
assumption, without further axioms.

**DownloadGroup.** `TypeCorrect`. `GuardsExclude` and `TypestateCorrect` (ThreadSafe, no
obligations) follow from `LockInv`: a guard exists only while `locked` is set, there is one at
most, and a typed guard agrees with the state. The first part is needed because exclusion alone
does not survive `Acquire`. `IndexesCorrect` (`index`) follows from `SlotInv`, which adds to
the indices that all vectors, inside and outside the group, are disjoint and that an unborn
reporter's slot is in none: otherwise a removal here would spoil an index there
(`NoSlotTwice`, `IndexedElsewhere`). `MyIndexCorrect` and `GuardsPaired` (ThreadSafe, `index`,
`retire`, `restart`) add `PairInv`: no two reporters share a slot and every live reporter's
slot is in the busy vector.
`GroupImplementsRegistry` maps each step to one of `SlotRegistry` or a stutter under these
invariants; the heart is `SwapRemoveRange`: swap-removal at an index takes exactly that
slot out of the set. Cleaning up a vector set aside is the registry's `Discard`, which needs that
no live task's slot goes with it (`SwapRemoveGone`, `ParkedApart`). Lemmas about vectors come first in the module. `RegistryPartition`
(`SlotRegistryProofs`) says of the abstract registry that the slots of unfinished tasks are
partitioned among the open session and those set aside; its invariant, `RegistryInv`, adds that
no two tasks refer to one slot, not even those that are through or not there yet: otherwise a
registration or a hand-in would be about another task's slot as well. `SlotsPartitioned` is the same of the group, with
nothing proved again: the refinement carries the registry's theorem over to it. With `PairInv` it
gives `SlotsCorrect`: every slot in the busy vector is a live task's or one that a task left behind.

**RemainWriter.** `NothingUnwrittenIsRecorded` and `AccountsAreExact` from `WriteInv` (for any
callers), `NeverOverruns`, `CounterInRange` and `StopsWhereItShould` from `CacheInv` (careful
callers of `fetch_stream` and `fetch_chunk`): a cache that differs from the counter is an older,
larger value, and then a whole chunk is left, so that whatever the cache allows fits.

`StaysAligned` (callers that promised `fresh`) follows from `AlignInv`, which adds that during a
write the chunk in hand is the only difference; `WriterTypeCorrect` is a part of `WriteInv`.

**SegmentIter.** `SegmentTypeCorrect` and `PiecesCoverSegment` from `IInv`; `StepsAreFull` and
`TimesIsABound` from `CountInv`, which bounds the number of pieces by what is left (a product:
every full piece takes a step off the segment). `PiecesAreHandedOut` is from the same invariant,
which also has the step as the quotient it was computed as and every piece so far as the piece of
its number. `PiecesTile` (`SegmentPiecesProofs`) says that cutting a segment loses and
invents no byte, the arithmetic that `Launch` rests on.

**ResumeCheck.** `VerdictTypeCorrect`, `VerdictIsPinned`. **FirstResponse.** `FirstTypeCorrect`,
`RestCorrect`, `StopsInTime` from an invariant that says that the cache is never below the counter,
that the chunk in hand is the only difference between stream and counters, and that the file holds
what was counted but for the `lost` bytes.

**DownloadSession.** All from one invariant, `IInv`, that has these parts:
`SlotsInv` (slots are ranges of the resource, and of two of them one ends where the other starts
or earlier), `SavedInv` (the stored segments are apart and cover every slot), `WritersInv` (a
running writer stands at the start of its slot; the write in flight fits; a cache that differs
from the counter is older and larger, and then at least a chunk is left) and `DraftInv` (the
segments collected so far cover the slots that were read, stay apart from those that were not, and
lie within the old record). Exclusion of writes alone is not inductive: that a task which was
split behind its back stays in its range rests on the margin and its stale cache together.
`DraftInv` is why a record read slot by slot is good at the moment it replaces the old one: splits
and hand-ins wait for the lock, and counters only go down after their bytes are in the file. From
it follow `SessionTypeCorrect`, `NothingForgotten` (`MissingOwned`), `KilledAnywhere`
(`MissingSaved`), `WritesApart`, `StaysInStep` and `SessionImplementsFile`, for
any number of tasks, any size, chunk and cut. The invariant holds for servers that return any range:
its parts about the record speak of bytes that nobody has written, rightly or wrongly
(`UnwrittenKept`). That the missing bytes are just these is `HonestInv`, which needs
`Ranges = {"asked"}`: `NothingForgotten`, `KilledAnywhere` and `SessionImplementsFile` assume it
and would be false without.

`TasksImplementWriters` proves the second refinement, `TasksAreWriters`, from the same invariant,
one lemma per step of a writer (`WriterChunk`, `WriterWritten`, `WriterStolen`, ...) and one for all
that leaves it alone (`WriterUndisturbed`). It made `WritersInv` stronger: outside a write `cut`
must be zero, which no other property had needed.

Only model-checked: `LockGranted` and `AbortEnds`, which are liveness under fairness and out of
the prover's reach.

## 5. Not modelled

- The ext data of groups and slots, except `end` and `remain`; `GroupShareExt`'s `process` and
  `abort`, which nothing uses.
- `mem::swap` of two groups' guards through `as_group_mut`: it exchanges whole groups.
- A panic of the closure of `to_idle`/`to_busy`: forbidden by their safety contract.
- Weak memory: the mutex orders all accesses of the group; `remain` is a single atomic cell and
  each access is one atomic step.
- `CanResume::run`, the arms of `retry_by_strategy` and implementations of `RequestLimiter`: not
  written. The driver of `DownloadSession` stands for the first; waiting between retries, and the
  suggestion that the conversion into `SubError` drops (`error.rs:422`), have no effect yet.
- What `build_new` does after its select, `first_response_download` and
  `hanlde_uncomfirmed_response`: no complete bodies.
- The `BufWriter` implementations.
- Strategy, writers, request accessors: see the reasons in PROJECT.json.

## 6. Plan

Done, in this order: the group with its abstract registry and refinement, its proofs; segments;
the sub-download; the resumability check; the first response race; mutable access to the
group's vectors; the loops of a bare `Writer`; the status policy; the session with its
abstract file, and its proofs; the slots over all sessions, as a property of the registry that
the group inherits; the pieces of a segment, shared by iterator and session; the tasks of
a session as `RemainWriter`s.

What is left waits for the code. When `CanResume::run` is written, its calls replace the free
driver of `DownloadSession`, whose theorems then hold for it if it keeps the promises named
above, and its progress (every byte arrives, given a server that answers) can be stated. With
arms in `retry_by_strategy`, `Outcome` becomes a loop with attempts and suggestions that are
lost or kept. With a mapping after `build_new`'s select, `FirstResponse` hands its `remain` to a
session as the first record.
