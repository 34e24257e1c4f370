----------------------------- MODULE ResumeCheck -----------------------------
(***************************************************************************)
(* group_impl.rs: whether a download can be resumed, decided from the      *)
(* headers of the first response (check_response_resumability) and, when   *)
(* these leave it open, from a test request for a part of the file.        *)
(* set_file_version also notes the file's version in the headers of every  *)
(* later request.  A header is a version (or a length), or NoHeader.       *)
(***************************************************************************)
CONSTANTS
  Versions,   \* values of ETag, Last-Modified and If-Unmodified-Since
  Lengths,    \* values of Content-Length and of a Content-Range's total
  NoHeader,   \* the header is absent
  Unknown     \* a Content-Range that does not tell the total ("bytes a-b/*")

ASSUME HeaderAssumption ==
  /\ NoHeader \notin Versions \cup Lengths
  /\ Unknown \notin Lengths /\ Unknown # NoHeader

Info == [etag : Versions \cup {NoHeader}, ifUnmodifiedSince : Versions \cup {NoHeader}]

Response ==
  [etag          : Versions \cup {NoHeader},
   lastModified  : Versions \cup {NoHeader},
   contentRange  : Lengths \cup {Unknown, NoHeader},
   contentLength : Lengths \cup {NoHeader},
   acceptRanges  : {"bytes", "other", NoHeader}]

ResourceType ==
  [kind : {"Resumable", "UnResumable", "Unconfirmed"}, length : Lengths]
    \cup {[kind |-> "UnknownLength"]}

VARIABLES
  step,       \* "first", "tested" or "done": the request answered next
  info,       \* RequestInfo.headers
  response,   \* the first response
  allow,      \* allow_unversioned_file
  verdict     \* the ResourceType

vars == <<step, info, response, allow, verdict>>

UnknownLength == [kind |-> "UnknownLength"]
(* Mutant: content_length().unwrap(). *)
OfLengthUnwrapped(kind, length) == [kind |-> kind, length |-> length]
OfLength(kind, length) ==
  IF length = NoHeader THEN UnknownLength ELSE [kind |-> kind, length |-> length]

(* The caller may have put any headers into the RequestInfo. *)
Init ==
  /\ step = "first"
  /\ info \in Info /\ response \in Response /\ allow \in BOOLEAN
  /\ verdict = UnknownLength

(* set_file_version: what it leaves in the headers, and what it returns. *)
NotesETag == info.etag = NoHeader /\ response.etag # NoHeader
NotesModified ==
  ~NotesETag /\ info.ifUnmodifiedSince = NoHeader /\ response.lastModified # NoHeader
VersionedInfo ==
  IF NotesETag THEN [info EXCEPT !.etag = response.etag]
  ELSE IF NotesModified THEN [info EXCEPT !.ifUnmodifiedSince = response.lastModified]
  ELSE info
(* Mutant: include_resume_check_header's test of the response alone. *)
VersionedByResponse == response.etag # NoHeader \/ response.lastModified # NoHeader
Versioned == NotesETag \/ NotesModified

(* range.bytes_len().or_else(content_length) *)
RangeLength ==
  IF response.contentRange = Unknown THEN response.contentLength ELSE response.contentRange

Resumability ==
  IF ~Versioned /\ ~allow
  THEN OfLength("UnResumable", response.contentLength)
  ELSE IF response.contentRange # NoHeader
  THEN OfLength("Resumable", RangeLength)
  ELSE OfLength(CASE response.acceptRanges = "bytes"  -> "Resumable"
                  [] response.acceptRanges = "other"  -> "UnResumable"
                  [] OTHER                            -> "Unconfirmed",
                response.contentLength)

(* handle_first_full_response *)
CheckFirst ==
  /\ step = "first"
  /\ verdict' = Resumability
  /\ info' = VersionedInfo
  /\ step' = IF verdict'.kind = "Unconfirmed" THEN "tested" ELSE "done"
  /\ UNCHANGED <<response, allow>>

(* handle_test_request: only a 206 confirms.  A failed request, or an      *)
(* error status, panics (unwrap).                                          *)
CheckTest(partial) ==
  /\ step = "tested" /\ step' = "done"
  /\ verdict' = [verdict EXCEPT !.kind = IF partial THEN "Resumable" ELSE "UnResumable"]
  /\ UNCHANGED <<info, response, allow>>

TestPanics ==
  /\ step = "tested" /\ step' = "panicked"
  /\ UNCHANGED <<info, response, allow, verdict>>

Stopped == step \in {"done", "panicked"} /\ UNCHANGED vars

Next == CheckFirst \/ \E partial \in BOOLEAN : CheckTest(partial) \/ TestPanics \/ Stopped

Spec == Init /\ [][Next]_vars

-----------------------------------------------------------------------------
(* Properties. *)

TypeOK ==
  /\ step \in {"first", "tested", "done", "panicked"}
  /\ info \in Info /\ response \in Response /\ allow \in BOOLEAN
  /\ verdict \in ResourceType

(* A download is resumed only if the next requests can be tied to the      *)
(* version of the file it began with, or the user waived that.             *)
ResumableIsPinned ==
  verdict.kind \in {"Resumable", "Unconfirmed"} /\ ~allow =>
    \/ response.etag # NoHeader /\ info.etag = response.etag
    \/ response.lastModified # NoHeader /\ info.ifUnmodifiedSince = response.lastModified
=============================================================================
