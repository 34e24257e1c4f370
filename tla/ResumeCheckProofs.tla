-------------------------- MODULE ResumeCheckProofs --------------------------
(* Theorems about ResumeCheck, for any set of versions and lengths. *)
EXTENDS ResumeCheck, TLAPS

(* Whatever headers the caller and the server chose, a resumable verdict   *)
(* comes with a version of this very response in the request headers.      *)
THEOREM VerdictIsPinned == Spec => []ResumableIsPinned
<1> DEFINE Inv == /\ step = "first" => verdict = UnknownLength
                  /\ step = "tested" => verdict.kind = "Unconfirmed"
                  /\ info \in Info /\ response \in Response /\ ResumableIsPinned
<1>1. Init => Inv
  BY DEF Init, UnknownLength, ResumableIsPinned
<1>2. Inv /\ [Next]_vars => Inv'
  <2> SUFFICES ASSUME Inv, [Next]_vars PROVE Inv'
    OBVIOUS
  <2>1. CASE CheckFirst
    <3>1. /\ info' = VersionedInfo /\ verdict' = Resumability /\ step' # "first"
          /\ step' = "tested" => verdict'.kind = "Unconfirmed"
          /\ UNCHANGED <<response, allow>>
      BY <2>1 DEF CheckFirst
    <3>2. info' \in Info
      BY <3>1 DEF VersionedInfo, NotesETag, NotesModified, Info, Response
    <3>3. CASE ~Versioned /\ ~allow
      <4>1. verdict'.kind \notin {"Resumable", "Unconfirmed"}
        BY <3>1, <3>3 DEF Resumability, OfLength, UnknownLength
      <4> QED
        BY <3>1, <3>2, <4>1 DEF ResumableIsPinned
    <3>4. CASE Versioned
      <4>1. \/ response.etag # NoHeader /\ info'.etag = response.etag
            \/ response.lastModified # NoHeader
               /\ info'.ifUnmodifiedSince = response.lastModified
        BY <3>1, <3>4 DEF Versioned, VersionedInfo, NotesETag, NotesModified, Info
      <4> QED
        BY <3>1, <3>2, <4>1 DEF ResumableIsPinned
    <3>5. CASE allow
      BY <3>1, <3>2, <3>5 DEF ResumableIsPinned
    <3> QED
      BY <3>3, <3>4, <3>5
  <2>2. ASSUME NEW partial \in BOOLEAN, CheckTest(partial) PROVE Inv'
    <3>1. step = "tested" /\ step' = "done" /\ UNCHANGED <<info, response, allow>>
      BY <2>2 DEF CheckTest
    <3> QED
      BY <2>2, <3>1 DEF CheckTest, ResumableIsPinned
  <2>3. CASE TestPanics
    BY <2>3 DEF TestPanics, ResumableIsPinned
  <2>4. CASE UNCHANGED vars
    BY <2>4 DEF vars, ResumableIsPinned
  <2> QED
    BY <2>1, <2>2, <2>3, <2>4 DEF Next, Stopped
<1> QED
  BY <1>1, <1>2, PTL DEF Spec

(* Every verdict has a length that a header told, or says there is none.   *)
LEMMA VerdictType ==
  ASSUME response \in Response
  PROVE  Resumability \in ResourceType
<1> DEFINE Kinds == {"Resumable", "UnResumable", "Unconfirmed"}
<1>1. ASSUME NEW kind \in Kinds, NEW length \in Lengths \cup {NoHeader}
      PROVE  OfLength(kind, length) \in ResourceType
  BY DEF OfLength, UnknownLength, ResourceType
<1>2. response.contentLength \in Lengths \cup {NoHeader}
  BY DEF Response
<1>3. ASSUME response.contentRange # NoHeader PROVE RangeLength \in Lengths \cup {NoHeader}
  BY <1>3 DEF RangeLength, Response
<1>4. CASE ~Versioned /\ ~allow
  BY <1>1, <1>2, <1>4 DEF Resumability
<1>5. CASE ~(~Versioned /\ ~allow) /\ response.contentRange # NoHeader
  BY <1>1, <1>3, <1>5 DEF Resumability
<1>6. CASE ~(~Versioned /\ ~allow) /\ ~(response.contentRange # NoHeader)
  <2>1. PICK kind \in Kinds : Resumability = OfLength(kind, response.contentLength)
    <3>1. CASE response.acceptRanges = "bytes"
      BY <1>6, <3>1 DEF Resumability
    <3>2. CASE response.acceptRanges = "other"
      BY <1>6, <3>2 DEF Resumability
    <3>3. CASE response.acceptRanges \notin {"bytes", "other"}
      BY <1>6, <3>3 DEF Resumability
    <3> QED
      BY <3>1, <3>2, <3>3
  <2> QED
    BY <1>1, <1>2, <2>1
<1> QED
  BY <1>4, <1>5, <1>6

(* The state of a check is always one of the types of the code. *)
THEOREM VerdictTypeCorrect == Spec => []TypeOK
<1> DEFINE Inv == TypeOK /\ (step = "tested" => verdict.kind = "Unconfirmed")
<1>1. Init => Inv
  BY DEF Init, TypeOK, UnknownLength, ResourceType
<1>2. Inv /\ [Next]_vars => Inv'
  <2> SUFFICES ASSUME Inv, [Next]_vars PROVE Inv'
    OBVIOUS
  <2>0. /\ step \in {"first", "tested", "done", "panicked"}
        /\ info \in Info /\ response \in Response /\ allow \in BOOLEAN
        /\ verdict \in ResourceType
    BY DEF TypeOK
  <2>1. CASE CheckFirst
    <3>1. /\ verdict' = Resumability /\ response' = response /\ allow' = allow
          /\ step' \in {"tested", "done"}
          /\ step' = "tested" => verdict'.kind = "Unconfirmed"
      BY <2>1 DEF CheckFirst
    <3>2. info' \in Info
      BY <2>0, <2>1 DEF CheckFirst, VersionedInfo, NotesETag, NotesModified, Info, Response
    <3>3. verdict' \in ResourceType
      BY <2>0, <3>1, VerdictType
    <3>4. allow' \in BOOLEAN
      BY <2>0, <3>1, Zenon
    <3> QED
      BY <2>0, <3>1, <3>2, <3>3, <3>4 DEF TypeOK
  <2>2. ASSUME NEW partial \in BOOLEAN, CheckTest(partial) PROVE Inv'
    <3>1. /\ step = "tested" /\ step' = "done"
          /\ info' = info /\ response' = response /\ allow' = allow
      BY <2>2 DEF CheckTest
    <3>2. verdict \in [kind : {"Resumable", "UnResumable", "Unconfirmed"}, length : Lengths]
      BY <2>0, <3>1 DEF ResourceType
    <3>3. verdict' \in ResourceType
      BY <2>2, <3>2 DEF CheckTest, ResourceType
    <3>4. allow' \in BOOLEAN
      BY <2>0, <3>1, Zenon
    <3> QED
      BY <2>0, <3>1, <3>3, <3>4 DEF TypeOK
  <2>3. CASE TestPanics
    BY <2>0, <2>3 DEF TestPanics, TypeOK
  <2>4. CASE UNCHANGED vars
    BY <2>0, <2>4 DEF vars, TypeOK
  <2> QED
    BY <2>1, <2>2, <2>3, <2>4 DEF Next, Stopped
<1>3. Inv => TypeOK
  OBVIOUS
<1> QED
  BY <1>1, <1>2, <1>3, PTL DEF Spec
=============================================================================
