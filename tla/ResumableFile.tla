---------------------------- MODULE ResumableFile ----------------------------
(***************************************************************************)
(* What a download that can be resumed promises, without tasks, slots,     *)
(* requests and counters: bytes only ever arrive, the record on disk names *)
(* every byte that is still missing, and it only ever gets shorter.        *)
(***************************************************************************)
CONSTANT Bytes

VARIABLES
  missing,  \* the bytes that are not in the file yet
  saved     \* the bytes that the stored ResumeInfo asks for

Init == missing = Bytes /\ saved = Bytes

Arrive == missing' \subseteq missing /\ UNCHANGED saved

Save == missing \subseteq saved' /\ saved' \subseteq saved /\ UNCHANGED missing

Next == Arrive \/ Save

Spec == Init /\ [][Next]_<<missing, saved>>
=============================================================================
