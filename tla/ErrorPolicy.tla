----------------------------- MODULE ErrorPolicy -----------------------------
(***************************************************************************)
(* error.rs: what error_for_succes makes of the status of a response.      *)
(* only_partical is its parameter: the caller can use nothing but a range. *)
(* A status counts as an error for reqwest when it is 400 or more.         *)
(***************************************************************************)
EXTENDS Integers

IsClientError(status) == 400 <= status /\ status < 500
IsServerError(status) == 500 <= status /\ status < 600

(* Mutant: every success is good enough, as in send_request.  *)
AcceptedAnySuccess(status) == 200 <= status /\ status < 300

Accepted(status) == status = 206

(* Err(ErrorSuccesStatus): the server ignored the range. *)
Refused(status, only_partical) ==
  \/ status = 200 /\ ~only_partical
  \/ 200 < status /\ status < 300 /\ status # 206

(* error_for_status_ref().unwrap_err() of a status that is no error: what  *)
(* is left of 1xx, 3xx and the 200 of a caller that needs a range.         *)
Panics(status, only_partical) ==
  /\ ~Accepted(status) /\ ~Refused(status, only_partical)
  /\ ~IsClientError(status) /\ ~IsServerError(status)

(* The RetrySuggest that goes with an error status. *)
Suggestion(status) ==
  CASE status = 408 -> "Immediately"
    [] status = 429 -> "WaitFuzzy"
    [] IsServerError(status) -> "WaitFuzzy"
    [] OTHER -> "Break"

(* What becomes of a task whose request got this status.  A retry loop     *)
(* (retry_by_strategy, whose arms are not written) tries again unless the  *)
(* suggestion is to break.                                                 *)
Outcome(status, only_partical) ==
  CASE Accepted(status) -> "poll"
    [] Refused(status, only_partical) -> "ended"
    [] Panics(status, only_partical) -> "panicked"
    [] OTHER -> IF Suggestion(status) = "Break" THEN "ended" ELSE "stopped"
=============================================================================
