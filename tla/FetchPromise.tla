---------------------------- MODULE FetchPromise ----------------------------
(***************************************************************************)
(* What fetch (runner/fetch.py) promises its caller, as its docstring says *)
(* it: "Network errors, timeouts and 5xx answers are retried. Any other    *)
(* answer is not". Each request gets one verdict; the first that is not a  *)
(* reason to ask again is the outcome, and so is the last one allowed. An  *)
(* exception that is none of the client's errors is passed on.              *)
(***************************************************************************)
EXTENDS Naturals, Sequences, SequencesExt

CONSTANT MaxRequests   \* one more than the retries

VARIABLES
    verdicts,   \* what became of each request so far, in order
    outcome     \* how the call ended

Verdicts == {"body", "retryable", "final", "raised"}
Outcomes == {"pending", "body", "error", "raised", "cancelled"}

Init == verdicts = <<>> /\ outcome = "pending"

(* A request is answered, or fails, and the call goes on only if asking    *)
(* again can help and a retry is left.                                     *)
Answer(verdict) ==
    /\ outcome = "pending"
    /\ verdicts' = Append(verdicts, verdict)
    /\ outcome' =
        CASE verdict = "body"                       -> "body"
          [] verdict = "final"                      -> "error"
          [] verdict = "raised"                     -> "raised"
          [] verdict = "retryable"
               /\ Len(verdicts') = MaxRequests      -> "error"
          [] OTHER                                  -> "pending"

(* The task that called it is cancelled. *)
Cancel ==
    /\ outcome = "pending"
    /\ outcome' = "cancelled"
    /\ UNCHANGED verdicts

Next == (\E verdict \in Verdicts : Answer(verdict)) \/ Cancel

Spec == Init /\ [][Next]_<<verdicts, outcome>>

----------------------------------------------------------------------------
(* At most one request per delay and one more, and none after an answer    *)
(* that asking again would not change: a body, or for instance a 429.      *)
AsksNoMore ==
    /\ Len(verdicts) <= MaxRequests
    /\ \A i \in 1 .. Len(verdicts) - 1 : verdicts[i] = "retryable"
    /\ outcome = "body" => verdicts # <<>> /\ Last(verdicts) = "body"
    /\ outcome = "error" => verdicts # <<>> /\ Last(verdicts) \notin {"body", "raised"}
    /\ outcome = "raised" => verdicts # <<>> /\ Last(verdicts) = "raised"

=============================================================================
