------------------------------- MODULE Fetch -------------------------------
(***************************************************************************)
(* One call of fetch (runner/fetch.py): the attempts, each under           *)
(* asyncio.timeout, the client's own timeout on each read, the size limit, *)
(* the waits before retries, and the task being cancelled at any await by  *)
(* the runner shutting down.                                               *)
(*                                                                         *)
(* asyncio.timeout works by cancelling the task too: when its timer fires  *)
(* it cancels, and when the block is left it turns the CancelledError into *)
(* a TimeoutError, which fetch retries. A task cancelled from outside must *)
(* not be taken for one that timed out, also when both happen at once.     *)
(***************************************************************************)
EXTENDS Integers, Sequences

CONSTANTS
    RetryDelays,      \* the wait before each retry
    AttemptTimeout,   \* the limit of one attempt
    ClientTimeout,    \* the limit of one read (or connect, or write)
    MaxBodyBytes,     \* the largest body
    MaxChunk,         \* bound: the largest chunk
    Lag               \* the longest the event loop leaves a due callback

ASSUME FetchAssumption ==
    /\ RetryDelays \in Seq(Nat)
    /\ AttemptTimeout \in Nat \ {0}
    /\ ClientTimeout \in Nat \ {0}
    /\ MaxBodyBytes \in Nat
    /\ MaxChunk \in Nat \ {0}
    /\ Lag \in Nat

VARIABLES
    now,         \* ticks since the call
    pc,          \* where the call is
    attempt,     \* which attempt: 1 is the first
    began,       \* when the attempt began
    since,       \* when the await that is pending began
    size,        \* len(body)
    raising,     \* what is leaving the "async with" block
    expired,     \* the timer of asyncio.timeout has fired
    cancelling,  \* task.cancelling(): cancellations not yet taken back
    mustCancel,  \* a CancelledError is to be thrown at the pending await
    stopping,    \* the runner has cancelled the task
    verdicts,    \* history: what became of each attempt
    outcome      \* how the call ended

vars == <<now, pc, attempt, began, since, size, raising, expired, cancelling,
          mustCancel, stopping, verdicts, outcome>>
task == <<expired, cancelling, mustCancel, stopping>>
result == <<verdicts, outcome>>

(* "asking":  in client.stream, no headers yet                             *)
(* "reading": in response.aiter_bytes                                      *)
(* "closing": leaving client.stream, which closes the response             *)
(* "backoff": in sleep(delay)                                              *)
Locations == {"asking", "reading", "closing", "backoff", "done"}
InAttempt == pc \in {"asking", "reading", "closing"}

----------------------------------------------------------------------------
Init ==
    /\ now = 0
    /\ pc = "asking"
    /\ attempt = 1
    /\ began = 0
    /\ since = 0
    /\ size = 0
    /\ raising = "none"
    /\ expired = FALSE
    /\ cancelling = 0
    /\ mustCancel = FALSE
    /\ stopping = FALSE
    /\ verdicts = <<>>
    /\ outcome = "pending"

(* The body of the block is done: it returns ("body") or raises. *)
LeaveBlock(what) ==
    /\ pc' = "closing"
    /\ raising' = what
    /\ since' = now

----------------------------------------------------------------------------
(* What the source and the network do. The task is resumed with it unless  *)
(* a cancellation is to be thrown instead.                                 *)

(* One of the awaits inside the client ends and another begins: the        *)
(* connection is made, some bytes arrive that are no chunk yet.            *)
Trickle ==
    /\ pc \in {"asking", "reading"} /\ ~mustCancel
    /\ since < now
    /\ since' = now
    /\ UNCHANGED <<now, pc, attempt, began, size, raising, task, result>>

Ok ==
    /\ pc = "asking" /\ ~mustCancel
    /\ pc' = "reading"
    /\ since' = now
    /\ size' = 0
    /\ UNCHANGED <<now, attempt, began, raising, task, result>>

ServerError ==
    /\ pc = "asking" /\ ~mustCancel
    /\ LeaveBlock("retryable")
    /\ UNCHANGED <<now, attempt, began, size, task, result>>

(* Any other status: 204, 301, 404, 429. *)
OtherStatus ==
    /\ pc = "asking" /\ ~mustCancel
    /\ LeaveBlock("final")
    /\ UNCHANGED <<now, attempt, began, size, task, result>>

(* Mutant: the size is checked before the chunk is added. *)
TooLargeBefore(bytes) == size > MaxBodyBytes

TooLarge(bytes) == size + bytes > MaxBodyBytes

(* The body grows by a chunk, and is refused once it is over the limit. *)
Chunk(bytes) ==
    /\ pc = "reading" /\ ~mustCancel
    /\ size' = size + bytes
    /\ \/ TooLarge(bytes) /\ LeaveBlock("final")
       \/ ~TooLarge(bytes) /\ since' = now /\ UNCHANGED <<pc, raising>>
    /\ UNCHANGED <<now, attempt, began, task, result>>

EndOfBody ==
    /\ pc = "reading" /\ ~mustCancel
    /\ LeaveBlock("body")
    /\ UNCHANGED <<now, attempt, began, size, task, result>>

(* httpx.HTTPError: no route, a reset, a body that does not decode. *)
NetworkError ==
    /\ pc \in {"asking", "reading"} /\ ~mustCancel
    /\ LeaveBlock("retryable")
    /\ UNCHANGED <<now, attempt, began, size, task, result>>

(* Anything else the client or its transport raises, which fetch does not catch. *)
OtherError ==
    /\ pc \in {"asking", "reading"} /\ ~mustCancel
    /\ LeaveBlock("raised")
    /\ UNCHANGED <<now, attempt, began, size, task, result>>

(* The client's timeout is an httpx.HTTPError as well. *)
ReadTimeout ==
    /\ pc \in {"asking", "reading"} /\ ~mustCancel
    /\ now >= since + ClientTimeout
    /\ LeaveBlock("retryable")
    /\ UNCHANGED <<now, attempt, began, size, task, result>>

----------------------------------------------------------------------------
(* Cancellation: by the timer of asyncio.timeout and by the runner.        *)

CancelTask == cancelling' = cancelling + 1 /\ mustCancel' = TRUE

(* Mutant: the time limit starts again with every read. *)
TimerOfRead == since + AttemptTimeout

Timer == began + AttemptTimeout

(* Mutant: only the body is read under the time limit. *)
TimerDueReading == pc = "reading" /\ ~expired /\ now >= Timer

TimerDue == InAttempt /\ ~expired /\ now >= Timer

TimerFires ==
    /\ TimerDue
    /\ expired' = TRUE
    /\ CancelTask
    /\ UNCHANGED <<now, pc, attempt, began, since, size, raising, stopping, result>>

(* run() cancels every task once, on SIGTERM or SIGINT. *)
Shutdown ==
    /\ pc # "done" /\ ~stopping
    /\ stopping' = TRUE
    /\ CancelTask
    /\ UNCHANGED <<now, pc, attempt, began, since, size, raising, expired, result>>

(* The CancelledError is thrown at the pending await of the attempt; it    *)
(* replaces whatever was leaving the block.                                *)
Unwind ==
    /\ InAttempt /\ mustCancel
    /\ mustCancel' = FALSE
    /\ LeaveBlock("cancelled")
    /\ UNCHANGED <<now, attempt, began, size, expired, cancelling, stopping, result>>

(* Thrown at the sleep between two attempts, it leaves the call. *)
UnwindBackoff ==
    /\ pc = "backoff" /\ mustCancel
    /\ mustCancel' = FALSE
    /\ pc' = "done"
    /\ outcome' = "cancelled"
    /\ UNCHANGED <<now, attempt, began, since, size, raising, expired, cancelling,
                   stopping, verdicts>>

----------------------------------------------------------------------------
(* Leaving asyncio.timeout (its __aexit__) and the rest of the loop.       *)

(* A timer that fired takes its own cancellation back. *)
Uncancelled == IF expired THEN cancelling - 1 ELSE cancelling

(* Mutant: whatever was cancelled under an expired timer has timed out. *)
VerdictExpired ==
    IF raising # "cancelled" THEN raising
    ELSE IF expired THEN "retryable"
    ELSE "cancelled"

(* Only if no other cancellation is left was it the timer's: TimeoutError. *)
Verdict ==
    IF raising # "cancelled" THEN raising
    ELSE IF expired /\ Uncancelled = 0 THEN "retryable"
    ELSE "cancelled"

IsLast == attempt > Len(RetryDelays)

(* Mutant: every failure is worth another attempt. *)
RetriedAny == Verdict \in {"final", "retryable"} /\ ~IsLast

Retried == Verdict = "retryable" /\ ~IsLast

End(how) ==
    /\ pc' = "done"
    /\ outcome' = how
    /\ UNCHANGED <<attempt, began, since, size>>

LeaveTimeout ==
    /\ pc = "closing" /\ ~mustCancel
    /\ cancelling' = Uncancelled
    /\ expired' = FALSE
    /\ raising' = "none"
    /\ verdicts' = IF Verdict = "cancelled" THEN verdicts ELSE Append(verdicts, Verdict)
    /\ \/ Verdict = "body" /\ End("body")
       \/ Verdict \in {"raised", "cancelled"} /\ End(Verdict)
       \/ Verdict \in {"final", "retryable"} /\ ~Retried /\ End("error")
       \/ /\ Retried
          /\ pc' = "backoff"
          /\ since' = now
          /\ UNCHANGED <<attempt, began, size, outcome>>
    /\ UNCHANGED <<now, mustCancel, stopping>>

(* The wait is over: the next attempt, under a timer of its own. *)
Retry ==
    /\ pc = "backoff" /\ ~mustCancel
    /\ now >= since + RetryDelays[attempt]
    /\ pc' = "asking"
    /\ attempt' = attempt + 1
    /\ began' = now
    /\ since' = now
    /\ size' = 0
    /\ UNCHANGED <<now, raising, task, result>>

----------------------------------------------------------------------------
(* The event loop leaves no due callback waiting longer than the lag, and  *)
(* closing a response takes no longer than that either.                    *)
Tick ==
    /\ pc # "done" /\ ~mustCancel
    /\ pc \in {"asking", "reading"} => now < since + ClientTimeout + Lag
    /\ InAttempt /\ ~expired => now < Timer + Lag
    /\ pc = "closing" => now < since + Lag
    /\ pc = "backoff" => now < since + RetryDelays[attempt] + Lag
    /\ now' = now + 1
    /\ UNCHANGED <<pc, attempt, began, since, size, raising, task, result>>

Source ==
    \/ Trickle
    \/ Ok
    \/ ServerError
    \/ OtherStatus
    \/ \E bytes \in 1 .. MaxChunk : Chunk(bytes)
    \/ EndOfBody
    \/ NetworkError
    \/ OtherError

Loop ==
    \/ ReadTimeout
    \/ TimerFires
    \/ Unwind
    \/ UnwindBackoff
    \/ LeaveTimeout
    \/ Retry

Next == Source \/ Shutdown \/ Loop \/ Tick

Spec == Init /\ [][Next]_vars

(* The event loop serves its timers and its tasks, and time passes. The    *)
(* source owes nothing.                                                    *)
FairSpec ==
    /\ Spec
    /\ WF_vars(Tick)
    /\ WF_vars(ReadTimeout)
    /\ WF_vars(TimerFires)
    /\ WF_vars(Unwind \/ UnwindBackoff \/ LeaveTimeout)
    /\ WF_vars(Retry)

----------------------------------------------------------------------------
(* The state is of its type. *)
TypeOK ==
    /\ now \in Nat /\ began \in Nat /\ since \in Nat
    /\ pc \in Locations
    /\ attempt \in 1 .. Len(RetryDelays) + 1
    /\ size \in 0 .. MaxBodyBytes + MaxChunk
    /\ raising \in {"none", "body", "retryable", "final", "raised", "cancelled"}
    /\ expired \in BOOLEAN /\ mustCancel \in BOOLEAN /\ stopping \in BOOLEAN
    /\ cancelling \in 0 .. 2
    /\ verdicts \in Seq({"body", "retryable", "final", "raised"})
    /\ outcome \in {"pending", "body", "error", "raised", "cancelled"}

(* The time one attempt and the wait before it can take: the late timer,   *)
(* and closing the response, which the timer may interrupt.                *)
AttemptBudget == AttemptTimeout + 3 * Lag
DelaysBefore[n \in 1 .. Len(RetryDelays) + 1] ==
    IF n = 1 THEN 0 ELSE DelaysBefore[n - 1] + RetryDelays[n - 1] + Lag

(* "a source that trickles bytes cannot hold a run", "two retries keep a   *)
(* run well inside its interval": whatever the source does, the call is    *)
(* never later than its attempts and the waits after the failed ones       *)
(* account for.                                                            *)
WithinBudget ==
    LET waits == IF Len(verdicts) <= Len(RetryDelays) THEN Len(verdicts) ELSE Len(RetryDelays)
    IN  now <= attempt * AttemptBudget + DelaysBefore[waits + 1]

(* A body that is returned was read to its end, within the limit and with  *)
(* no cancellation pending; at most one chunk over the limit is ever held. *)
BodyIsWhole ==
    /\ outcome = "body" => size <= MaxBodyBytes /\ cancelling = 0
    /\ size <= MaxBodyBytes + MaxChunk

(* The call keeps its promise: see FetchPromise. *)
Promise == INSTANCE FetchPromise WITH MaxRequests <- Len(RetryDelays) + 1
KeepsPromise == Promise!Spec
AsksNoMore == Promise!AsksNoMore

(* What makes the safety properties inductive. The runner's cancellation   *)
(* is pending, or is what is leaving the attempt; the count of             *)
(* cancellations is that of their two causes; and there is one verdict for *)
(* each attempt that is over, a reason to ask again until the last.        *)
Count(cause) == IF cause THEN 1 ELSE 0

IInv ==
    /\ TypeOK
    /\ pc = "done" <=> outcome # "pending"
    /\ pc # "done" => cancelling = Count(expired) + Count(stopping)
    /\ pc = "backoff" => ~expired /\ attempt <= Len(RetryDelays)
    /\ mustCancel => expired \/ stopping
    /\ pc \in {"asking", "reading", "closing"} /\ expired =>
        mustCancel \/ raising = "cancelled"
    /\ stopping /\ pc # "done" => mustCancel \/ raising = "cancelled"
    /\ pc = "closing" <=> raising # "none"
    /\ raising = "cancelled" => expired \/ stopping
    /\ raising = "body" => size <= MaxBodyBytes
    /\ pc = "reading" => size <= MaxBodyBytes
    /\ InAttempt => Len(verdicts) = attempt - 1
    /\ pc = "backoff" => Len(verdicts) = attempt
    /\ pc # "done" => \A i \in 1 .. Len(verdicts) : verdicts[i] = "retryable"
    /\ pc = "done" => AsksNoMore /\ (outcome = "body" => size <= MaxBodyBytes /\ cancelling = 0)

(* What makes WithinBudget inductive: an attempt begins within the budget  *)
(* of those before it; it is left no later than a lag after its timer, and *)
(* each cancellation thrown while it closes puts that off by one more.     *)
OnTime ==
    /\ InAttempt =>
        /\ began <= (attempt - 1) * AttemptBudget + DelaysBefore[attempt]
        /\ ~expired => now <= Timer + Lag
        /\ since <= Timer + Lag \/ (stopping /\ since <= Timer + 2 * Lag)
        /\ mustCancel => now <= Timer + Lag \/ (stopping /\ now <= Timer + 2 * Lag)
    /\ pc = "closing" => now <= since + Lag
    /\ pc = "backoff" =>
        /\ since <= attempt * AttemptBudget + DelaysBefore[attempt]
        /\ now <= since + RetryDelays[attempt] + Lag
    /\ pc = "done" => WithinBudget

(* Once the runner has cancelled the task, it asks the source nothing more *)
(* and ends cancelled, also when the attempt times out, is answered or     *)
(* fails at that very moment.                                              *)
CancelWins ==
    [][stopping /\ outcome = "pending" =>
        attempt' = attempt /\ outcome' \in {"pending", "cancelled"}]_vars

(* The call always ends, whatever the source does or leaves undone. *)
Ends == <>(outcome # "pending")

=============================================================================
