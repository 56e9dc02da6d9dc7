---------------------------- MODULE FetchProofs ----------------------------
(***************************************************************************)
(* fetch for any delays, timeouts and size limit: a cancelled call stops   *)
(* asking, the body it returns is within the limit, and it implements      *)
(* FetchPromise. IInv of Fetch is the inductive invariant of all of them.  *)
(***************************************************************************)
EXTENDS Fetch, WellFoundedInduction, TLAPS

USE DEF Locations

(* The values that LeaveTimeout tells apart. *)
LEMMA VerdictCases ==
    ASSUME IInv, pc = "closing", ~mustCancel
    PROVE  /\ Verdict \in {"body", "retryable", "final", "raised", "cancelled"}
           /\ Uncancelled = Count(stopping)
           /\ stopping => Verdict = "cancelled"
           /\ Verdict = "cancelled" => stopping
           /\ Verdict = "body" => size <= MaxBodyBytes
<1>1. /\ raising \in {"body", "retryable", "final", "raised", "cancelled"}
      /\ expired \in BOOLEAN /\ stopping \in BOOLEAN
      /\ cancelling = Count(expired) + Count(stopping)
      /\ expired => raising = "cancelled"
      /\ stopping => raising = "cancelled"
      /\ raising = "cancelled" => expired \/ stopping
      /\ raising = "body" => size <= MaxBodyBytes
  BY DEF IInv, TypeOK
<1>2. Uncancelled = Count(stopping)
  BY <1>1 DEF Uncancelled, Count
<1>3. CASE stopping
  <2>1. Verdict = "cancelled"
    BY <1>1, <1>2, <1>3 DEF Verdict, Count
  <2> QED BY <1>2, <1>3, <2>1
<1>4. CASE ~stopping
  <2>1. Uncancelled = 0
    BY <1>2, <1>4 DEF Count
  <2>2. CASE raising = "cancelled"
    <3>1. Verdict = "retryable"
      BY <1>1, <1>4, <2>1, <2>2 DEF Verdict
    <3> QED BY <1>2, <1>4, <3>1
  <2>3. CASE raising # "cancelled"
    <3>1. Verdict = raising
      BY <2>3 DEF Verdict
    <3> QED BY <1>1, <1>2, <1>4, <2>3, <3>1
  <2> QED BY <2>2, <2>3
<1> QED BY <1>1, <1>3, <1>4

----------------------------------------------------------------------------
(* IInv holds initially and every step preserves it.                       *)

LEMMA InitIInv == Init => IInv
<1> SUFFICES ASSUME Init PROVE IInv
  OBVIOUS
<1>1. Len(RetryDelays) \in Nat
  BY FetchAssumption
<1>2. TypeOK
  <2>1. /\ now \in Nat /\ began \in Nat /\ since \in Nat
        /\ attempt \in 1 .. Len(RetryDelays) + 1
        /\ size \in 0 .. MaxBodyBytes + MaxChunk
        /\ cancelling \in 0 .. 2
        /\ verdicts \in Seq({"body", "retryable", "final", "raised"})
    BY <1>1, FetchAssumption DEF Init
  <2>2. /\ pc \in Locations
        /\ raising \in {"none", "body", "retryable", "final", "raised", "cancelled"}
        /\ expired \in BOOLEAN /\ mustCancel \in BOOLEAN /\ stopping \in BOOLEAN
        /\ outcome \in {"pending", "body", "error", "raised", "cancelled"}
    BY DEF Init
  <2> QED BY <2>1, <2>2 DEF TypeOK
<1>3. cancelling = Count(expired) + Count(stopping)
  BY DEF Init, Count
<1> QED BY <1>2, <1>3 DEF Init, IInv, InAttempt

LEMMA SourceIInv == IInv /\ Source => IInv'
<1> SUFFICES ASSUME IInv, Source PROVE IInv'
  OBVIOUS
<1> USE FetchAssumption DEF IInv, TypeOK, InAttempt, task, result, LeaveBlock
<1>1. CASE Trickle
  BY <1>1 DEF Trickle, Count, AsksNoMore, Promise!AsksNoMore
<1>2. CASE Ok
  BY <1>2 DEF Ok, Count, AsksNoMore, Promise!AsksNoMore
<1>3. CASE ServerError
  BY <1>3 DEF ServerError, Count
<1>4. CASE OtherStatus
  BY <1>4 DEF OtherStatus, Count
<1>5. ASSUME NEW bytes \in 1 .. MaxChunk, Chunk(bytes) PROVE IInv'
  BY <1>5 DEF Chunk, TooLarge, Count
<1>6. CASE EndOfBody
  BY <1>6 DEF EndOfBody, Count
<1>7. CASE NetworkError
  BY <1>7 DEF NetworkError, Count
<1>8. CASE OtherError
  BY <1>8 DEF OtherError, Count
<1>9. Source => \/ Trickle \/ Ok \/ ServerError \/ OtherStatus
                \/ \E bytes \in 1 .. MaxChunk : Chunk(bytes)
                \/ EndOfBody \/ NetworkError \/ OtherError
  BY DEF Source
<1> HIDE DEF IInv
<1> QED BY <1>1, <1>2, <1>3, <1>4, <1>5, <1>6, <1>7, <1>8, <1>9

LEMMA CancelIInv ==
    IInv /\ (ReadTimeout \/ TimerFires \/ Shutdown \/ Unwind \/ UnwindBackoff) => IInv'
<1> SUFFICES ASSUME IInv, ReadTimeout \/ TimerFires \/ Shutdown \/ Unwind \/ UnwindBackoff
             PROVE  IInv'
  OBVIOUS
<1> USE FetchAssumption DEF IInv, TypeOK, InAttempt, task, result, LeaveBlock, CancelTask
<1>1. CASE ReadTimeout
  BY <1>1 DEF ReadTimeout, Count
<1>2. CASE TimerFires
  BY <1>2 DEF TimerFires, TimerDue, Count
<1>3. CASE Shutdown
  BY <1>3 DEF Shutdown, Count
<1>4. CASE Unwind
  BY <1>4 DEF Unwind, Count
<1>5. CASE UnwindBackoff
  <2>1. /\ outcome = "pending" /\ verdicts' = verdicts
        /\ Len(verdicts) <= Len(RetryDelays)
        /\ \A i \in 1 .. Len(verdicts) : verdicts[i] = "retryable"
    BY <1>5 DEF UnwindBackoff
  <2>2. AsksNoMore'
    BY <1>5, <2>1 DEF UnwindBackoff, AsksNoMore, Promise!AsksNoMore
  <2>3. TypeOK'
    BY <1>5 DEF UnwindBackoff
  <2> QED BY <1>5, <2>2, <2>3 DEF UnwindBackoff
<1> QED BY <1>1, <1>2, <1>3, <1>4, <1>5

LEMMA LeaveTimeoutIInv == IInv /\ LeaveTimeout => IInv'
<1> SUFFICES ASSUME IInv, LeaveTimeout PROVE IInv'
  OBVIOUS
<1>1. pc = "closing" /\ ~mustCancel
  BY DEF LeaveTimeout
<1>2. /\ Verdict \in {"body", "retryable", "final", "raised", "cancelled"}
      /\ Uncancelled = Count(stopping)
      /\ stopping => Verdict = "cancelled"
      /\ Verdict = "cancelled" => stopping
      /\ Verdict = "body" => size <= MaxBodyBytes
  BY <1>1, VerdictCases
<1>3. /\ TypeOK
      /\ Len(verdicts) = attempt - 1
      /\ \A i \in 1 .. Len(verdicts) : verdicts[i] = "retryable"
      /\ outcome = "pending"
  BY <1>1 DEF IInv, InAttempt, TypeOK
<1>4. /\ cancelling' = Count(stopping)
      /\ expired' = FALSE /\ mustCancel' = FALSE /\ stopping' = stopping
      /\ raising' = "none"
      /\ now' = now
      /\ attempt' = attempt /\ began' = began /\ size' = size
  BY <1>1, <1>2 DEF LeaveTimeout, End, IInv, TypeOK
<1>5. TypeOK'
  <2>1. /\ now' \in Nat /\ began' \in Nat /\ since' \in Nat
        /\ attempt' \in 1 .. Len(RetryDelays) + 1
        /\ size' \in 0 .. MaxBodyBytes + MaxChunk
        /\ cancelling' \in 0 .. 2
    BY <1>3, <1>4 DEF LeaveTimeout, End, TypeOK, Count
  <2>2. verdicts' \in Seq({"body", "retryable", "final", "raised"})
    BY <1>2, <1>3 DEF LeaveTimeout, TypeOK
  <2>3. /\ pc' \in Locations
        /\ raising' \in {"none", "body", "retryable", "final", "raised", "cancelled"}
        /\ expired' \in BOOLEAN /\ mustCancel' \in BOOLEAN /\ stopping' \in BOOLEAN
        /\ outcome' \in {"pending", "body", "error", "raised", "cancelled"}
    BY <1>3, <1>4 DEF LeaveTimeout, End, TypeOK
  <2> QED BY <2>1, <2>2, <2>3 DEF TypeOK
<1>6. CASE Verdict = "cancelled"
  <2>1. verdicts' = verdicts /\ pc' = "done" /\ outcome' = "cancelled"
    BY <1>6 DEF LeaveTimeout, Retried, End
  <2>2. AsksNoMore'
    BY <1>3, <2>1, FetchAssumption DEF AsksNoMore, Promise!AsksNoMore, TypeOK
  <2> QED BY <1>4, <1>5, <2>1, <2>2 DEF IInv, InAttempt
<1>7. CASE Verdict # "cancelled"
  <2>1. /\ ~stopping
        /\ Verdict \in {"body", "retryable", "final", "raised"}
        /\ verdicts' = Append(verdicts, Verdict)
    BY <1>2, <1>7 DEF LeaveTimeout
  <2>2. /\ verdicts' \in Seq({"body", "retryable", "final", "raised"})
        /\ Len(verdicts') = attempt
        /\ verdicts'[Len(verdicts')] = Verdict
        /\ \A i \in 1 .. Len(verdicts') - 1 : verdicts'[i] = "retryable"
    BY <1>3, <2>1 DEF TypeOK
  <2>3. cancelling' = 0
    BY <1>4, <2>1 DEF Count
  <2>4. CASE pc' = "done"
    <3>1. \/ Verdict = "body" /\ outcome' = "body"
          \/ Verdict \in {"final", "retryable"} /\ outcome' = "error"
          \/ Verdict = "raised" /\ outcome' = "raised"
      BY <1>7, <2>4 DEF LeaveTimeout, Retried, End
    <3>2. AsksNoMore'
      BY <1>3, <2>2, <3>1, FetchAssumption
      DEF AsksNoMore, Promise!AsksNoMore, Promise!Last, TypeOK
    <3> QED BY <1>2, <1>4, <1>5, <2>1, <2>3, <2>4, <3>1, <3>2 DEF IInv, InAttempt
  <2>5. CASE pc' # "done"
    <3>1. Verdict = "retryable" /\ ~IsLast /\ pc' = "backoff" /\ outcome' = outcome
      BY <1>7, <2>5 DEF LeaveTimeout, Retried, End
    <3>2. attempt <= Len(RetryDelays)
      BY <1>3, <3>1, FetchAssumption DEF IsLast, TypeOK
    <3>3. \A i \in 1 .. Len(verdicts') : verdicts'[i] = "retryable"
      BY <1>3, <2>2, <3>1 DEF TypeOK
    <3>4. cancelling' = Count(expired') + Count(stopping')
      BY <1>4, <2>1, <2>3 DEF Count
    <3> QED BY <1>3, <1>4, <1>5, <2>1, <2>2, <3>1, <3>2, <3>3, <3>4 DEF IInv, InAttempt
  <2> QED BY <2>4, <2>5
<1> QED BY <1>6, <1>7

LEMMA RetryIInv == IInv /\ Retry => IInv'
BY FetchAssumption DEF Retry, IInv, TypeOK, InAttempt, Count, task, result

LEMMA TickIInv == IInv /\ Tick => IInv'
BY DEF Tick, IInv, TypeOK, InAttempt, Count, task, result

LEMMA StutterIInv == IInv /\ UNCHANGED vars => IInv'
BY DEF vars, IInv, TypeOK, InAttempt, Count, AsksNoMore, Promise!AsksNoMore

LEMMA StepIInv == IInv /\ [Next]_vars => IInv'
BY SourceIInv, CancelIInv, LeaveTimeoutIInv, RetryIInv, TickIInv, StutterIInv
DEF Next, Loop

(* The inductive invariant holds in every state of every call. *)
THEOREM Invariance == Spec => []IInv
<1>1. Init => IInv
  BY InitIInv
<1>2. IInv /\ [Next]_vars => IInv'
  BY StepIInv
<1> QED BY <1>1, <1>2, PTL DEF Spec

----------------------------------------------------------------------------
(* What follows from it.                                                   *)

(* Every variable keeps its type: no cancellation is counted that has no   *)
(* cause, and there is never an attempt more than the delays allow.        *)
THEOREM Typing == Spec => []TypeOK
<1>1. IInv => TypeOK
  BY DEF IInv
<1> QED BY <1>1, Invariance, PTL

(* The body that fetch returns was never over the limit and is not the     *)
(* result of a call that was cancelled.                                    *)
THEOREM WholeBody == Spec => []BodyIsWhole
<1>1. IInv => BodyIsWhole
  BY FetchAssumption DEF IInv, TypeOK, BodyIsWhole
<1> QED BY <1>1, Invariance, PTL

(* Every request but the last one had a failure worth retrying, and there  *)
(* is at most one more request than delays.                                *)
THEOREM Bounded == Spec => []AsksNoMore
<1>1. IInv => AsksNoMore
  <2> SUFFICES ASSUME IInv, pc # "done" PROVE AsksNoMore
    BY DEF IInv
  <2>1. /\ outcome = "pending"
        /\ verdicts \in Seq({"body", "retryable", "final", "raised"})
        /\ Len(verdicts) <= Len(RetryDelays) + 1
        /\ \A i \in 1 .. Len(verdicts) : verdicts[i] = "retryable"
    BY FetchAssumption DEF IInv, TypeOK, InAttempt
  <2> QED BY <2>1, FetchAssumption DEF AsksNoMore, Promise!AsksNoMore
<1> QED BY <1>1, Invariance, PTL

(* The step that ends or repeats a call, as FetchPromise sees it.          *)
LEMMA LeaveTimeoutAnswers ==
    ASSUME IInv, LeaveTimeout
    PROVE  Promise!Next
<1>1. pc = "closing" /\ ~mustCancel
  BY DEF LeaveTimeout
<1>2. Verdict \in {"body", "retryable", "final", "raised", "cancelled"}
  BY <1>1, VerdictCases
<1>3. outcome = "pending" /\ Len(verdicts) = attempt - 1 /\ TypeOK
  BY <1>1 DEF IInv, InAttempt
<1>4. CASE Verdict = "cancelled"
  <2>1. verdicts' = verdicts /\ outcome' = "cancelled"
    BY <1>4 DEF LeaveTimeout, Retried, End
  <2> QED BY <1>3, <2>1 DEF Promise!Next, Promise!Cancel
<1>5. CASE Verdict # "cancelled"
  <2>1. verdicts' = Append(verdicts, Verdict)
    BY <1>5 DEF LeaveTimeout
  <2>2. Len(verdicts') = attempt
    BY <1>3, <2>1 DEF TypeOK
  <2>3. IsLast <=> Len(verdicts') = Len(RetryDelays) + 1
    BY <1>3, <2>2, FetchAssumption DEF IsLast, TypeOK
  <2>4. outcome' = CASE Verdict = "body" -> "body"
                     [] Verdict = "final" -> "error"
                     [] Verdict = "raised" -> "raised"
                     [] Verdict = "retryable"
                          /\ Len(verdicts') = Len(RetryDelays) + 1 -> "error"
                     [] OTHER -> "pending"
    BY <1>2, <1>3, <1>5, <2>3 DEF LeaveTimeout, Retried, End
  <2>5. Promise!Answer(Verdict)
    BY <1>3, <2>1, <2>4 DEF Promise!Answer
  <2>6. Verdict \in Promise!Verdicts
    BY <1>2, <1>5 DEF Promise!Verdicts
  <2> QED BY <2>5, <2>6 DEF Promise!Next
<1> QED BY <1>4, <1>5

(* fetch implements FetchPromise: whatever the source, the timers and the  *)
(* runner do, each request gets one verdict and the outcome is the one the *)
(* docstring of fetch names.                                               *)
THEOREM Refinement == Spec => KeepsPromise
<1>1. Init => Promise!Init
  BY DEF Init, Promise!Init
<1>2. IInv /\ [Next]_vars => [Promise!Next]_<<verdicts, outcome>>
  <2> SUFFICES ASSUME IInv, [Next]_vars
               PROVE  Promise!Next \/ UNCHANGED <<verdicts, outcome>>
    OBVIOUS
  <2>1. CASE Source
    BY <2>1 DEF Source, Trickle, Ok, ServerError, OtherStatus, Chunk, EndOfBody,
                NetworkError, OtherError, result
  <2>2. CASE Shutdown \/ Tick \/ UNCHANGED vars
    BY <2>2 DEF Shutdown, Tick, vars, result
  <2>3. CASE ReadTimeout \/ TimerFires \/ Unwind \/ Retry
    BY <2>3 DEF ReadTimeout, TimerFires, Unwind, Retry, result
  <2>4. CASE UnwindBackoff
    <3>1. outcome = "pending"
      BY <2>4 DEF UnwindBackoff, IInv
    <3> QED BY <2>4, <3>1 DEF UnwindBackoff, Promise!Next, Promise!Cancel
  <2>5. CASE LeaveTimeout
    BY <2>5, LeaveTimeoutAnswers
  <2> QED BY <2>1, <2>2, <2>3, <2>4, <2>5 DEF Next, Loop
<1> QED BY <1>1, <1>2, Invariance, PTL DEF Spec, KeepsPromise, Promise!Spec

(* Once the runner has cancelled the task, no step of the call asks the    *)
(* source again or ends it otherwise than cancelled.                       *)
THEOREM Cancelled == Spec => CancelWins
<1>1. IInv /\ [Next]_vars =>
        [stopping /\ outcome = "pending" =>
            attempt' = attempt /\ outcome' \in {"pending", "cancelled"}]_vars
  <2> SUFFICES ASSUME IInv, Next, stopping, outcome = "pending"
               PROVE  attempt' = attempt /\ outcome' \in {"pending", "cancelled"}
    OBVIOUS
  <2>1. CASE Source
    BY <2>1 DEF Source, Trickle, Ok, ServerError, OtherStatus, Chunk, EndOfBody,
                NetworkError, OtherError, result
  <2>2. CASE Shutdown \/ Tick \/ ReadTimeout \/ TimerFires \/ Unwind
    BY <2>2 DEF Shutdown, Tick, ReadTimeout, TimerFires, Unwind, result
  <2>3. CASE UnwindBackoff
    BY <2>3 DEF UnwindBackoff
  <2>4. CASE LeaveTimeout
    <3>1. Verdict = "cancelled"
      BY <2>4, VerdictCases DEF LeaveTimeout
    <3> QED BY <2>4, <3>1 DEF LeaveTimeout, End
  <2>5. ~Retry
    BY DEF Retry, IInv, TypeOK
  <2> QED BY <2>1, <2>2, <2>3, <2>4, <2>5 DEF Next, Loop
<1> QED BY <1>1, Invariance, PTL DEF Spec, CancelWins

----------------------------------------------------------------------------
(* How long a call takes.                                                  *)

(* Induction over the naturals, for a set instead of a predicate: what is  *)
(* not in it has a smallest element.                                       *)
LEMMA Induction ==
    ASSUME NEW S, 0 \in S, \A n \in Nat : n \in S => n + 1 \in S
    PROVE  Nat \subseteq S
<1> DEFINE Rest == Nat \ S
           Less == OpToRel(<, Nat)
<1> SUFFICES ASSUME Rest # {} PROVE FALSE
  OBVIOUS
<1>1. IsWellFoundedOn(Less, Nat)
  BY NatLessThanWellFounded
<1>2. \A m, n \in Nat : m < n => <<m, n>> \in Less
  <2>1. Less = {pair \in Nat \X Nat : pair[1] < pair[2]}
    BY Zenon DEF OpToRel
  <2> HIDE DEF Less
  <2> QED BY <2>1
<1> HIDE DEF Less
<1>3. PICK n \in Rest : \A m \in Rest : ~(<<m, n>> \in Less)
  BY <1>1, WFMin
<1>4. n - 1 \in Nat /\ n - 1 \in Rest
  BY <1>3
<1>5. <<n - 1, n>> \in Less
  BY <1>2, <1>4
<1> QED BY <1>3, <1>4, <1>5

(* DelaysBefore is the function its definition describes: one that solves  *)
(* the recursion up to n can be continued to n + 1.                        *)
LEMMA DelaysBeforeDef ==
    /\ DelaysBefore \in [1 .. Len(RetryDelays) + 1 -> Nat]
    /\ DelaysBefore[1] = 0
    /\ \A n \in 1 .. Len(RetryDelays) :
           DelaysBefore[n + 1] = DelaysBefore[n] + RetryDelays[n] + Lag
<1> DEFINE Last == Len(RetryDelays) + 1
           Sum(f, n) == IF n = 1 THEN 0 ELSE f[n - 1] + RetryDelays[n - 1] + Lag
           Solves(f, n) == \A k \in 1 .. n : f[k] = Sum(f, k)
           Solvable == {n \in Nat : n <= Last => \E f \in [1 .. n -> Nat] : Solves(f, n)}
<1>1. Last \in Nat \ {0} /\ \A n \in 1 .. Last - 1 : RetryDelays[n] \in Nat
  BY FetchAssumption
<1>2. 0 \in Solvable
  <2> DEFINE f == [k \in 1 .. 0 |-> 0]
  <2>1. f \in [1 .. 0 -> Nat]
    OBVIOUS
  <2>2. Solves(f, 0)
    OBVIOUS
  <2>3. \E g \in [1 .. 0 -> Nat] : Solves(g, 0)
    BY <2>1, <2>2
  <2> QED BY <2>3
<1>3. ASSUME NEW n \in Nat, n \in Solvable PROVE n + 1 \in Solvable
  <2> SUFFICES ASSUME n + 1 <= Last PROVE \E f \in [1 .. n + 1 -> Nat] : Solves(f, n + 1)
    OBVIOUS
  <2>1. PICK f \in [1 .. n -> Nat] : Solves(f, n)
    BY <1>1, <1>3
  <2> DEFINE g == [k \in 1 .. n + 1 |-> IF k <= n THEN f[k] ELSE Sum(f, k)]
  <2>2. g \in [1 .. n + 1 -> Nat]
    BY <1>1, FetchAssumption
  <2>3. Solves(g, n + 1)
    BY <2>1
  <2> QED BY <2>2, <2>3
<1>4. PICK f \in [1 .. Last -> Nat] : Solves(f, Last)
  <2> HIDE DEF Solvable
  <2>1. Last \in Solvable
    BY <1>1, <1>2, <1>3, Induction
  <2> QED BY <1>1, <2>1 DEF Solvable
<1>5. f = [n \in 1 .. Last |-> Sum(f, n)]
  BY <1>4
<1>6. DelaysBefore = [n \in 1 .. Last |-> Sum(DelaysBefore, n)]
  BY <1>5 DEF DelaysBefore
<1>7. \A n \in 1 .. Last : f[n] = DelaysBefore[n]
  <2> DEFINE Equal == {n \in Nat : n \in 1 .. Last => f[n] = DelaysBefore[n]}
  <2>1. 0 \in Equal
    OBVIOUS
  <2>2. ASSUME NEW n \in Nat, n \in Equal PROVE n + 1 \in Equal
    BY <1>1, <1>4, <1>6, <2>2
  <2> HIDE DEF Equal
  <2>3. Nat \subseteq Equal
    BY <2>1, <2>2, Induction
  <2> QED BY <1>1, <2>3 DEF Equal
<1>8. DelaysBefore = f
  BY <1>4, <1>6, <1>7
<1> QED BY <1>1, <1>4, <1>8

(* Budget(n): what the first n attempts and the waits before them take.    *)
Budget(n) == n * AttemptBudget + DelaysBefore[n]

LEMMA TimesNat == \A m, n \in Nat : m * n \in Nat
OBVIOUS

LEMMA BudgetGrows ==
    /\ AttemptBudget \in Nat /\ AttemptBudget = AttemptTimeout + 3 * Lag
    /\ \A n \in 1 .. Len(RetryDelays) + 1 :
          /\ Budget(n) \in Nat
          /\ (n - 1) * AttemptBudget + DelaysBefore[n] \in Nat
          /\ Budget(n) = (n - 1) * AttemptBudget + DelaysBefore[n] + AttemptBudget
    /\ \A n \in 1 .. Len(RetryDelays) :
          n * AttemptBudget + DelaysBefore[n + 1] = Budget(n) + RetryDelays[n] + Lag
<1>1. AttemptBudget \in Nat /\ AttemptBudget = AttemptTimeout + 3 * Lag
  BY FetchAssumption DEF AttemptBudget
<1>2. \A n \in Nat : n * AttemptBudget \in Nat
  BY <1>1
<1>3. \A n \in Nat \ {0} : n * AttemptBudget = (n - 1) * AttemptBudget + AttemptBudget
  BY <1>1
<1>4. Len(RetryDelays) \in Nat /\ \A n \in 1 .. Len(RetryDelays) : RetryDelays[n] \in Nat
  BY FetchAssumption
<1>5. ASSUME NEW n \in 1 .. Len(RetryDelays) + 1
      PROVE  /\ Budget(n) \in Nat
             /\ (n - 1) * AttemptBudget + DelaysBefore[n] \in Nat
             /\ Budget(n) = (n - 1) * AttemptBudget + DelaysBefore[n] + AttemptBudget
  <2> DEFINE before == (n - 1) * AttemptBudget
             upTo == n * AttemptBudget
             delays == DelaysBefore[n]
             budget == AttemptBudget
  <2>1. before \in Nat /\ upTo \in Nat /\ upTo = before + AttemptBudget
    <3>1. n - 1 \in Nat /\ n \in Nat \ {0}
      BY <1>4
    <3> QED BY <1>1, <1>2, <1>3, <3>1, Zenon
  <2>2. delays \in Nat /\ budget \in Nat /\ upTo = before + budget
    BY <1>1, <1>4, <2>1, DelaysBeforeDef
  <2>3. Budget(n) = upTo + delays
    BY DEF Budget
  <2> HIDE DEF before, upTo, delays, budget
  <2>4. upTo + delays \in Nat /\ before + delays \in Nat /\ upTo + delays = before + delays + budget
    BY <2>1, <2>2
  <2> QED BY <2>3, <2>4, Zenon DEF before, delays, budget
<1>6. ASSUME NEW n \in 1 .. Len(RetryDelays)
      PROVE  n * AttemptBudget + DelaysBefore[n + 1] = Budget(n) + RetryDelays[n] + Lag
  <2> DEFINE upTo == n * AttemptBudget
  <2>1. n \in Nat
    BY <1>4
  <2>2. upTo \in Nat
    BY <1>2, <2>1, Zenon
  <2>3. Budget(n) = upTo + DelaysBefore[n]
    BY DEF Budget
  <2>4. /\ DelaysBefore[n] \in Nat
        /\ DelaysBefore[n + 1] = DelaysBefore[n] + RetryDelays[n] + Lag
        /\ RetryDelays[n] \in Nat /\ Lag \in Nat
    BY <1>4, DelaysBeforeDef, FetchAssumption
  <2> HIDE DEF upTo
  <2>5. upTo + DelaysBefore[n + 1] = Budget(n) + RetryDelays[n] + Lag
    BY <2>2, <2>3, <2>4
  <2> QED BY <2>5 DEF upTo
<1> QED BY <1>1, <1>5, <1>6

(* A wait is over within the budget of the attempts before it, and it.     *)
LEMMA BackoffOnTime ==
    ASSUME IInv, OnTime, pc = "backoff"
    PROVE  /\ now <= Budget(attempt) + RetryDelays[attempt] + Lag
           /\ Len(verdicts) = attempt /\ attempt \in 1 .. Len(RetryDelays)
<1>1. /\ Len(verdicts) = attempt /\ attempt \in 1 .. Len(RetryDelays)
      /\ now \in Nat /\ since \in Nat
  BY FetchAssumption DEF IInv, TypeOK
<1>2. since <= Budget(attempt) /\ now <= since + RetryDelays[attempt] + Lag
  BY DEF OnTime, Budget
<1>3. RetryDelays[attempt] \in Nat /\ Lag \in Nat /\ Len(RetryDelays) \in Nat
  BY <1>1, FetchAssumption
<1>4. Budget(attempt) \in Nat
  BY <1>1, <1>3, BudgetGrows
<1> HIDE DEF Budget
<1>5. now <= Budget(attempt) + RetryDelays[attempt] + Lag
  BY <1>1, <1>2, <1>3, <1>4
<1> QED BY <1>1, <1>5

LEMMA OneMoreWait ==
    ASSUME NEW t \in Nat, NEW budget \in Nat, NEW upTo \in Nat, NEW before \in Nat,
           NEW delay \in Nat, NEW lag \in Nat,
           t <= budget + delay + lag, budget = upTo + before
    PROVE  t <= upTo + (before + delay + lag)
OBVIOUS

(* What WithinBudget says at a time t of attempt n, with k verdicts.       *)
LEMMA Budgeted ==
    ASSUME NEW n \in 1 .. Len(RetryDelays) + 1, NEW t \in Nat, NEW k,
           \/ t <= Budget(n) /\ k \in {n - 1, n}
           \/ n <= Len(RetryDelays) /\ k = n /\ t <= Budget(n) + RetryDelays[n] + Lag
    PROVE  LET waits == IF k <= Len(RetryDelays) THEN k ELSE Len(RetryDelays)
           IN  t <= n * AttemptBudget + DelaysBefore[waits + 1]
<1> DEFINE upTo == n * AttemptBudget
           waits == IF k <= Len(RetryDelays) THEN k ELSE Len(RetryDelays)
<1>1. Len(RetryDelays) \in Nat /\ Lag \in Nat
      /\ \A i \in 1 .. Len(RetryDelays) : RetryDelays[i] \in Nat
  BY FetchAssumption
<1>2. upTo + DelaysBefore[n] = Budget(n) /\ Budget(n) \in Nat
  BY BudgetGrows DEF Budget
<1>3. upTo \in Nat
  <2>1. n \in Nat
    BY <1>1
  <2> QED BY <2>1, BudgetGrows, TimesNat, Zenon
<1>4. waits + 1 \in 1 .. Len(RetryDelays) + 1 /\ waits + 1 \in {n, n + 1}
  BY <1>1
<1>5. waits + 1 = n => t <= Budget(n)
  BY <1>1
<1> HIDE DEF upTo, waits
<1>6. t <= upTo + DelaysBefore[waits + 1]
  <2>1. CASE waits + 1 = n
    BY <1>2, <1>5, <2>1
  <2>2. CASE waits + 1 = n + 1
    <3>1. n \in 1 .. Len(RetryDelays)
      BY <1>1, <1>4, <2>2
    <3>2. DelaysBefore[n + 1] = DelaysBefore[n] + RetryDelays[n] + Lag
      BY <3>1, DelaysBeforeDef, Zenon
    <3>3. DelaysBefore[n] \in Nat /\ RetryDelays[n] \in Nat
      <4>1. n \in 1 .. Len(RetryDelays) + 1
        OBVIOUS
      <4>2. DelaysBefore[n] \in Nat
        BY <4>1, DelaysBeforeDef, Zenon
      <4> QED BY <1>1, <3>1, <4>2
    <3>4. t <= Budget(n) + RetryDelays[n] + Lag
      BY <1>1, <1>2, <3>1, <3>3
    <3> HIDE DEF Budget
    <3>5. t <= upTo + (DelaysBefore[n] + RetryDelays[n] + Lag)
      <4>1. Budget(n) = upTo + DelaysBefore[n] /\ Budget(n) \in Nat /\ Lag \in Nat
        BY <1>1, <1>2, Zenon
      <4> QED BY <1>3, <3>3, <3>4, <4>1, OneMoreWait
    <3> QED BY <2>2, <3>2, <3>5, Zenon
  <2> QED BY <1>4, <2>1, <2>2
<1> QED BY <1>6 DEF upTo, waits

LEMMA InitOnTime == Init => OnTime
BY DelaysBeforeDef, FetchAssumption, BudgetGrows DEF Init, OnTime, InAttempt, Timer

LEMMA SourceOnTime == IInv /\ OnTime /\ (Source \/ ReadTimeout) => OnTime'
<1> SUFFICES ASSUME IInv, OnTime, Source \/ ReadTimeout PROVE OnTime'
  OBVIOUS
<1>1. /\ pc \in {"asking", "reading"} /\ ~mustCancel
      /\ pc' \in {"asking", "reading", "closing"} /\ since' = now
      /\ UNCHANGED <<now, attempt, began, expired, mustCancel, stopping, verdicts>>
  BY DEF Source, Trickle, Ok, ServerError, OtherStatus, Chunk, EndOfBody, NetworkError, OtherError,
         ReadTimeout, LeaveBlock, task, result
<1>2. ~expired
  BY <1>1 DEF IInv
<1>3. now <= Timer + Lag /\ now \in Nat /\ Timer' = Timer
  BY <1>1, <1>2 DEF OnTime, InAttempt, IInv, TypeOK, Timer
<1> QED BY <1>1, <1>2, <1>3, FetchAssumption DEF OnTime, InAttempt

LEMMA CancelOnTime ==
    IInv /\ OnTime /\ (TimerFires \/ Shutdown \/ Unwind \/ UnwindBackoff) => OnTime'
<1> SUFFICES ASSUME IInv, OnTime, TimerFires \/ Shutdown \/ Unwind \/ UnwindBackoff
             PROVE  OnTime'
  OBVIOUS
<1>1. /\ now \in Nat /\ since \in Nat /\ began \in Nat /\ Timer \in Nat
      /\ attempt \in 1 .. Len(RetryDelays) + 1 /\ Lag \in Nat
  BY FetchAssumption DEF IInv, TypeOK, Timer
<1>2. CASE TimerFires
  BY <1>1, <1>2 DEF TimerFires, TimerDue, CancelTask, OnTime, InAttempt, Timer, result
<1>3. CASE Shutdown
  <2>1. UNCHANGED <<now, pc, attempt, began, since, expired, verdicts>> /\ stopping'
    BY <1>3 DEF Shutdown, result
  <2>2. ASSUME InAttempt PROVE now <= Timer + 2 * Lag
    <3>1. CASE ~expired
      BY <1>1, <2>2, <3>1 DEF OnTime
    <3>2. CASE expired
      <4>1. ~stopping
        BY <1>3 DEF Shutdown
      <4>2. CASE mustCancel
        BY <1>1, <2>2, <4>1, <4>2 DEF OnTime
      <4>3. CASE ~mustCancel
        <5>1. pc = "closing"
          BY <2>2, <3>2, <4>3 DEF IInv, InAttempt
        <5> QED BY <1>1, <2>2, <4>1, <5>1 DEF OnTime
      <4> QED BY <4>2, <4>3
    <3> QED BY <3>1, <3>2
  <2>3. UNCHANGED <<InAttempt, Timer>>
    BY <2>1 DEF InAttempt, Timer
  <2>4. WithinBudget' = WithinBudget
    BY <2>1 DEF WithinBudget
  <2> QED BY <1>1, <1>3, <2>1, <2>2, <2>3, <2>4 DEF OnTime, Shutdown
<1>4. CASE Unwind
  <2>1. /\ UNCHANGED <<now, attempt, began, expired, stopping>> /\ since' = now
        /\ InAttempt /\ mustCancel /\ ~mustCancel' /\ pc' = "closing"
    BY <1>4 DEF Unwind, LeaveBlock
  <2> QED BY <1>1, <2>1 DEF OnTime, InAttempt, Timer
<1>5. CASE UnwindBackoff
  <2>1. /\ UNCHANGED <<now, attempt, verdicts>> /\ pc = "backoff" /\ pc' = "done"
    BY <1>5 DEF UnwindBackoff
  <2>2. WithinBudget
    BY <1>1, <2>1, BackoffOnTime, Budgeted DEF WithinBudget
  <2>3. WithinBudget'
    BY <2>1, <2>2 DEF WithinBudget
  <2> QED BY <2>1, <2>3 DEF OnTime, InAttempt
<1> QED BY <1>2, <1>3, <1>4, <1>5

(* An attempt is left within the budget of those up to it.                 *)
LEMMA AttemptOnTime ==
    ASSUME IInv, OnTime, InAttempt
    PROVE  now <= Budget(attempt)
<1>1. /\ now \in Nat /\ since \in Nat /\ began \in Nat
      /\ attempt \in 1 .. Len(RetryDelays) + 1 /\ Lag \in Nat
      /\ Timer = began + AttemptTimeout /\ AttemptTimeout \in Nat
  BY FetchAssumption DEF IInv, TypeOK, Timer
<1>2. now <= Timer + 3 * Lag
  <2>1. CASE pc = "closing"
    BY <1>1, <2>1 DEF OnTime
  <2>2. CASE pc # "closing"
    <3>1. ~expired \/ mustCancel
      BY <2>2 DEF IInv, InAttempt
    <3> QED BY <1>1, <3>1 DEF OnTime
  <2> QED BY <2>1, <2>2
<1>3. began <= (attempt - 1) * AttemptBudget + DelaysBefore[attempt]
  BY DEF OnTime
<1> QED BY <1>1, <1>2, <1>3, BudgetGrows

LEMMA LeaveTimeoutOnTime == IInv /\ OnTime /\ LeaveTimeout => OnTime'
<1> SUFFICES ASSUME IInv, OnTime, LeaveTimeout PROVE OnTime'
  OBVIOUS
<1>1. /\ pc = "closing" /\ ~mustCancel /\ InAttempt
      /\ now \in Nat /\ attempt \in 1 .. Len(RetryDelays) + 1
      /\ UNCHANGED <<now, attempt>>
      /\ verdicts \in Seq({"body", "retryable", "final", "raised"}) /\ Len(verdicts) = attempt - 1
  BY DEF LeaveTimeout, End, InAttempt, IInv, TypeOK
<1>2. now <= Budget(attempt)
  BY <1>1, AttemptOnTime
<1>3. verdicts' \in {verdicts, Append(verdicts, Verdict)}
  BY DEF LeaveTimeout
<1>4. Len(verdicts') \in {attempt - 1, attempt}
  BY <1>1, <1>3
<1>5. CASE pc' = "done"
  <2>1. WithinBudget'
    BY <1>1, <1>2, <1>4, Budgeted DEF WithinBudget
  <2> QED BY <1>5, <2>1 DEF OnTime, InAttempt
<1>6. CASE pc' # "done"
  <2>1. pc' = "backoff" /\ since' = now /\ attempt <= Len(RetryDelays)
    BY <1>1, <1>6, FetchAssumption DEF LeaveTimeout, End, Retried, IsLast
  <2>2. RetryDelays[attempt] \in Nat /\ Lag \in Nat
    BY <1>1, <2>1, FetchAssumption
  <2> QED BY <1>1, <1>2, <2>1, <2>2 DEF OnTime, InAttempt, Budget
<1> QED BY <1>5, <1>6

LEMMA RetryOnTime == IInv /\ OnTime /\ Retry => OnTime'
<1> SUFFICES ASSUME IInv, OnTime, Retry PROVE OnTime'
  OBVIOUS
<1>1. /\ pc = "backoff" /\ pc' = "asking" /\ ~mustCancel
      /\ now' = now /\ attempt' = attempt + 1 /\ began' = now /\ since' = now
      /\ UNCHANGED <<expired, mustCancel, stopping>>
      /\ attempt \in 1 .. Len(RetryDelays) /\ now \in Nat /\ since \in Nat
      /\ AttemptTimeout \in Nat /\ Lag \in Nat
  BY FetchAssumption DEF Retry, task, IInv, TypeOK
<1>2. now <= Budget(attempt) + RetryDelays[attempt] + Lag
  BY <1>1, BackoffOnTime
<1>3. began' <= (attempt' - 1) * AttemptBudget + DelaysBefore[attempt']
  BY <1>1, <1>2, BudgetGrows
<1> QED BY <1>1, <1>3 DEF OnTime, InAttempt, Timer

LEMMA TickOnTime == IInv /\ OnTime /\ Tick => OnTime'
<1> SUFFICES ASSUME IInv, OnTime, Tick PROVE OnTime'
  OBVIOUS
<1>1. /\ now \in Nat /\ since \in Nat /\ began \in Nat
      /\ Timer \in Nat /\ Lag \in Nat /\ now' = now + 1 /\ ~mustCancel
      /\ UNCHANGED <<pc, attempt, began, since, expired, mustCancel, stopping, verdicts>>
      /\ Timer' = Timer
  BY FetchAssumption DEF IInv, TypeOK, Timer, Tick, task, result
<1>2. pc = "backoff" => RetryDelays[attempt] \in Nat
  BY FetchAssumption DEF IInv, TypeOK
<1> QED BY <1>1, <1>2 DEF Tick, OnTime, InAttempt

(* "A source that trickles bytes cannot hold a run": whatever the source   *)
(* sends or leaves undone, and whenever the runner stops, the call takes   *)
(* no longer than its attempts and the waits after the failed ones.        *)
THEOREM OnBudget == Spec => []WithinBudget
<1>1. Init => OnTime
  BY InitOnTime
<1>2. IInv /\ OnTime /\ [Next]_vars => OnTime'
  <2>1. IInv /\ OnTime /\ UNCHANGED vars => OnTime'
    BY DEF vars, OnTime, InAttempt, Timer, WithinBudget
  <2> QED BY <2>1, SourceOnTime, CancelOnTime, LeaveTimeoutOnTime, RetryOnTime, TickOnTime
          DEF Next, Loop
<1>3. IInv /\ OnTime => WithinBudget
  <2> SUFFICES ASSUME IInv, OnTime, pc # "done" PROVE WithinBudget
    BY DEF OnTime
  <2>1. /\ now \in Nat /\ since \in Nat /\ attempt \in 1 .. Len(RetryDelays) + 1
        /\ Len(RetryDelays) \in Nat /\ Lag \in Nat
    BY FetchAssumption DEF IInv, TypeOK
  <2>2. CASE InAttempt
    BY <2>1, <2>2, AttemptOnTime, Budgeted DEF IInv, WithinBudget
  <2>3. CASE pc = "backoff"
    BY <2>1, <2>3, BackoffOnTime, Budgeted DEF WithinBudget
  <2> QED BY <2>2, <2>3 DEF IInv, TypeOK, InAttempt
<1> QED BY <1>1, <1>2, <1>3, Invariance, PTL DEF Spec

============================================================================
