-------------------------- MODULE HeartbeatProofs --------------------------
(***************************************************************************)
(* The health check for any values of its limits, any lag, any number of   *)
(* failed beats and slow checks, and any step of the clock: a hang is seen *)
(* in time. IInv of Heartbeat is the inductive invariant.                  *)
(***************************************************************************)
EXTENDS Heartbeat, TLAPS

USE HeartbeatAssumption, StartAssumption DEF beat, docker, Capped

(* One more check takes at most one more interval and its own time.        *)
LEMMA Streaks ==
    ASSUME NEW n \in Nat
    PROVE  /\ Checking(n) \in Nat
           /\ Checking(n + 1) = Checking(n) + Interval + CheckTimeout
<1>1. DEFINE period == Interval + CheckTimeout
<1>2. period \in Nat /\ n * period \in Nat /\ (n + 1) * period = n * period + period
  OBVIOUS
<1> QED BY <1>2 DEF Checking

(* Failures fewer than make the container unhealthy.                       *)
LEMMA StreaksGrow ==
    ASSUME NEW n \in Nat, n < Retries
    PROVE  Checking(n) + Interval + CheckTimeout <= Checking(Retries)
<1>1. PICK k \in Nat : Retries = n + 1 + k
  <2>1. Retries - n - 1 \in Nat /\ Retries = n + 1 + (Retries - n - 1)
    OBVIOUS
  <2> QED BY <2>1
<1>2. DEFINE period == Interval + CheckTimeout
<1>3. period \in Nat
  OBVIOUS
<1> HIDE DEF period
<1>4. Retries * period = n * period + period + k * period
  BY <1>1, <1>3
<1>5. n * period \in Nat /\ k * period \in Nat
  BY <1>1, <1>3
<1> QED BY <1>3, <1>4, <1>5 DEF Checking, period

----------------------------------------------------------------------------
(* A check that fails leaves as much time until unhealthy as its streak,   *)
(* one longer, stands for; the start period is over before a file ages.    *)
LEMMA FailsIInv ==
    ASSUME IInv, Fails, check <= 0, seen' = "unread", slow' \in 0 .. MaxSlow,
           UNCHANGED <<trouble, hung, exists, age, beat, uptime, silent, back>>
    PROVE  IInv'
<1> USE DEF IInv, TypeOK
<1>1. check' \in 0 .. Interval
  BY DEF Fails, Wait
<1>2. CASE streak = Retries
  <2>1. streak' = Retries /\ health' = "unhealthy"
    BY <1>2 DEF Fails
  <2> QED BY <1>1, <2>1
<1>3. CASE streak # Retries /\ InStartPeriod(uptime + check)
  <2>1. streak' = streak /\ health' = health
    BY <1>3 DEF Fails
  <2>2. silent <= MaxAge + CheckTimeout
    BY <1>3 DEF InStartPeriod
  <2>3. Checking(streak) \in Nat
    BY Streaks
  <2>4. silent' <= MaxAge + CheckTimeout + back' + Checking(streak') + (Interval - check')
    BY <1>1, <2>1, <2>2, <2>3
  <2> QED BY <1>1, <2>1, <2>4
<1>4. CASE streak # Retries /\ ~InStartPeriod(uptime + check)
  <2>1. streak' = streak + 1 /\ streak' \in 0 .. Retries
    BY <1>4 DEF Fails
  <2>2. health' = IF streak' = Retries THEN "unhealthy" ELSE health
    BY DEF Fails
  <2>3. health # "unhealthy"
    BY <1>4
  <2>4. /\ Checking(streak') = Checking(streak) + Interval + CheckTimeout
        /\ Checking(streak) \in Nat
    BY <2>1, Streaks
  <2>5. silent' <= MaxAge + CheckTimeout + back' + Checking(streak') + (Interval - check')
    BY <1>1, <2>3, <2>4
  <2>6. streak' = Retries <=> health' = "unhealthy"
    BY <2>2, <2>3
  <2>7. health' \in {"starting", "healthy", "unhealthy"}
    BY <2>2
  <2> QED BY <1>1, <2>1, <2>5, <2>6, <2>7
<1> QED BY <1>2, <1>3, <1>4

(* A check that passes has seen a file that was not too old, no longer ago *)
(* than a check can take.                                                  *)
LEMMA PassesIInv ==
    ASSUME IInv, Passes, seen = "fresh", seen' = "unread", slow' = 0,
           UNCHANGED <<trouble, hung, exists, age, beat, uptime, silent, back>>
    PROVE  IInv'
<1> USE DEF IInv, TypeOK
<1>1. silent <= MaxAge + CheckTimeout + back
  OBVIOUS
<1>2. streak' = 0 /\ check' = Interval /\ health' = "healthy"
  BY DEF Passes
<1>3. Checking(0) = 0
  BY DEF Checking
<1>4. silent' <= MaxAge + CheckTimeout + back' + Checking(streak') + (Interval - check')
  BY <1>1, <1>2, <1>3
<1> QED BY <1>2, <1>4

(* A file that is fresh is as young as the silence is short.               *)
LEMMA ReadFileIInv == IInv /\ ReadFile => IInv'
<1> SUFFICES ASSUME IInv, ReadFile PROVE IInv'
  OBVIOUS
<1>1. /\ check <= 0 /\ seen' \in {"fresh", "stale", "missing"}
      /\ UNCHANGED <<trouble, hung, exists, age, due, failed, check, slow, health, streak,
                     uptime, silent, back>>
  BY DEF ReadFile
<1>2. seen' = "fresh" => silent <= MaxAge + back - check
  BY DEF ReadFile, IsFresh, IInv, TypeOK
<1>3. UNCHANGED Checking(streak)
  BY <1>1 DEF Checking
<1> QED BY <1>1, <1>2, <1>3 DEF IInv, TypeOK

LEMMA TickIInv == IInv /\ Tick => IInv'
<1> SUFFICES ASSUME IInv, Tick PROVE IInv'
  OBVIOUS
<1> USE DEF IInv, TypeOK
<1>1. Checking(streak) \in Nat
  BY Streaks
<1>2. /\ silent' \in 0 .. MaxTime /\ uptime' \in 0 .. MaxTime /\ silent' <= uptime'
      /\ silent' <= silent + 1
      /\ ~hung => silent' = 0
  BY DEF Tick
<1>3. age' \in Int /\ age' <= MaxTime /\ age' >= silent' - back
  BY <1>2 DEF Tick
<1>4. /\ due' \in -Lag .. BeatEvery
      /\ check' \in -CheckTimeout .. Interval /\ check' = check - 1
  BY DEF Tick
<1>5. UNCHANGED <<trouble, hung, exists, failed, seen, slow, health, streak, back>>
  BY DEF Tick
<1>6. ASSUME health # "unhealthy"
      PROVE  silent' <= MaxAge + CheckTimeout + back + Checking(streak) + (Interval - check')
  <2>1. silent <= MaxAge + CheckTimeout + back + Checking(streak) + (Interval - check)
    BY <1>6
  <2>2. silent \in Nat /\ silent' \in Nat /\ back \in Nat /\ check \in Int
    BY <1>2
  <2> HIDE DEF IInv, TypeOK
  <2> QED BY <1>1, <1>2, <1>4, <2>1, <2>2
<1>7. TypeOK'
  BY <1>2, <1>3, <1>4, <1>5
<1>8. trouble' # "stepped" => back' = 0
  BY <1>5
<1>9. seen' = "fresh" => silent' <= MaxAge + back' - check'
  BY <1>2, <1>4, <1>5
<1> HIDE DEF TypeOK
<1> QED BY <1>2, <1>3, <1>5, <1>6, <1>7, <1>8, <1>9

(* The rest of the steps: the heartbeat's task and the wall clock.         *)
LEMMA LoopIInv == IInv /\ (Beat \/ BeatFails \/ Hang) => IInv'
<1> SUFFICES ASSUME IInv, Beat \/ BeatFails \/ Hang PROVE IInv'
  OBVIOUS
<1>1. /\ UNCHANGED <<trouble, check, seen, slow, health, streak, uptime, silent, back>>
      /\ silent = 0
  BY DEF Beat, BeatFails, Hang, IInv
<1>2. /\ due' \in -Lag .. BeatEvery /\ failed' \in 0 .. MaxFailed
      /\ hung' \in BOOLEAN /\ exists' \in BOOLEAN
  <2> USE DEF IInv, TypeOK
  <2>1. due' = due \/ due' = BeatEvery
    BY DEF Beat, BeatFails, Hang, AfterFailure
  <2>2. BeatEvery \in -Lag .. BeatEvery
    OBVIOUS
  <2>3. failed' \in 0 .. MaxFailed
    BY DEF Beat, BeatFails, Hang
  <2>4. hung' \in {hung, TRUE} /\ exists' \in {exists, TRUE}
    BY DEF Beat, BeatFails, Hang
  <2> QED BY <2>1, <2>2, <2>3, <2>4
<1>3. age' = age \/ age' = 0
  BY DEF Beat, BeatFails, Hang
<1>4. Checking(streak) \in Nat
  BY Streaks DEF IInv, TypeOK
<1> QED BY <1>1, <1>2, <1>3, <1>4 DEF IInv, TypeOK

LEMMA StepClockIInv == ASSUME IInv, NEW step \in ClockSteps, StepClock(step) PROVE IInv'
<1> USE DEF IInv, TypeOK
<1>1. step \in Int /\ back = 0 /\ trouble' = "stepped" /\ "stepped" \in Troubles
  BY DEF StepClock, Troubles
<1>2. back' \in Nat /\ back' >= -step /\ age' \in Int /\ age' <= MaxTime
  BY <1>1 DEF StepClock
<1>3. age' >= silent - back'
  BY <1>1, <1>2 DEF StepClock
<1>4. UNCHANGED <<hung, exists, due, failed, check, seen, slow, health, streak, uptime, silent>>
  BY DEF StepClock
<1>5. Checking(streak) \in Nat
  BY Streaks
<1>6. health # "unhealthy" =>
        silent <= MaxAge + CheckTimeout + back' + Checking(streak) + (Interval - check)
  BY <1>1, <1>2, <1>5
<1>7. seen = "fresh" => silent <= MaxAge + back' - check
  <2>1. /\ seen = "fresh" => silent <= MaxAge - check
        /\ silent \in Int /\ check \in Int /\ MaxAge \in Int
    BY <1>1
  <2>2. \A b \in Nat : seen = "fresh" => silent <= MaxAge + b - check
    BY <2>1
  <2> QED BY <1>2, <2>2
<1>8. TypeOK'
  BY <1>1, <1>2, <1>4
<1>9. silent <= uptime /\ (~hung => silent = 0) /\ UNCHANGED Checking(streak)
  BY <1>4 DEF Checking
<1> HIDE DEF IInv, TypeOK
<1> QED BY <1>1, <1>3, <1>4, <1>6, <1>7, <1>8, <1>9 DEF IInv

----------------------------------------------------------------------------
LEMMA InitIInv == Init => IInv
<1> SUFFICES ASSUME Init PROVE IInv
  OBVIOUS
<1>1. TypeOK
  <2>1. /\ due \in -Lag .. BeatEvery /\ streak \in 0 .. Retries
        /\ check \in -CheckTimeout .. Interval /\ seen = "unread"
    BY DEF Init, FirstBeat
  <2>2. streak # Retries /\ health = "starting" /\ trouble \in Troubles
    BY DEF Init
  <2>3. age \in Int /\ age <= MaxTime /\ back \in Nat
    BY DEF Init
  <2>4. failed \in 0 .. MaxFailed /\ slow \in 0 .. MaxSlow
    BY DEF Init
  <2>5. uptime \in 0 .. MaxTime /\ silent \in 0 .. MaxTime
    BY DEF Init
  <2>6. hung \in BOOLEAN /\ exists \in BOOLEAN
    BY DEF Init
  <2> QED BY <2>1, <2>2, <2>3, <2>4, <2>5, <2>6 DEF TypeOK
<1>2. Checking(streak) = 0
  BY DEF Init, Checking
<1> QED BY <1>1, <1>2 DEF Init, IInv

(* The inductive invariant holds whatever the loop, the checks and the     *)
(* clock do.                                                               *)
THEOREM Invariance == Spec => []IInv
<1>1. IInv /\ Next => IInv'
  <2> SUFFICES ASSUME IInv, Next PROVE IInv'
    OBVIOUS
  <2>1. CASE Check
    <3>1. slow' = 0 /\ slow' \in 0 .. MaxSlow
      BY <2>1 DEF Check
    <3>2. check <= 0
      BY <2>1 DEF Check, IInv, TypeOK
    <3> QED BY <2>1, <3>1, <3>2, FailsIInv, PassesIInv DEF Check
  <2>2. CASE SlowCheck
    <3>1. slow' \in 0 .. MaxSlow /\ check <= 0
      BY <2>2 DEF SlowCheck, IInv, TypeOK
    <3> QED BY <2>2, <3>1, FailsIInv DEF SlowCheck
  <2> QED BY <2>1, <2>2, ReadFileIInv, TickIInv, LoopIInv, StepClockIInv DEF Next
<1>2. IInv /\ UNCHANGED vars => IInv'
  BY DEF IInv, TypeOK, vars
<1> QED BY InitIInv, <1>1, <1>2, PTL DEF Spec

(* Type correctness of the heartbeat, the clocks and Docker's count.       *)
THEOREM Typing == Spec => []TypeOK
<1>1. IInv => TypeOK
  BY DEF IInv
<1> QED BY <1>1, Invariance, PTL

(* A hung loop is unhealthy when its file has aged, the check that found   *)
(* it fresh at the last moment has ended and as many checks as it takes    *)
(* have failed, each an interval and its timeout after the one before; and *)
(* as much later as the clock was stepped back.                            *)
THEOREM HangIsSeen == Spec => []HungIsSeen
<1>1. IInv => HungIsSeen
  <2> SUFFICES ASSUME IInv, health # "unhealthy",
                      silent > MaxAge + CheckTimeout + Checking(Retries) + back
               PROVE  FALSE
    BY DEF HungIsSeen
  <2> USE DEF IInv, TypeOK
  <2>1. streak \in Nat /\ streak < Retries
    OBVIOUS
  <2>2. Checking(streak) + Interval + CheckTimeout <= Checking(Retries)
    BY <2>1, StreaksGrow
  <2>3. Checking(streak) \in Nat /\ Checking(Retries) \in Nat
    BY <2>1, Streaks
  <2>4. /\ silent <= MaxAge + CheckTimeout + back + Checking(streak) + (Interval - check)
        /\ silent \in Nat /\ back \in Nat /\ check \in Int /\ -CheckTimeout <= check
    OBVIOUS
  <2> HIDE DEF IInv, TypeOK
  <2> QED BY <2>2, <2>3, <2>4
<1> QED BY <1>1, Invariance, PTL

----------------------------------------------------------------------------
(* The other direction: a loop that goes on stays healthy. Steady is the   *)
(* inductive invariant, on top of IInv.                                    *)

(* Checks are at least an interval apart.                                  *)
LEMMA Spacings ==
    ASSUME NEW n \in Nat
    PROVE  Spacing(n) \in Nat /\ Spacing(n + 1) = Spacing(n) + Interval
BY DEF Spacing

(* More checks take more time.                                             *)
LEMMA SpacingsOrder ==
    ASSUME NEW n \in Nat, NEW m \in Nat, Spacing(n) < Spacing(m)
    PROVE  n < m
<1>1. SUFFICES ASSUME n >= m PROVE Spacing(n) >= Spacing(m)
  BY Spacings
<1>2. PICK k \in Nat : n = m + k
  <2>1. n - m \in Nat /\ n = m + (n - m)
    BY <1>1
  <2> QED BY <2>1
<1>3. n * Interval = m * Interval + k * Interval /\ k * Interval \in Nat
  BY <1>2
<1>4. m * Interval \in Nat
  OBVIOUS
<1> QED BY <1>3, <1>4 DEF Spacing

(* How long the last beat can be ago: with no failed beat an interval and  *)
(* the lag, and with all that can fail so much for each.                   *)
LEMMA OverdueIs ==
    ASSUME TypeOK
    PROVE  /\ Overdue \in Nat
           /\ failed = 0 => Overdue = BeatEvery - due /\ Overdue <= BeatEvery + Lag
           /\ Overdue <= (MaxFailed + 1) * (BeatEvery + Lag)
           /\ due > -Lag => Overdue + 1 <= (MaxFailed + 1) * (BeatEvery + Lag)
<1>1. /\ due \in Int /\ -Lag <= due /\ due <= BeatEvery
      /\ failed \in Nat /\ MaxFailed - failed \in Nat
  BY DEF TypeOK
<1>2. DEFINE period == BeatEvery + Lag
<1>3. period \in Nat /\ failed * period \in Nat
  BY <1>1
<1>4. (MaxFailed + 1) * period = failed * period + (MaxFailed - failed) * period + period
  BY <1>1, <1>3
<1>5. (MaxFailed - failed) * period \in Nat
  BY <1>1, <1>3
<1>6. failed = 0 => failed * period = 0
  BY <1>3
<1>7. Overdue = failed * period + BeatEvery - due
  BY DEF Overdue
<1>8. failed * period \in Nat /\ (MaxFailed - failed) * period \in Nat /\ BeatEvery - due <= period
  BY <1>1, <1>3, <1>5
<1>9. DEFINE late == failed * period
             rest == (MaxFailed - failed) * period
             all == (MaxFailed + 1) * period
<1>10. /\ late \in Nat /\ rest \in Nat /\ all = late + rest + period
       /\ Overdue = late + BeatEvery - due
  BY <1>4, <1>7, <1>8
<1> HIDE DEF late, rest, all
<1>11. Overdue \in Nat /\ Overdue <= all /\ (due > -Lag => Overdue + 1 <= all)
  BY <1>1, <1>8, <1>10
<1>12. failed = 0 => Overdue = BeatEvery - due /\ Overdue <= BeatEvery + Lag
  BY <1>1, <1>6, <1>10 DEF late
<1> QED BY <1>11, <1>12 DEF all

(* The failures a step of the clock, or failed beats, leave time for.      *)
LEMMA Margins ==
    /\ Retries - 1 \in Nat /\ Spacing(0) = 0 /\ Spacing(Retries - 1) \in Nat
    /\ BeatEvery + Lag < Spacing(Retries - 1)
    /\ (MaxFailed + 1) * (BeatEvery + Lag) <= MaxAge + Spacing(Retries - 1)
<1>1. Retries - 1 \in Nat
  OBVIOUS
<1>2. Spacing(Retries - 1) \in Nat
  BY <1>1, Spacings
<1>3. Spacing(Retries - 1) = (Retries - 1) * Interval /\ Spacing(0) = 0
  BY DEF Spacing
<1> QED BY <1>1, <1>2, <1>3, MarginsAssumption

(* A streak for which there is no time yet leaves room for one more.       *)
LEMMA RoomForOne ==
    ASSUME TypeOK, Spacing(streak) < Spacing(Retries - 1)
    PROVE  streak < Retries - 1
BY Margins, SpacingsOrder DEF TypeOK

(* When a check has begun, its streak has been failing for so long.        *)
LEMMA FailingIs ==
    ASSUME TypeOK
    PROVE  /\ Spacing(streak) \in Nat /\ Failing \in Int
           /\ Failing = Spacing(streak) - check
           /\ check <= 0 => Spacing(streak) <= Failing
<1>1. Spacing(streak) \in Nat
  BY Spacings DEF TypeOK
<1>2. check \in Int
  BY DEF TypeOK
<1> QED BY <1>1, <1>2 DEF Failing

(* A failure adds no more to its streak than the time since it began, and  *)
(* one that leaves room for another does not make the container unhealthy. *)
LEMMA FailsBy ==
    ASSUME TypeOK, Fails, check <= 0
    PROVE  /\ check' \in 1 .. Interval /\ streak' \in Nat
           /\ Failing' \in Int /\ Failing' <= Spacing(streak)
           /\ streak < Retries - 1 => health' = health
<1>1. /\ check' = Wait /\ check' \in 1 .. Interval
      /\ streak \in Nat /\ uptime \in Nat /\ check \in Int
  BY DEF Fails, Wait, TypeOK
<1>2. Spacing(streak) \in Nat /\ Spacing(streak + 1) = Spacing(streak) + Interval
  BY <1>1, Spacings
<1>3. CASE streak' = streak
  <2>1. Failing' = Spacing(streak) - check'
    BY <1>3 DEF Failing, Spacing
  <2>2. streak # Retries => health' = health
    BY <1>3 DEF Fails
  <2> QED BY <1>1, <1>2, <1>3, <2>1, <2>2
<1>4. CASE streak' # streak
  <2>1. streak' = streak + 1 /\ ~InStartPeriod(uptime + check)
    BY <1>4 DEF Fails
  <2>2. check' = Interval
    BY <1>1, <2>1 DEF Wait, InStartPeriod
  <2>3. Failing' = Spacing(streak + 1) - Interval
    BY <2>1, <2>2 DEF Failing, Spacing
  <2>4. streak < Retries - 1 => health' = health
    BY <1>1, <2>1 DEF Fails
  <2> QED BY <1>1, <1>2, <2>1, <2>3, <2>4
<1> QED BY <1>3, <1>4

(* A failure of a check that began before the first beat.                  *)
LEMMA NotCounted ==
    ASSUME TypeOK, Fails, check <= 0, health = "starting", uptime + check <= Lag
    PROVE  streak' = streak /\ health' = health /\ check' = StartInterval
<1>1. uptime \in Nat /\ check \in Int /\ -CheckTimeout <= check
  BY DEF TypeOK
<1>2. uptime < StartPeriod /\ uptime + check < StartPeriod
  BY <1>1, MarginsAssumption
<1>3. streak # Retries
  BY DEF TypeOK
<1> QED BY <1>2, <1>3 DEF Fails, Wait, InStartPeriod

(* Without a step of the clock or a failed beat the file stays fresh.      *)
LEMMA StaysFresh ==
    ASSUME TypeOK, exists, failed = 0, age <= Overdue
    PROVE  IsFresh
<1>1. Overdue \in Nat /\ Overdue <= BeatEvery + Lag
  BY OverdueIs
<1>2. age \in Int /\ age <= MaxAge
  BY <1>1, MarginsAssumption DEF TypeOK
<1> QED BY <1>2 DEF IsFresh

(* A check that fails, by what it saw of the file or by its own slowness:  *)
(* what its failure leaves, and that it does not make a running loop       *)
(* unhealthy. First before there is a file, then for each kind of trouble. *)
LEMMA FailsBefore ==
    ASSUME TypeOK, Fails, check <= 0, seen' = "unread", BeforeFirstBeat,
           UNCHANGED <<trouble, exists, due, uptime>>
    PROVE  BeforeFirstBeat'
<1> SUFFICES ASSUME trouble # "beats", ~exists
             PROVE  health' = "starting" /\ streak' = 0 /\ uptime <= -due /\ check' <= StartInterval
  BY DEF BeforeFirstBeat
<1>1. health = "starting" /\ streak = 0 /\ uptime <= -due
  BY DEF BeforeFirstBeat
<1>2. due \in Int /\ -Lag <= due /\ uptime \in Nat /\ check \in Int
  BY DEF TypeOK
<1>3. uptime + check <= Lag
  BY <1>1, <1>2
<1> QED BY <1>1, <1>3, NotCounted

LEMMA FailsSlowly ==
    ASSUME TypeOK, Steady, ~hung, Fails, check <= 0, seen' = "unread",
           exists, trouble \in {"none", "checks", "clock"},
           UNCHANGED <<trouble, exists, age, beat, uptime>>,
           \/ seen \in {"stale", "missing"} /\ slow' = 0
           \/ trouble = "checks" /\ slow < MaxSlow /\ slow' = slow + 1
    PROVE  OnlySlowChecks' /\ (health' = "unhealthy" => health = "unhealthy")
<1>1. age <= Overdue /\ streak <= slow /\ seen # "stale"
  BY DEF Steady, OnlySlowChecks
<1>2. streak \in Nat /\ slow \in Nat /\ uptime \in Nat /\ check \in Int /\ -CheckTimeout <= check
  BY DEF TypeOK
<1>3. Overdue' = Overdue
  BY DEF Overdue
<1>4. CASE seen = "missing"
  <2>1. health = "starting" /\ streak = 0 /\ uptime + check <= Lag
    BY <1>4 DEF Steady, BeforeFirstBeat
  <2>2. streak' = 0 /\ health' = health /\ check' = StartInterval
    BY <2>1, NotCounted
  <2>3. slow' \in Nat
    BY <1>2
  <2>4. uptime' + check' <= Lag + StartInterval + CheckTimeout
    BY <1>2, <2>1, <2>2
  <2> QED BY <1>1, <1>3, <2>2, <2>3, <2>4 DEF OnlySlowChecks
<1>5. CASE seen # "missing"
  <2>1. trouble = "checks" /\ slow < MaxSlow /\ slow' = slow + 1
    BY <1>1, <1>5
  <2>2. streak' <= streak + 1
    BY <1>2 DEF Fails
  <2>3. streak' <= slow' /\ streak' < Retries
    BY <1>1, <1>2, <2>1, <2>2, MarginsAssumption DEF Fails
  <2>4. health' = health
    BY <2>3 DEF Fails
  <2> QED BY <1>1, <1>3, <2>1, <2>3, <2>4 DEF OnlySlowChecks
<1> QED BY <1>4, <1>5

LEMMA FailsAfterStep ==
    ASSUME TypeOK, Steady, ~hung, Fails, check <= 0, seen' = "unread",
           exists, trouble = "stepped", seen \in {"stale", "missing"},
           UNCHANGED <<trouble, exists, age, beat, uptime>>
    PROVE  OnlyAStep' /\ (health' = "unhealthy" => health = "unhealthy")
<1>1. Overdue' = Overdue /\ Overdue \in Nat
  BY OverdueIs DEF Overdue
<1>2. age <= Overdue \/ streak = 0 \/ Failing <= Overdue
  BY DEF Steady, OnlyAStep
<1>3. streak < Retries - 1
  <2>1. CASE seen = "stale"
    BY <2>1 DEF Steady, OnlyAStep
  <2>2. CASE seen = "missing"
    <3>1. streak = 0
      BY <2>2 DEF Steady, BeforeFirstBeat
    <3>2. 0 < Retries - 1
      <4>1. Spacing(0) < Spacing(Retries - 1)
        BY Margins
      <4> QED BY <4>1, Margins, SpacingsOrder
    <3> QED BY <3>1, <3>2
  <2> QED BY <2>1, <2>2
<1>4. Failing' \in Int /\ Failing' <= Spacing(streak) /\ health' = health
  BY <1>3, FailsBy
<1>5. Failing \in Int /\ Spacing(streak) \in Nat /\ Spacing(streak) <= Failing
  BY FailingIs
<1>6. age <= Overdue \/ Failing' <= Overdue
  <2>1. CASE streak = 0
    BY <1>1, <1>4, <2>1, Margins
  <2>2. CASE Failing <= Overdue
    BY <1>1, <1>4, <1>5, <2>2
  <2> QED BY <1>2, <2>1, <2>2
<1> QED BY <1>1, <1>4, <1>6 DEF OnlyAStep

LEMMA FailsOnBeats ==
    ASSUME TypeOK, Steady, ~hung, Fails, check <= 0, seen' = "unread",
           exists, trouble = "beats", seen \in {"stale", "missing"},
           UNCHANGED <<trouble, exists, age, beat, uptime>>
    PROVE  OnlyFailedBeats' /\ (seen = "stale" /\ health' = "unhealthy" => health = "unhealthy")
<1>1. Overdue' = Overdue /\ age <= Overdue
  BY DEF Overdue, Steady, OnlyFailedBeats
<1>2. /\ streak = 0 \/ age + check + CheckTimeout <= MaxAge \/ MaxAge + Failing < age
      /\ age <= -check \/ MaxAge < age
      /\ seen = "stale" => streak < Retries - 1
  BY DEF Steady, OnlyFailedBeats
<1>3. /\ check' \in 1 .. Interval /\ Failing' \in Int /\ Failing' <= Spacing(streak)
      /\ streak < Retries - 1 => health' = health
  BY FailsBy
<1>4. age \in Int /\ check \in Int /\ -CheckTimeout <= check
  BY DEF TypeOK
<1>5. Failing \in Int /\ Spacing(streak) \in Nat /\ Spacing(streak) <= Failing
  BY FailingIs
<1>6. age + check' + CheckTimeout <= MaxAge \/ MaxAge + Failing' < age
  <2>1. CASE age <= -check
    <3>1. \A wait \in 1 .. Interval : age + wait + CheckTimeout <= MaxAge
      BY <1>4, <2>1, MarginsAssumption
    <3> QED BY <1>3, <3>1
  <2>2. CASE MaxAge < age
    <3>1. MaxAge + Spacing(streak) < age
      <4>1. CASE streak = 0
        BY <2>2, <4>1, Margins
      <4>2. CASE MaxAge + Failing < age
        BY <1>4, <1>5, <4>2
      <4>3. MaxAge < age + check + CheckTimeout
        BY <1>4, <2>2
      <4>4. ~(age + check + CheckTimeout <= MaxAge)
        BY <1>4, <4>3
      <4> QED BY <1>2, <4>1, <4>2, <4>4
    <3>2. \A f \in Int : f <= Spacing(streak) => MaxAge + f < age
      BY <1>4, <1>5, <3>1
    <3> QED BY <1>3, <3>2
  <2> QED BY <1>2, <2>1, <2>2
<1> QED BY <1>1, <1>2, <1>3, <1>6 DEF OnlyFailedBeats

LEMMA FailsSteady ==
    ASSUME IInv, Steady, Fails, check <= 0, seen' = "unread",
           UNCHANGED <<trouble, hung, exists, age, beat, uptime>>,
           \/ seen \in {"stale", "missing"} /\ slow' = 0
           \/ trouble = "checks" /\ slow < MaxSlow /\ slow' = slow + 1
    PROVE  /\ Steady'
           /\ ~hung /\ exists /\ seen # "missing" /\ health' = "unhealthy" => health = "unhealthy"
<1>0. TypeOK
  BY DEF IInv
<1>1. /\ trouble' # "beats" => failed' = 0
      /\ trouble' # "checks" => slow' = 0
      /\ seen' \in {"fresh", "stale"} => exists'
  BY DEF Steady
<1>2. CASE hung
  BY <1>1, <1>2 DEF Steady
<1>3. CASE ~hung
  <2>1. BeforeFirstBeat'
    BY <1>0, <1>3, FailsBefore DEF Steady
  <2>2. CASE ~exists
    BY <1>1, <1>3, <2>1, <2>2 DEF Steady, OnlySlowChecks, OnlyAStep, OnlyFailedBeats
  <2>3. CASE exists /\ trouble \in {"none", "checks", "clock"}
    <3>1. OnlySlowChecks' /\ (health' = "unhealthy" => health = "unhealthy")
      BY <1>0, <1>3, <2>3, FailsSlowly
    <3>2. OnlyAStep' /\ OnlyFailedBeats'
      BY <2>3 DEF OnlyAStep, OnlyFailedBeats
    <3> QED BY <1>1, <2>1, <3>1, <3>2 DEF Steady
  <2>4. CASE exists /\ trouble = "stepped"
    <3>1. OnlyAStep' /\ (health' = "unhealthy" => health = "unhealthy")
      BY <1>0, <1>3, <2>4, FailsAfterStep
    <3>2. OnlySlowChecks' /\ OnlyFailedBeats'
      BY <2>4 DEF OnlySlowChecks, OnlyFailedBeats
    <3> QED BY <1>1, <2>1, <3>1, <3>2 DEF Steady
  <2>5. CASE exists /\ trouble = "beats"
    <3>1. OnlyFailedBeats' /\ (seen = "stale" /\ health' = "unhealthy" => health = "unhealthy")
      BY <1>0, <1>3, <2>5, FailsOnBeats
    <3>2. OnlySlowChecks' /\ OnlyAStep'
      BY <2>5 DEF OnlySlowChecks, OnlyAStep
    <3> QED BY <1>1, <2>1, <2>5, <3>1, <3>2 DEF Steady
  <2>6. trouble \in {"none", "beats", "checks", "clock", "stepped"}
    BY <1>0 DEF TypeOK, Troubles
  <2> QED BY <2>2, <2>3, <2>4, <2>5, <2>6
<1> QED BY <1>2, <1>3

(* A check that passes ends whatever streak there was.                     *)
LEMMA PassesSteady ==
    ASSUME IInv, Steady, Passes, seen = "fresh", seen' = "unread", slow' = 0,
           UNCHANGED <<trouble, hung, exists, age, beat, uptime>>
    PROVE  Steady'
<1>1. streak' = 0 /\ health' = "healthy" /\ exists'
  BY DEF Passes, Steady
<1>2. Overdue' = Overdue
  BY DEF Overdue
<1>3. ~hung => OnlySlowChecks'
  BY <1>1, <1>2 DEF Steady, OnlySlowChecks
<1>4. ~hung => OnlyFailedBeats'
  BY <1>1, <1>2 DEF Steady, OnlyFailedBeats
<1>5. BeforeFirstBeat' /\ OnlyAStep'
  BY <1>1 DEF BeforeFirstBeat, OnlyAStep
<1> QED BY <1>1, <1>3, <1>4, <1>5 DEF Steady

(* A check that reads the file: it is old only while there is room for the *)
(* failure, and missing only before the first beat.                        *)
LEMMA ReadFileSteady == IInv /\ Steady /\ ReadFile => Steady'
<1> SUFFICES ASSUME IInv, Steady, ReadFile PROVE Steady'
  OBVIOUS
<1>0. TypeOK
  BY DEF IInv
<1>1. /\ check <= 0
      /\ seen' = IF IsFresh THEN "fresh" ELSE IF exists THEN "stale" ELSE "missing"
      /\ UNCHANGED <<trouble, hung, exists, age, due, failed, check, slow, health, streak, uptime>>
  BY DEF ReadFile
<1>2. /\ seen' \in {"fresh", "stale"} => exists
      /\ seen' = "missing" => ~exists
      /\ seen' = "stale" => MaxAge < age
  BY <1>0, <1>1 DEF IsFresh, TypeOK
<1>3. Overdue' = Overdue /\ Failing' = Failing
  BY <1>1 DEF Overdue, Failing, Spacing
<1>4. SUFFICES ASSUME ~hung
               PROVE  BeforeFirstBeat' /\ OnlySlowChecks' /\ OnlyAStep' /\ OnlyFailedBeats'
  BY <1>1, <1>2 DEF Steady
<1>5. BeforeFirstBeat'
  <2>1. due \in Int /\ -Lag <= due /\ uptime \in Nat /\ check \in Int
    BY <1>0 DEF TypeOK
  <2>2. trouble # "beats" /\ ~exists =>
          health = "starting" /\ streak = 0 /\ uptime <= -due /\ check <= StartInterval
    BY <1>4 DEF Steady, BeforeFirstBeat
  <2> QED BY <1>1, <1>2, <2>1, <2>2 DEF BeforeFirstBeat
<1>6. ASSUME failed = 0, exists, age <= Overdue
      PROVE  seen' # "stale"
  BY <1>0, <1>1, <1>6, StaysFresh
<1>7. Failing \in Int /\ Spacing(streak) \in Nat /\ Spacing(streak) <= Failing
  BY <1>0, <1>1, FailingIs
<1>8. OnlySlowChecks'
  BY <1>1, <1>3, <1>4, <1>6 DEF Steady, OnlySlowChecks
<1>9. 0 < Retries - 1
  <2>1. Spacing(0) < Spacing(Retries - 1)
    BY Margins
  <2> QED BY <2>1, Margins, SpacingsOrder
<1>10. OnlyAStep'
  <2>1. SUFFICES ASSUME exists, trouble = "stepped"
                 PROVE  /\ age <= Overdue \/ streak = 0 \/ Failing <= Overdue
                        /\ seen' = "stale" => streak < Retries - 1
    BY <1>1, <1>3 DEF OnlyAStep
  <2>2. failed = 0 /\ (age <= Overdue \/ streak = 0 \/ Failing <= Overdue)
    BY <1>4, <2>1 DEF Steady, OnlyAStep
  <2>3. ASSUME seen' = "stale", streak # 0
        PROVE  streak < Retries - 1
    <3>1. Failing <= Overdue
      BY <1>6, <2>1, <2>2, <2>3
    <3>2. Overdue \in Nat /\ Overdue <= BeatEvery + Lag
      BY <1>0, <2>2, OverdueIs
    <3>3. Spacing(streak) < Spacing(Retries - 1)
      BY <1>7, <3>1, <3>2, Margins
    <3> QED BY <1>0, <3>3, RoomForOne
  <2> QED BY <1>9, <2>2, <2>3
<1>11. OnlyFailedBeats'
  <2>1. SUFFICES ASSUME exists, trouble = "beats"
                 PROVE  /\ age <= Overdue
                        /\ \/ streak = 0 \/ age + check + CheckTimeout <= MaxAge
                           \/ MaxAge + Failing < age
                        /\ seen' = "stale" => MaxAge < age /\ streak < Retries - 1
    BY <1>1, <1>2, <1>3 DEF OnlyFailedBeats
  <2>2. /\ age <= Overdue
        /\ streak = 0 \/ age + check + CheckTimeout <= MaxAge \/ MaxAge + Failing < age
    BY <1>4, <2>1 DEF Steady, OnlyFailedBeats
  <2>3. ASSUME seen' = "stale", streak # 0
        PROVE  streak < Retries - 1
    <3>1. MaxAge < age /\ age \in Int /\ check \in Int /\ -CheckTimeout <= check
      BY <1>0, <1>2, <2>3 DEF TypeOK
    <3>2. MaxAge + Failing < age
      BY <2>2, <2>3, <3>1
    <3>3. DEFINE all == (MaxFailed + 1) * (BeatEvery + Lag)
    <3>4. Overdue \in Nat /\ Overdue <= all /\ all \in Nat /\ all <= MaxAge + Spacing(Retries - 1)
      BY <1>0, OverdueIs, Margins
    <3> HIDE DEF all
    <3>5. Spacing(streak) < Spacing(Retries - 1)
      BY <1>7, <2>2, <3>1, <3>2, <3>4, Margins
    <3> QED BY <1>0, <3>5, RoomForOne
  <2> QED BY <1>2, <1>9, <2>2, <2>3
<1> QED BY <1>5, <1>8, <1>10, <1>11

(* A beat makes a file that is fresh at the next check, and the first one  *)
(* comes in time.                                                          *)
LEMMA BeatSteady == IInv /\ Steady /\ Beat => Steady'
<1> SUFFICES ASSUME IInv, Steady, Beat PROVE Steady'
  OBVIOUS
<1>1. /\ ~hung /\ exists' /\ age' = 0 /\ failed' = 0 /\ due' = BeatEvery
      /\ UNCHANGED <<trouble, hung, check, seen, slow, health, streak, uptime>>
  BY DEF Beat
<1>2. Overdue' = 0
  BY <1>1 DEF Overdue
<1>3. /\ uptime \in Nat /\ check \in -CheckTimeout .. Interval /\ slow \in Nat
      /\ due \in Int /\ -Lag <= due
      /\ seen # "unread" => check <= 0
  BY DEF IInv, TypeOK
<1>4. OnlySlowChecks'
  <2>1. CASE exists
    BY <1>1, <1>2, <2>1 DEF Steady, OnlySlowChecks
  <2>2. CASE ~exists
    <3>1. trouble # "beats" =>
            streak = 0 /\ uptime <= Lag /\ check <= StartInterval /\ seen # "stale"
      BY <1>1, <1>3, <2>2 DEF Steady, BeforeFirstBeat
    <3> QED BY <1>1, <1>2, <1>3, <3>1 DEF OnlySlowChecks
  <2> QED BY <2>1, <2>2
<1>5. BeforeFirstBeat'
  BY <1>1 DEF Steady, BeforeFirstBeat
<1>6. OnlyAStep'
  BY <1>1, <1>2 DEF Steady, OnlyAStep
<1>7. OnlyFailedBeats'
  BY <1>1, <1>2, <1>3, MarginsAssumption DEF Steady, OnlyFailedBeats
<1>8. /\ trouble' # "beats" => failed' = 0
      /\ trouble' # "checks" => slow' = 0
      /\ seen' \in {"fresh", "stale"} => exists'
  BY <1>1 DEF Steady
<1> QED BY <1>1, <1>4, <1>5, <1>6, <1>7, <1>8 DEF Steady

(* A beat that fails leaves the file to age for one more period.           *)
LEMMA BeatFailsSteady == IInv /\ Steady /\ BeatFails => Steady'
<1> SUFFICES ASSUME IInv, Steady, BeatFails PROVE Steady'
  OBVIOUS
<1>1. /\ ~hung /\ trouble = "beats" /\ failed' = failed + 1 /\ due' = BeatEvery
      /\ UNCHANGED <<trouble, hung, exists, age, check, seen, slow, health, streak, uptime>>
  BY DEF BeatFails, AfterFailure
<1>2. Overdue <= Overdue' /\ Overdue \in Int /\ Overdue' \in Int
  <2>1. failed \in Nat /\ due \in Int /\ -Lag <= due
    BY DEF IInv, TypeOK
  <2>2. DEFINE period == BeatEvery + Lag
               late == failed * period
  <2>3. (failed + 1) * period = late + period /\ late \in Nat
    BY <2>1
  <2>4. Overdue = late + BeatEvery - due
    BY DEF Overdue
  <2>5. Overdue' = late + period + BeatEvery - BeatEvery
    BY <1>1, <2>3 DEF Overdue
  <2>6. late \in Nat
    BY <2>3
  <2> HIDE DEF late
  <2> QED BY <2>1, <2>4, <2>5, <2>6
<1>3. age \in Int
  BY DEF IInv, TypeOK
<1>4. BeforeFirstBeat' /\ OnlySlowChecks' /\ OnlyAStep'
  BY <1>1 DEF BeforeFirstBeat, OnlySlowChecks, OnlyAStep
<1>5. Failing' = Failing
  BY <1>1 DEF Failing, Spacing
<1>6. OnlyFailedBeats'
  <2>1. exists => age <= Overdue'
    BY <1>1, <1>2, <1>3 DEF Steady, OnlyFailedBeats
  <2> QED BY <1>1, <1>5, <2>1 DEF Steady, OnlyFailedBeats
<1> QED BY <1>1, <1>4, <1>6 DEF Steady

LEMMA HangSteady == Steady /\ Hang => Steady'
BY DEF Steady, Hang

(* Time passes: everything that is measured grows alike.                   *)
LEMMA TickSteady == IInv /\ Steady /\ Tick => Steady'
<1> SUFFICES ASSUME IInv, Steady, Tick PROVE Steady'
  OBVIOUS
<1>0. TypeOK
  BY DEF IInv
<1>1. /\ age' = Capped(age + 1) /\ check' = check - 1 /\ uptime' = Capped(uptime + 1)
      /\ UNCHANGED <<trouble, hung, exists, failed, seen, slow, health, streak>>
  BY DEF Tick
<1>2. /\ age \in Int /\ uptime \in 0 .. MaxTime /\ check \in Int /\ slow \in Nat
      /\ due \in Int /\ streak \in Nat
  BY <1>0 DEF TypeOK
<1>3. /\ uptime' \in Int /\ uptime <= uptime' /\ uptime' <= uptime + 1
      /\ age' \in Int /\ age' <= age + 1
  BY <1>1, <1>2
<1>4. /\ trouble' # "beats" => failed' = 0
      /\ trouble' # "checks" => slow' = 0
      /\ seen' \in {"fresh", "stale"} => exists'
  BY <1>1 DEF Steady
<1>5. SUFFICES ASSUME ~hung
               PROVE  BeforeFirstBeat' /\ OnlySlowChecks' /\ OnlyAStep' /\ OnlyFailedBeats'
  BY <1>1, <1>4 DEF Steady
<1>6. due' = due - 1 /\ due' \in Int
  BY <1>2, <1>5 DEF Tick
<1>7. Overdue' = Overdue + 1 /\ Overdue \in Nat
  <2>1. failed * (BeatEvery + Lag) \in Nat
    BY <1>0 DEF TypeOK
  <2>2. DEFINE late == failed * (BeatEvery + Lag)
  <2>3. Overdue = late + BeatEvery - due /\ Overdue' = late + BeatEvery - due' /\ late \in Nat
    BY <1>1, <2>1 DEF Overdue
  <2>4. Overdue \in Nat
    BY <1>0, OverdueIs
  <2> HIDE DEF late
  <2> QED BY <1>2, <1>6, <2>3, <2>4
<1>8. Failing' = Failing + 1 /\ Failing \in Int
  <2>1. Spacing(streak)' = Spacing(streak) /\ Spacing(streak) \in Nat
    BY <1>0, <1>1, FailingIs DEF Spacing
  <2> QED BY <1>1, <1>2, <2>1 DEF Failing
<1>9. BeforeFirstBeat'
  BY <1>1, <1>2, <1>3, <1>5, <1>6 DEF Steady, BeforeFirstBeat
<1>10. OnlySlowChecks'
  <2>1. ASSUME exists, trouble \in {"none", "checks", "clock"}
        PROVE  /\ age' <= Overdue' /\ streak' <= slow' /\ seen' # "stale"
               /\ trouble' = "none" /\ health' = "starting" =>
                    uptime' + check' <= Lag + StartInterval + CheckTimeout
    BY <1>1, <1>2, <1>3, <1>5, <1>7, <2>1 DEF Steady, OnlySlowChecks
  <2> QED BY <1>1, <2>1 DEF OnlySlowChecks
<1>11. OnlyAStep'
  <2>1. ASSUME exists, trouble = "stepped"
        PROVE  /\ age' <= Overdue' \/ streak' = 0 \/ Failing' <= Overdue'
               /\ seen' = "stale" => streak' < Retries - 1
    BY <1>1, <1>2, <1>3, <1>5, <1>7, <1>8, <2>1 DEF Steady, OnlyAStep
  <2> QED BY <1>1, <2>1 DEF OnlyAStep
<1>12. OnlyFailedBeats'
  <2>1. SUFFICES ASSUME exists, trouble = "beats"
                 PROVE  /\ age' <= Overdue'
                        /\ \/ streak' = 0 \/ age' + check' + CheckTimeout <= MaxAge
                           \/ MaxAge + Failing' < age'
                        /\ seen' \in {"stale", "missing"} => age' <= -check' \/ MaxAge < age'
                        /\ seen' = "stale" => streak' < Retries - 1
    BY <1>1 DEF OnlyFailedBeats
  <2>2. /\ age <= Overdue
        /\ streak = 0 \/ age + check + CheckTimeout <= MaxAge \/ MaxAge + Failing < age
        /\ seen \in {"stale", "missing"} => age <= -check \/ MaxAge < age
        /\ seen = "stale" => streak < Retries - 1
    BY <1>5, <2>1 DEF Steady, OnlyFailedBeats
  <2>3. Overdue' <= MaxTime
    <3>1. due > -Lag
      BY <1>5 DEF Tick
    <3>2. Overdue + 1 <= (MaxFailed + 1) * (BeatEvery + Lag)
      BY <1>0, <3>1, OverdueIs
    <3>3. DEFINE all == (MaxFailed + 1) * (BeatEvery + Lag)
    <3>4. all \in Nat /\ all <= MaxTime /\ Overdue' <= all
      BY <1>7, <3>2, MarginsAssumption
    <3> HIDE DEF all
    <3> QED BY <1>7, <3>4
  <2>4. age' = age + 1
    BY <1>1, <1>2, <1>7, <2>2, <2>3
  <2> QED BY <1>1, <1>2, <1>7, <1>8, <2>2, <2>4
<1> QED BY <1>9, <1>10, <1>11, <1>12

(* A step back only makes the file younger; when a step forward comes no   *)
(* check has failed.                                                       *)
LEMMA StepClockSteady ==
    ASSUME IInv, Steady, NEW step \in ClockSteps, StepClock(step)
    PROVE  Steady'
<1>1. /\ trouble = "clock" /\ trouble' = "stepped"
      /\ UNCHANGED <<hung, exists, due, failed, check, seen, slow, health, streak, uptime>>
  BY DEF StepClock
<1>2. ~hung /\ exists => streak = 0 /\ seen # "stale"
  BY <1>1 DEF Steady, OnlySlowChecks, IInv, TypeOK
<1>3. /\ trouble' # "beats" => failed' = 0
      /\ trouble' # "checks" => slow' = 0
      /\ seen' \in {"fresh", "stale"} => exists'
  BY <1>1 DEF Steady
<1>4. ~hung => BeforeFirstBeat'
  BY <1>1 DEF Steady, BeforeFirstBeat
<1>5. OnlySlowChecks' /\ OnlyFailedBeats'
  BY <1>1 DEF OnlySlowChecks, OnlyFailedBeats
<1>6. ~hung => OnlyAStep'
  BY <1>1, <1>2 DEF OnlyAStep
<1> QED BY <1>1, <1>3, <1>4, <1>5, <1>6 DEF Steady

LEMMA InitSteady == Init => Steady
<1> SUFFICES ASSUME Init PROVE Steady
  OBVIOUS
<1>1. /\ age = 0 /\ uptime = 0 /\ seen = "unread" /\ failed = 0 /\ slow = 0 /\ streak = 0 /\ ~exists
      /\ health = "starting" /\ due = 0 /\ check = StartInterval
  BY DEF Init, FirstBeat
<1> QED BY <1>1 DEF Steady, BeforeFirstBeat, OnlySlowChecks, OnlyAStep, OnlyFailedBeats

(* Without trouble the first check after the first beat passes.            *)
LEMMA InTime ==
    TypeOK /\ Steady =>
        (~hung /\ trouble = "none" /\ health = "starting"
           => uptime <= Lag + StartInterval + 2 * CheckTimeout)
<1> SUFFICES ASSUME TypeOK, Steady, ~hung, trouble = "none", health = "starting"
             PROVE  uptime <= Lag + StartInterval + 2 * CheckTimeout
  OBVIOUS
<1>1. /\ uptime \in Nat /\ check \in Int /\ -CheckTimeout <= check
      /\ due \in Int /\ -Lag <= due
  BY DEF TypeOK
<1>2. CASE exists
  BY <1>1, <1>2 DEF Steady, OnlySlowChecks
<1>3. CASE ~exists
  BY <1>1, <1>3 DEF Steady, BeforeFirstBeat
<1> QED BY <1>2, <1>3

(* A step leaves a loop that goes on healthy.                              *)
LEMMA StaysHealthy ==
    ASSUME IInv, Steady, Next
    PROVE  ~hung /\ exists /\ seen # "missing" /\ health' = "unhealthy" => health = "unhealthy"
<1>1. CASE Check
  <2>1. /\ slow' = 0 /\ UNCHANGED <<trouble, hung, exists, age, beat, uptime>>
        /\ check <= 0 /\ seen' = "unread" /\ seen \in {"fresh", "stale", "missing"}
    BY <1>1 DEF Check, IInv, TypeOK
  <2>2. CASE seen = "fresh"
    BY <1>1, <2>2 DEF Check, Passes
  <2>3. CASE seen # "fresh"
    BY <1>1, <2>1, <2>3, FailsSteady DEF Check
  <2> QED BY <2>2, <2>3
<1>2. CASE SlowCheck
  <2>1. /\ UNCHANGED <<trouble, hung, exists, age, beat, uptime>>
        /\ check <= 0 /\ seen' = "unread" /\ Fails
    BY <1>2 DEF SlowCheck
  <2>2. trouble = "checks" /\ slow < MaxSlow /\ slow' = slow + 1
    BY <1>2 DEF SlowCheck
  <2> QED BY <2>1, <2>2, FailsSteady
<1>3. CASE ~Check /\ ~SlowCheck
  BY <1>3 DEF Next, Beat, BeatFails, Hang, ReadFile, Tick, StepClock
<1> QED BY <1>1, <1>2, <1>3

(* Whatever beats fail, checks are slow or the clock does, one at a time.  *)
THEOREM Steadiness == Spec => []Steady
<1>1. IInv /\ Steady /\ Next => Steady'
  <2> SUFFICES ASSUME IInv, Steady, Next PROVE Steady'
    OBVIOUS
  <2>1. CASE Check
    <3>1. /\ slow' = 0 /\ UNCHANGED <<trouble, hung, exists, age, beat, uptime>>
          /\ check <= 0 /\ seen' = "unread" /\ seen \in {"fresh", "stale", "missing"}
      BY <2>1 DEF Check, IInv, TypeOK
    <3> QED BY <2>1, <3>1, FailsSteady, PassesSteady DEF Check
  <2>2. CASE SlowCheck
    <3>1. /\ UNCHANGED <<trouble, hung, exists, age, beat, uptime>>
          /\ check <= 0 /\ seen' = "unread" /\ Fails
      BY <2>2 DEF SlowCheck
    <3>2. trouble = "checks" /\ slow < MaxSlow /\ slow' = slow + 1
      BY <2>2 DEF SlowCheck
    <3> QED BY <3>1, <3>2, FailsSteady
  <2> QED BY <2>1, <2>2, BeatSteady, BeatFailsSteady, HangSteady, ReadFileSteady, TickSteady,
             StepClockSteady
          DEF Next
<1>2. Steady /\ UNCHANGED vars => Steady'
  BY DEF Steady, BeforeFirstBeat, OnlySlowChecks, OnlyAStep, OnlyFailedBeats, Overdue, Failing,
         Spacing, docker, beat, vars
<1> QED BY InitSteady, <1>1, <1>2, Invariance, PTL DEF Spec

(* Four missed beats, a slow check or a step of the clock never turn a     *)
(* loop that goes on unhealthy; without them it is healthy in time.        *)
THEOREM NoFalseAlarm == Spec => RunningStaysHealthy
<1>1. IInv => TypeOK
  BY DEF IInv
<1>2. IInv /\ Steady =>
        (~hung /\ trouble = "none" /\ uptime > Lag + StartInterval + 2 * CheckTimeout
           => health # "starting")
  BY <1>1, InTime DEF TypeOK
<1>3. /\ IInv /\ Steady /\ [Next]_vars
      /\ (~hung /\ trouble = "none" /\ uptime > Lag + StartInterval + 2 * CheckTimeout
            => health # "starting")'
      => [/\ ~hung /\ exists /\ seen # "missing" /\ health' = "unhealthy" => health = "unhealthy"
          /\ ~hung' /\ trouble' = "none" /\ uptime' > Lag + StartInterval + 2 * CheckTimeout
             => health' # "starting"]_vars
  BY StaysHealthy
<1> QED BY <1>2, <1>3, Invariance, Steadiness, PTL DEF Spec, RunningStaysHealthy

=============================================================================
