----------------------------- MODULE Heartbeat -----------------------------
(***************************************************************************)
(* The heartbeat (runner/heartbeat.py) and the container's health check    *)
(* that reads it: beat_forever touches a file, measured on the monotonic   *)
(* clock; the check takes the file's age on the wall clock; Docker runs    *)
(* the check, kills it when it takes too long, waits from its end to the   *)
(* next and counts its failures (HEALTHCHECK in the Dockerfile).           *)
(*                                                                         *)
(* At any moment the event loop may hang for good: a run that never gives  *)
(* up control, a deadlock in native code. Besides that, a behaviour has    *)
(* one kind of trouble, chosen in Init: beats that fail, checks that are   *)
(* slow, a step of the wall clock, or none.                                *)
(***************************************************************************)
EXTENDS Integers

CONSTANTS
    BeatEvery,       \* between two beats
    MaxAge,          \* the oldest file that is fresh
    Interval,        \* between two checks
    StartInterval,   \* the same in the start period
    CheckTimeout,    \* after which a check is killed
    StartPeriod,     \* as long as no check has passed, failures do not count
    Retries,         \* failures in a row that make the container unhealthy
    Lag,             \* the longest the event loop leaves a beat that is due
    MaxFailed,       \* trouble: beats that fail in a row
    MaxSlow,         \* trouble: checks in a row that take too long
    ClockSteps,      \* trouble: steps of the wall clock
    MaxTime          \* bound: how far times are counted

ASSUME HeartbeatAssumption ==
    /\ BeatEvery \in Nat \ {0} /\ Interval \in Nat \ {0} /\ StartInterval \in Nat \ {0}
    /\ CheckTimeout \in Nat /\ MaxAge \in Nat /\ StartPeriod \in Nat /\ Retries \in Nat \ {0}
    /\ Lag \in Nat /\ MaxFailed \in Nat /\ MaxSlow \in Nat /\ MaxTime \in Nat
    /\ ClockSteps \subseteq Int

(* "every 2 s during the start period", which is over before a file ages.  *)
ASSUME StartAssumption == StartInterval <= Interval /\ StartPeriod <= MaxAge

(* The margins of the limits: a beat comes in the start period, and often  *)
(* enough for a file to stay fresh; too few checks fit in the time a step  *)
(* of the clock or failed beats leave the file too old; and fewer are slow *)
(* than it takes. The last one is of the bound.                            *)
ASSUME MarginsAssumption ==
    /\ Lag + CheckTimeout < StartPeriod
    /\ BeatEvery + Lag <= MaxAge /\ Interval + 2 * CheckTimeout <= MaxAge
    /\ BeatEvery + Lag < (Retries - 1) * Interval
    /\ (MaxFailed + 1) * (BeatEvery + Lag) <= MaxAge + (Retries - 1) * Interval
    /\ MaxSlow < Retries
    /\ (MaxFailed + 1) * (BeatEvery + Lag) <= MaxTime

VARIABLES
    trouble,   \* the kind of trouble of this behaviour
    hung,      \* the event loop is hung
    due,       \* time until the next beat, negative when it is late
    exists,    \* the file is there
    age,       \* the wall clock minus the file's modification time
    failed,    \* beats that failed in a row
    check,     \* time until the next check, negative since it began
    seen,      \* what the check in progress has seen of the file
    slow,      \* checks that were slow in a row
    health,    \* what Docker says
    streak,    \* failures that count, in a row
    uptime,    \* time since the start
    silent,    \* history: time since the loop hung
    back       \* history: how far the wall clock was stepped back

beat == <<due, failed>>
docker == <<check, seen, slow, health, streak>>
vars == <<trouble, hung, exists, age, beat, docker, uptime, silent, back>>

Troubles == {"none", "beats", "checks", "clock", "stepped"}
Capped(t) == IF t > MaxTime THEN MaxTime ELSE t

----------------------------------------------------------------------------
(* Mutant: the loop sleeps first and beats after. *)
FirstBeatAsleep == BeatEvery

(* "Beat now, then every" so often. *)
FirstBeat == 0

Init ==
    /\ trouble \in Troubles \ {"stepped"}
    /\ hung = FALSE
    /\ due = FirstBeat
    /\ exists = FALSE /\ age = 0
    /\ failed = 0
    /\ check = StartInterval /\ seen = "unread"
    /\ slow = 0
    /\ health = "starting"
    /\ streak = 0
    /\ uptime = 0 /\ silent = 0 /\ back = 0

----------------------------------------------------------------------------
(* beat_forever *)

Beat ==
    /\ ~hung
    /\ due <= 0
    /\ exists' = TRUE
    /\ age' = 0
    /\ failed' = 0
    /\ due' = BeatEvery
    /\ UNCHANGED <<trouble, hung, docker, uptime, silent, back>>

(* Mutant: the OSError is not caught and ends the task. *)
AfterFailureNone == MaxTime

AfterFailure == BeatEvery

(* touch raises an OSError: /tmp is full. It is logged. *)
BeatFails ==
    /\ ~hung
    /\ due <= 0
    /\ trouble = "beats" /\ failed < MaxFailed
    /\ failed' = failed + 1
    /\ due' = AfterFailure
    /\ UNCHANGED <<trouble, hung, exists, age, docker, uptime, silent, back>>

Hang ==
    /\ ~hung
    /\ hung' = TRUE
    /\ UNCHANGED <<trouble, exists, age, beat, docker, uptime, silent, back>>

----------------------------------------------------------------------------
(* The check, and what Docker makes of it. *)

(* Mutant: the file being there is enough. *)
IsFreshAny == exists

IsFresh == exists /\ age <= MaxAge

(* The check has started Python, reads the file's time and then exits.     *)
ReadFile ==
    /\ check <= 0 /\ seen = "unread"
    /\ seen' = IF IsFresh THEN "fresh" ELSE IF exists THEN "stale" ELSE "missing"
    /\ UNCHANGED <<trouble, hung, exists, age, beat, check, slow, health, streak,
                   uptime, silent, back>>

InStartPeriod(time) == health = "starting" /\ time < StartPeriod

(* From the end of one check to the beginning of the next. *)
Wait == IF InStartPeriod(uptime) THEN StartInterval ELSE Interval

(* The first check that passes ends the start period. *)
Passes ==
    /\ health' = "healthy"
    /\ streak' = 0
    /\ check' = Interval

(* A failure does not count if the check began in the start period. *)
Fails ==
    /\ streak' = IF InStartPeriod(uptime + check) \/ streak = Retries THEN streak ELSE streak + 1
    /\ health' = IF streak' = Retries THEN "unhealthy" ELSE health
    /\ check' = Wait

Check ==
    /\ seen # "unread"
    /\ IF seen = "fresh" THEN Passes ELSE Fails
    /\ seen' = "unread" /\ slow' = 0
    /\ UNCHANGED <<trouble, hung, exists, age, beat, uptime, silent, back>>

(* A check that has not exited in time is killed, which is a failure. *)
SlowCheck ==
    /\ check = -CheckTimeout
    /\ trouble = "checks" /\ slow < MaxSlow
    /\ Fails
    /\ seen' = "unread" /\ slow' = slow + 1
    /\ UNCHANGED <<trouble, hung, exists, age, beat, uptime, silent, back>>

----------------------------------------------------------------------------
(* The clocks. *)

(* No check goes on past its timeout. *)
Tick ==
    /\ check > -CheckTimeout
    /\ ~hung => due > -Lag
    /\ due' = IF ~hung THEN due - 1 ELSE due
    /\ age' = Capped(age + 1)
    /\ check' = check - 1
    /\ uptime' = Capped(uptime + 1)
    /\ silent' = IF hung THEN Capped(silent + 1) ELSE 0
    /\ UNCHANGED <<trouble, hung, exists, failed, seen, slow, health, streak, back>>

(* The wall clock is set, once. *)
StepClock(step) ==
    /\ trouble = "clock"
    /\ age' = Capped(age + step)
    /\ back' = IF step < 0 THEN -step ELSE 0
    /\ trouble' = "stepped"
    /\ UNCHANGED <<hung, exists, beat, docker, uptime, silent>>

----------------------------------------------------------------------------
Next ==
    \/ Beat
    \/ BeatFails
    \/ Hang
    \/ ReadFile
    \/ Check
    \/ SlowCheck
    \/ Tick
    \/ \E step \in ClockSteps : StepClock(step)

Spec == Init /\ [][Next]_vars

----------------------------------------------------------------------------
(* The state is of its type; a check has read the file only once it began. *)
TypeOK ==
    /\ trouble \in Troubles
    /\ hung \in BOOLEAN /\ exists \in BOOLEAN
    /\ due \in -Lag .. BeatEvery
    /\ age \in Int /\ age <= MaxTime
    /\ failed \in 0 .. MaxFailed /\ slow \in 0 .. MaxSlow
    /\ check \in -CheckTimeout .. Interval
    /\ seen \in {"unread", "fresh", "stale", "missing"}
    /\ seen # "unread" => check <= 0
    /\ health \in {"starting", "healthy", "unhealthy"}
    /\ streak \in 0 .. Retries
    /\ streak = Retries <=> health = "unhealthy"
    /\ uptime \in 0 .. MaxTime /\ silent \in 0 .. MaxTime /\ back \in Nat

(* The time that so many checks in a row take at most.                     *)
Checking(n) == n * (Interval + CheckTimeout)

(* Dockerfile: "a hung process is unhealthy within about 3.5 minutes (2    *)
(* for the file to age, then 3 failed checks)". About, because a check     *)
(* takes time of its own, each up to its timeout, and the one before those *)
(* that fail may have read the file just in time. A hang is seen that much *)
(* later if the wall clock is stepped back, and in the same time when it   *)
(* comes before the first beat, between a failed one and the next, during  *)
(* a check or in the start period.                                         *)
HungIsSeen ==
    silent > MaxAge + CheckTimeout + Checking(Retries) + back => health = "unhealthy"

(* The inductive invariant of HungIsSeen: the file is as old as the        *)
(* silence, but for a step back, and until it is unhealthy the container   *)
(* has failed a check for each interval since one last found it fresh.     *)
IInv ==
    /\ TypeOK
    /\ ~hung => silent = 0
    /\ silent <= uptime
    /\ trouble # "stepped" => back = 0
    /\ age >= silent - back
    /\ seen = "fresh" => silent <= MaxAge + back - check
    /\ health # "unhealthy" =>
        silent <= MaxAge + CheckTimeout + back + Checking(streak) + (Interval - check)

(* "Four missed beats: a slow loop is not a dead one", "one slow check     *)
(* under load does not flip it": after the first beat, no trouble of one   *)
(* kind alone turns a runner whose loop goes on unhealthy, nor does a step *)
(* of the clock, which the next beat makes up for (a check that looked for *)
(* the file before the first beat may still do so after it); and without   *)
(* trouble it "turns healthy a few seconds after the first beat"           *)
(* (docs/deploy.md).                                                       *)
RunningStaysHealthy ==
    [][/\ ~hung /\ exists /\ seen # "missing" /\ health' = "unhealthy" => health = "unhealthy"
       /\ ~hung' /\ trouble' = "none" /\ uptime' > Lag + StartInterval + 2 * CheckTimeout
          => health' # "starting"]_vars

(* What RunningStaysHealthy rests on, for each kind of trouble. Overdue is *)
(* the longest the last beat can be ago, Spacing how far apart so many     *)
(* checks begin at least, and Failing how long the checks of the streak    *)
(* have been failing at least.                                             *)
Overdue == failed * (BeatEvery + Lag) + BeatEvery - due
Spacing(n) == n * Interval
Failing == Spacing(streak) - check

(* A check that began before the first beat does not count.                *)
BeforeFirstBeat ==
    trouble # "beats" =>
        /\ ~exists => health = "starting" /\ streak = 0 /\ uptime <= -due /\ check <= StartInterval
        /\ seen = "missing" => health = "starting" /\ streak = 0 /\ uptime + check <= Lag

(* Nothing makes the file old; only a slow check fails.                    *)
OnlySlowChecks ==
    exists /\ trouble \in {"none", "checks", "clock"} =>
        /\ age <= Overdue /\ streak <= slow /\ seen # "stale"
        /\ trouble = "none" /\ health = "starting" =>
            uptime + check <= Lag + StartInterval + CheckTimeout

(* Until a beat makes up for the step, checks may fail.                    *)
OnlyAStep ==
    exists /\ trouble = "stepped" =>
        /\ age <= Overdue \/ streak = 0 \/ Failing <= Overdue
        /\ seen = "stale" => streak < Retries - 1

(* While the file is too old checks fail; after a beat the next passes,    *)
(* but for one that has read the file before.                              *)
OnlyFailedBeats ==
    exists /\ trouble = "beats" =>
        /\ age <= Overdue
        /\ streak = 0 \/ age + check + CheckTimeout <= MaxAge \/ MaxAge + Failing < age
        /\ seen \in {"stale", "missing"} => age <= -check \/ MaxAge < age
        /\ seen = "stale" => streak < Retries - 1

Steady ==
    /\ trouble # "beats" => failed = 0
    /\ trouble # "checks" => slow = 0
    /\ seen \in {"fresh", "stale"} => exists
    /\ ~hung => BeforeFirstBeat /\ OnlySlowChecks /\ OnlyAStep /\ OnlyFailedBeats

=============================================================================
