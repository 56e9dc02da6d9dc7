----------------------------- MODULE Scheduler -----------------------------
(***************************************************************************)
(* The loop every series runs in: runner/scheduler.py, run_forever and the *)
(* part of run_slot that decides whether a slot runs. What happens inside  *)
(* a run is the subject of module Collect; here it is an interval of at    *)
(* most MaxRun ticks that ends normally or with an exception.              *)
(*                                                                         *)
(* The loop reads two clocks. now() is the wall clock, which an operator   *)
(* or NTP can step in either direction; asyncio.sleep measures its delay   *)
(* on the event loop's monotonic clock. A sleep computed from one and      *)
(* served by the other is where the schedule can go wrong, and so is the   *)
(* time that passes between the two readings of now() after a run.         *)
(***************************************************************************)
EXTENDS Integers

CONSTANTS
    Series,          \* the configured series
    Every,           \* Every[s]: the interval of s, in ticks
    RunsAt(_, _),    \* RunsAt(s, t): s is inside its hours at wall time t
    MaxRun,          \* the longest a run takes
    Lag,             \* the longest the event loop leaves a due task waiting
    ClockSteps,      \* by how much the wall clock may be stepped
    MaxSteps,        \* bound: how many times it is stepped
    MaxTime          \* bound: how far both clocks go

ASSUME EveryAssumption == Every \in [Series -> Nat \ {0}]
ASSUME RunsAtAssumption == \A s \in Series, t \in 0 .. MaxTime : RunsAt(s, t) \in BOOLEAN
ASSUME BoundsAssumption ==
    /\ MaxRun \in Nat
    /\ Lag \in Nat
    /\ ClockSteps \subseteq Int
    /\ MaxSteps \in Nat
    /\ MaxTime \in Nat
\* Intervals are minutes and a lag is at most seconds.
ASSUME LagAssumption == \A s \in Series : 3 * Lag < Every[s]

VARIABLES
    wall,        \* what now() reads, counted from _EPOCH
    mono,        \* what asyncio's loop.time() reads
    steps,       \* how many times the wall clock was stepped
    pc,          \* pc[s]: where the loop of s is
    at,          \* at[s]: when, on mono, s entered pc[s]; while it waits,
                 \*        when its sleep is over
    nextSlot,    \* nextSlot[s]: the local next_slot of run_forever
    ran,         \* history: the slot the last run of s was started for
    steady,      \* history: the wall clock was not stepped since next_slot
                 \*          was computed (FALSE before the first time)
    torn         \* history: it was stepped between the two readings of
                 \*          now() that the current sleep comes from

vars == <<wall, mono, steps, pc, at, nextSlot, ran, steady, torn>>
clocks == <<wall, mono, steps>>

Never == -1

----------------------------------------------------------------------------
(* Mutant: the slot that has just ended. *)
SlotStartBefore(moment, every) == moment - (moment % every) - every

(* The start of the slot a moment falls in. *)
SlotStart(moment, every) == moment - (moment % every)

(* Mutants: one interval later, two slots later, and the slot itself. *)
SlotAfterUnaligned(moment, every) == moment + every
SlotAfterNext(moment, every) == SlotStart(moment, every) + 2 * every
SlotAfterSame(moment, every) == SlotStart(moment, every)

(* The start of the one after it. *)
SlotAfter(moment, every) == SlotStart(moment, every) + every

(* Mutant: a whole interval of sleep, however long the run took. *)
DelayInterval(s) == Every[s]

(* How long the sleep is. A delay that is not positive yields to the loop. *)
Delay(s) == IF nextSlot[s] > wall THEN nextSlot[s] - wall ELSE 0

(* "waiting": in asyncio.sleep, or a new task not yet scheduled            *)
(* "running": inside collect and destination.send                         *)
(* "ended":   run_slot returned or raised; next_slot is not computed yet   *)
(* "armed":   next_slot is computed; the delay is not                      *)
Locations == {"waiting", "running", "ended", "armed"}

Goto(s, location, time) ==
    /\ pc' = [pc EXCEPT ![s] = location]
    /\ at' = [at EXCEPT ![s] = time]

Due(s) == pc[s] = "waiting" /\ mono >= at[s]

----------------------------------------------------------------------------
(* A series runs as soon as its task starts: a sleep that is over. *)
Init ==
    /\ wall \in 0 .. MaxTime
    /\ mono = 0
    /\ steps = 0
    /\ pc = [s \in Series |-> "waiting"]
    /\ at = [s \in Series |-> 0]
    /\ nextSlot = [s \in Series |-> 0]
    /\ ran = [s \in Series |-> Never]
    /\ steady = [s \in Series |-> FALSE]
    /\ torn = [s \in Series |-> FALSE]

(* run_slot, its slot inside the hours: the run starts. *)
BeginRun(s) ==
    /\ Due(s)
    /\ RunsAt(s, SlotStart(wall, Every[s]))
    /\ Goto(s, "running", mono)
    /\ ran' = [ran EXCEPT ![s] = SlotStart(wall, Every[s])]
    /\ UNCHANGED <<clocks, nextSlot, steady, torn>>

(* run_slot, its slot outside the hours: it returns at once. *)
SkipSlot(s) ==
    /\ Due(s)
    /\ ~RunsAt(s, SlotStart(wall, Every[s]))
    /\ Goto(s, "ended", mono)
    /\ UNCHANGED <<clocks, nextSlot, ran, steady, torn>>

(* run_slot returns. *)
EndRun(s) ==
    /\ pc[s] = "running"
    /\ Goto(s, "ended", mono)
    /\ UNCHANGED <<clocks, nextSlot, ran, steady, torn>>

(* Mutant: the loop has no "except". *)
FailRunUncaught(s) ==
    /\ pc[s] = "running"
    /\ Goto(s, "dead", mono)
    /\ UNCHANGED <<clocks, nextSlot, ran, steady, torn>>

(* run_slot raises: the error is logged and the loop goes on. *)
FailRun(s) ==
    /\ pc[s] = "running"
    /\ Goto(s, "ended", mono)
    /\ UNCHANGED <<clocks, nextSlot, ran, steady, torn>>

(* The first reading of now(): next_slot. *)
ComputeNext(s) ==
    /\ pc[s] = "ended"
    /\ nextSlot' = [nextSlot EXCEPT ![s] = SlotAfter(wall, Every[s])]
    /\ steady' = [steady EXCEPT ![s] = TRUE]
    /\ Goto(s, "armed", mono)
    /\ UNCHANGED <<clocks, ran, torn>>

(* The second reading of now(): the delay, served on the monotonic clock. *)
Sleep(s) ==
    /\ pc[s] = "armed"
    /\ Goto(s, "waiting", mono + Delay(s))
    /\ torn' = [torn EXCEPT ![s] = ~steady[s]]
    /\ UNCHANGED <<clocks, nextSlot, ran, steady>>

----------------------------------------------------------------------------
(* Time passes, unless some task would be left waiting beyond the lag or a *)
(* run beyond its length.                                                  *)
Deadline(s) == at[s] + (IF pc[s] = "running" THEN MaxRun ELSE Lag)

Tick ==
    /\ wall < MaxTime /\ mono < MaxTime
    /\ \A s \in Series : mono < Deadline(s)
    /\ wall' = wall + 1
    /\ mono' = mono + 1
    /\ UNCHANGED <<steps, pc, at, nextSlot, ran, steady, torn>>

(* The wall clock is set; the monotonic one is not affected. *)
StepClock ==
    /\ steps < MaxSteps
    /\ \E d \in ClockSteps :
        /\ wall + d \in 0 .. MaxTime
        /\ wall' = wall + d
    /\ steps' = steps + 1
    /\ steady' = [s \in Series |-> FALSE]
    /\ UNCHANGED <<mono, pc, at, nextSlot, ran, torn>>

Loop(s) ==
    \/ BeginRun(s)
    \/ SkipSlot(s)
    \/ EndRun(s)
    \/ FailRun(s)
    \/ ComputeNext(s)
    \/ Sleep(s)

Next ==
    \/ \E s \in Series : Loop(s)
    \/ Tick
    \/ StepClock

Spec == Init /\ [][Next]_vars

(* The event loop runs every task that can run, and time passes. *)
FairSpec == Spec /\ WF_vars(Tick) /\ \A s \in Series : WF_vars(Loop(s))

----------------------------------------------------------------------------
(* The state is of its type. *)
TypeOK ==
    /\ wall \in 0 .. MaxTime
    /\ mono \in 0 .. MaxTime
    /\ steps \in 0 .. MaxSteps
    /\ pc \in [Series -> Locations]
    /\ at \in [Series -> Nat]
    /\ nextSlot \in [Series -> Nat]
    /\ ran \in [Series -> Nat \cup {Never}]
    /\ steady \in [Series -> BOOLEAN]
    /\ torn \in [Series -> BOOLEAN]

(* "Runs are aligned to the clock" (scheduler.py), made precise: whatever   *)
(* the clock did before, if it was not stepped since next_slot was         *)
(* computed, a series comes due in exactly that slot, at most two lags     *)
(* after its start. No slot is lost or run early, and one step of the      *)
(* clock never disturbs more than one wait.                                *)
DueInItsSlot ==
    \A s \in Series : Due(s) /\ steady[s] =>
        /\ nextSlot[s] <= wall /\ wall <= nextSlot[s] + 2 * Lag
        /\ SlotStart(wall, Every[s]) = nextSlot[s]

(* A step of the wall clock while a series sleeps cannot stretch its       *)
(* sleep: one interval is the longest it ever waits, unless the clock was  *)
(* stepped between the two readings of now() (scheduler.py:77-78).         *)
BoundedSleep ==
    \A s \in Series : pc[s] = "waiting" /\ ~torn[s] => at[s] <= mono + Every[s]

(* A slot is never run twice by one process while the clock is not         *)
(* stepped: "a run that ends in the next slot counts as that slot's run".  *)
NoSlotRunTwice ==
    [][\A s \in Series :
        steps = 0 /\ pc[s] = "waiting" /\ pc'[s] = "running" => ran[s] < ran'[s]]_vars

(* While the clock is not stepped, a series waits for one slot after the   *)
(* other, so that each is run or found outside the hours. What it passes   *)
(* over are slots that started while it was in a run, and no more of them  *)
(* than that run can have lasted.                                          *)
NoSlotMissed ==
    [][\A s \in Series : steps = 0 /\ nextSlot[s] > 0 /\ nextSlot'[s] # nextSlot[s] =>
        /\ nextSlot[s] < nextSlot'[s]
        /\ nextSlot'[s] <= nextSlot[s] + Every[s]
                            + (IF ran[s] = nextSlot[s] THEN MaxRun + 3 * Lag ELSE 0)]_vars

(* What makes the safety properties inductive: where next_slot lies with    *)
(* respect to the wall clock, location by location. wall - (mono - at[s])  *)
(* is what the wall clock read when an armed series computed next_slot;    *)
(* wall + (at[s] - mono) what it will read when the sleep of a waiting one *)
(* is over.                                                                *)
Timing(s) ==
    /\ nextSlot[s] % Every[s] = 0
    /\ pc[s] # "waiting" => at[s] <= mono
    /\ pc[s] \in {"armed", "waiting"} => mono <= at[s] + Lag
    /\ pc[s] = "armed" /\ steady[s] =>
        /\ nextSlot[s] - Every[s] <= wall - (mono - at[s])
        /\ wall - (mono - at[s]) < nextSlot[s]
    /\ pc[s] = "waiting" /\ steady[s] =>
        /\ nextSlot[s] <= wall + (at[s] - mono)
        /\ wall + (at[s] - mono) <= nextSlot[s] + Lag
    /\ pc[s] = "waiting" /\ ~torn[s] => at[s] <= mono + Every[s]

(* The slots already run, while the clock has not been stepped. *)
Order(s) ==
    steps = 0 =>
        /\ nextSlot[s] > 0 => steady[s]
        /\ ran[s] <= wall
        /\ pc[s] \in {"armed", "waiting"} => ran[s] = Never \/ ran[s] < nextSlot[s]

(* How far behind its slot a run or its end can be, while the clock has    *)
(* not been stepped.                                                       *)
Account(s) ==
    /\ pc[s] = "running" => mono <= at[s] + MaxRun
    /\ pc[s] = "ended" => mono <= at[s] + Lag
    /\ steps = 0 /\ nextSlot[s] > 0 /\ pc[s] \in {"running", "ended"} =>
        LET since == wall - (mono - at[s])
        IN  /\ nextSlot[s] <= since
            /\ pc[s] = "running" => ran[s] = nextSlot[s] /\ since <= nextSlot[s] + 2 * Lag
            /\ since <= nextSlot[s] + 2 * Lag + (IF ran[s] = nextSlot[s] THEN MaxRun ELSE 0)

IInv == TypeOK /\ \A s \in Series : Timing(s) /\ Order(s) /\ Account(s)

(* An open slot runs if its series is waiting for it when it starts, and   *)
(* not for the one after because a run ended in it: the sleep ends, the    *)
(* hours are judged for that slot and no other, and the run begins, unless *)
(* the clock is stepped meanwhile. (The bound only keeps the slot inside   *)
(* the horizon.)                                                           *)
OpenSlotRuns ==
    \A s \in Series : \A slot \in {t \in 1 .. MaxTime - 2 * Lag : t % Every[s] = 0} :
        RunsAt(s, slot) =>
            (wall = slot /\ pc[s] = "waiting" /\ nextSlot[s] = slot)
            ~> (ran[s] = slot \/ ~steady[s])

(* "An error in one run is logged and the next slot runs anyway": no       *)
(* failing run, closed slot or delay that is not positive stops the loop   *)
(* of a series, or makes it spin without time passing.                     *)
KeepsRunning ==
    \A s \in Series : <>(mono = MaxTime \/ wall = MaxTime \/ nextSlot[s] >= SlotStart(MaxTime, Every[s]))

============================================================================
