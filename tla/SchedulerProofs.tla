-------------------------- MODULE SchedulerProofs --------------------------
(***************************************************************************)
(* The safety of the scheduler for any set of series, any intervals and    *)
(* hours, any lag and any steps of the wall clock: IInv is inductive, and  *)
(* every safety property that TLC checks on MCScheduler follows from it.   *)
(***************************************************************************)
EXTENDS Scheduler, TLAPS

USE DEF Never

----------------------------------------------------------------------------
(* Slots: the arithmetic of slot_start.                                    *)

LEMMA Remainder ==
    ASSUME NEW t \in Nat, NEW every \in Nat \ {0}
    PROVE  /\ t % every \in Nat
           /\ t % every < every
           /\ t \div every \in Nat
           /\ t = every * (t \div every) + (t % every)
    OBVIOUS

LEMMA Multiple ==
    ASSUME NEW k \in Nat, NEW every \in Nat \ {0}
    PROVE  (every * k) % every = 0
    OBVIOUS

(* A moment lies in its slot, and slots start at multiples of the interval. *)
LEMMA SlotStartBounds ==
    ASSUME NEW t \in Nat, NEW every \in Nat \ {0}
    PROVE  /\ SlotStart(t, every) \in Nat
           /\ SlotStart(t, every) <= t
           /\ t < SlotStart(t, every) + every
           /\ SlotStart(t, every) % every = 0
           /\ (SlotStart(t, every) + every) % every = 0
<1> DEFINE q == t \div every
<1>1. /\ q \in Nat
      /\ t % every \in Nat
      /\ t % every < every
      /\ t = every * q + (t % every)
  BY Remainder
<1> HIDE DEF q
<1>2. SlotStart(t, every) = every * q
  BY <1>1 DEF SlotStart
<1>3. every * q \in Nat /\ every * (q + 1) = every * q + every
  BY <1>1
<1>4. (every * q) % every = 0 /\ (every * (q + 1)) % every = 0
  BY <1>1, Multiple
<1> QED BY <1>1, <1>2, <1>3, <1>4

(* Two multiples of the interval less than an interval apart are equal. *)
LEMMA Close ==
    ASSUME NEW every \in Nat \ {0}, NEW k \in Int, NEW q \in Int,
           every * k - every * q < every, every * q - every * k < every
    PROVE  q = k
<1>1. CASE q >= k + 1
  <2>1. every * q >= every * (k + 1) BY <1>1
  <2> QED BY <2>1
<1>2. CASE k >= q + 1
  <2>1. every * k >= every * (q + 1) BY <1>2
  <2> QED BY <2>1
<1> QED BY <1>1, <1>2

(* A moment falls in one slot only. *)
LEMMA SlotStartUnique ==
    ASSUME NEW t \in Nat, NEW every \in Nat \ {0}, NEW slot \in Nat,
           slot % every = 0, slot <= t, t < slot + every
    PROVE  SlotStart(t, every) = slot
<1> DEFINE q == t \div every
           k == slot \div every
<1>1. /\ q \in Nat
      /\ t % every \in Nat
      /\ t % every < every
      /\ t = every * q + (t % every)
  BY Remainder
<1>2. k \in Nat /\ slot = every * k
  BY Remainder
<1> HIDE DEF q, k
<1>3. SlotStart(t, every) = every * q
  BY <1>1 DEF SlotStart
<1>4. every * q \in Int /\ every * k \in Int
  BY <1>1, <1>2
<1>5. every * k - every * q < every /\ every * q - every * k < every
  BY <1>1, <1>2, <1>4
<1>6. q = k
  BY <1>1, <1>2, <1>5, Close
<1> QED BY <1>2, <1>3, <1>6

----------------------------------------------------------------------------
(* IInv holds initially and every step preserves it.                       *)

LEMMA InitIInv == Init => IInv
<1> SUFFICES ASSUME Init PROVE IInv
  OBVIOUS
<1> USE EveryAssumption, BoundsAssumption DEF Init
<1>1. TypeOK
  BY DEF TypeOK, Locations
<1>2. ASSUME NEW s \in Series PROVE Timing(s)
  <2>1. nextSlot[s] % Every[s] = 0
    BY Multiple
  <2> QED BY <2>1 DEF Timing
<1>3. ASSUME NEW s \in Series PROVE Order(s)
  BY DEF Order
<1>4. ASSUME NEW s \in Series PROVE Account(s)
  BY DEF Account
<1> QED BY <1>1, <1>2, <1>3, <1>4 DEF IInv

(* A step of the loop of s leaves the other series as they are. *)
LEMMA OtherSeries ==
    ASSUME IInv, NEW s \in Series, Loop(s), NEW other \in Series, other # s
    PROVE  (Timing(other) /\ Order(other) /\ Account(other))'
<1>1. /\ UNCHANGED <<wall, mono, steps>>
      /\ UNCHANGED <<pc[other], at[other], nextSlot[other], ran[other]>>
      /\ UNCHANGED <<steady[other], torn[other]>>
  BY DEF Loop, BeginRun, SkipSlot, EndRun, FailRun, ComputeNext, Sleep, Goto,
         clocks, IInv, TypeOK
<1>2. Timing(other) /\ Order(other) /\ Account(other)
  BY DEF IInv
<1> QED BY <1>1, <1>2 DEF Timing, Order, Account

(* Why the due slot is the slot the loop waited for. *)
LEMMA DueIsNextSlot ==
    ASSUME IInv, NEW s \in Series, Due(s), steady[s]
    PROVE  /\ nextSlot[s] <= wall
           /\ wall <= nextSlot[s] + 2 * Lag
           /\ SlotStart(wall, Every[s]) = nextSlot[s]
<1> USE EveryAssumption, BoundsAssumption, LagAssumption
<1>1. /\ wall \in Nat /\ mono \in Nat /\ at[s] \in Nat /\ nextSlot[s] \in Nat
      /\ Every[s] \in Nat \ {0} /\ Lag \in Nat
  BY DEF IInv, TypeOK
<1>2. /\ nextSlot[s] % Every[s] = 0
      /\ at[s] <= mono /\ mono <= at[s] + Lag
      /\ nextSlot[s] <= wall + (at[s] - mono)
      /\ wall + (at[s] - mono) <= nextSlot[s] + Lag
  BY DEF IInv, Timing, Due
<1>3. nextSlot[s] <= wall /\ wall <= nextSlot[s] + 2 * Lag
  BY <1>1, <1>2
<1>4. wall < nextSlot[s] + Every[s]
  BY <1>1, <1>3
<1> QED BY <1>1, <1>2, <1>3, <1>4, SlotStartUnique

LEMMA StepIInv == IInv /\ [Next]_vars => IInv'
<1> SUFFICES ASSUME IInv, [Next]_vars PROVE IInv'
  OBVIOUS
<1> USE EveryAssumption, BoundsAssumption
<1>1. ASSUME NEW s \in Series, BeginRun(s) PROVE IInv'
  <2> DEFINE slot == SlotStart(wall, Every[s])
  <2>1. slot \in Nat /\ slot <= wall
    <3>1. wall \in Nat /\ Every[s] \in Nat \ {0}
      BY DEF IInv, TypeOK
    <3> QED BY <3>1, SlotStartBounds
  <2> HIDE DEF slot
  <2>2. /\ UNCHANGED <<wall, mono, steps, nextSlot, steady, torn>>
        /\ pc' = [pc EXCEPT ![s] = "running"]
        /\ at' = [at EXCEPT ![s] = mono]
        /\ ran' = [ran EXCEPT ![s] = slot]
    BY <1>1 DEF BeginRun, Goto, clocks, slot
  <2>3. TypeOK'
    BY <2>1, <2>2 DEF IInv, TypeOK, Locations
  <2>4. Timing(s)' /\ Order(s)'
    BY <2>1, <2>2 DEF IInv, TypeOK, Timing, Order
  <2>5. Account(s)'
    <3>1. /\ wall \in Nat /\ mono \in Nat /\ nextSlot[s] \in Nat
          /\ Lag \in Nat /\ MaxRun \in Nat
      BY DEF IInv, TypeOK
    <3>2. /\ pc'[s] = "running" /\ at'[s] = mono /\ ran'[s] = slot
          /\ UNCHANGED <<wall, mono, steps, nextSlot>>
      BY <2>2 DEF IInv, TypeOK
    <3>3. ASSUME steps = 0, nextSlot[s] > 0
          PROVE  nextSlot[s] <= wall /\ wall <= nextSlot[s] + 2 * Lag /\ slot = nextSlot[s]
      <4>1. Due(s) /\ steady[s]
        BY <1>1, <3>3 DEF BeginRun, IInv, Order
      <4> QED BY <4>1, DueIsNextSlot DEF slot
    <3> QED BY <3>1, <3>2, <3>3 DEF Account
  <2> QED BY <1>1, <2>3, <2>4, <2>5, OtherSeries DEF IInv, Loop
<1>2. ASSUME NEW s \in Series, SkipSlot(s) \/ EndRun(s) \/ FailRun(s) PROVE IInv'
  <2>1. /\ UNCHANGED <<wall, mono, steps, nextSlot, ran, steady, torn>>
        /\ pc' = [pc EXCEPT ![s] = "ended"]
        /\ at' = [at EXCEPT ![s] = mono]
    BY <1>2 DEF SkipSlot, EndRun, FailRun, Goto, clocks
  <2>2. TypeOK'
    BY <2>1 DEF IInv, TypeOK, Locations
  <2>3. Timing(s)' /\ Order(s)'
    BY <2>1 DEF IInv, TypeOK, Timing, Order
  <2>4. Account(s)'
    <3>1. /\ wall \in Nat /\ mono \in Nat /\ nextSlot[s] \in Nat /\ at[s] \in Nat
          /\ Lag \in Nat /\ MaxRun \in Nat
      BY DEF IInv, TypeOK
    <3>2. /\ pc'[s] = "ended" /\ at'[s] = mono
          /\ UNCHANGED <<wall, mono, steps, nextSlot, ran>>
      BY <2>1 DEF IInv, TypeOK
    <3>3. ASSUME steps = 0, nextSlot[s] > 0
          PROVE  /\ nextSlot[s] <= wall
                 /\ wall <= nextSlot[s] + 2 * Lag
                             + (IF ran[s] = nextSlot[s] THEN MaxRun ELSE 0)
      <4>1. CASE pc[s] = "running"
        <5>1. /\ ran[s] = nextSlot[s]
              /\ at[s] <= mono /\ mono <= at[s] + MaxRun
              /\ nextSlot[s] <= wall - (mono - at[s])
              /\ wall - (mono - at[s]) <= nextSlot[s] + 2 * Lag
          BY <3>1, <3>3, <4>1 DEF IInv, Account, Timing
        <5> QED BY <3>1, <5>1
      <4>2. CASE pc[s] # "running"
        <5>1. Due(s) /\ steady[s]
          BY <1>2, <3>3, <4>2 DEF SkipSlot, EndRun, FailRun, IInv, Order
        <5>2. nextSlot[s] <= wall /\ wall <= nextSlot[s] + 2 * Lag
          BY <5>1, DueIsNextSlot
        <5> QED BY <3>1, <5>2
      <4> QED BY <4>1, <4>2
    <3> QED BY <3>1, <3>2, <3>3 DEF Account
  <2> QED BY <1>2, <2>2, <2>3, <2>4, OtherSeries DEF IInv, Loop
<1>3. ASSUME NEW s \in Series, ComputeNext(s) PROVE IInv'
  <2> DEFINE slot == SlotStart(wall, Every[s])
  <2>1. /\ slot \in Nat /\ slot <= wall /\ wall < slot + Every[s]
        /\ (slot + Every[s]) % Every[s] = 0
    <3>1. wall \in Nat /\ Every[s] \in Nat \ {0}
      BY DEF IInv, TypeOK
    <3> QED BY <3>1, SlotStartBounds
  <2> HIDE DEF slot
  <2>2. /\ UNCHANGED <<wall, mono, steps, ran, torn>>
        /\ pc' = [pc EXCEPT ![s] = "armed"]
        /\ at' = [at EXCEPT ![s] = mono]
        /\ nextSlot' = [nextSlot EXCEPT ![s] = slot + Every[s]]
        /\ steady' = [steady EXCEPT ![s] = TRUE]
    BY <1>3 DEF ComputeNext, SlotAfter, Goto, clocks, slot
  <2>3. TypeOK'
    BY <2>1, <2>2 DEF IInv, TypeOK, Locations
  <2>4. Timing(s)'
    BY <2>1, <2>2 DEF IInv, TypeOK, Timing
  <2>5. Order(s)'
    BY <2>1, <2>2 DEF IInv, TypeOK, Order
  <2>6. Account(s)'
    BY <2>2 DEF IInv, TypeOK, Account
  <2> QED BY <1>3, <2>3, <2>4, <2>5, <2>6, OtherSeries DEF IInv, Loop
<1>4. ASSUME NEW s \in Series, Sleep(s) PROVE IInv'
  <2>1. /\ UNCHANGED <<wall, mono, steps, nextSlot, ran, steady>>
        /\ pc[s] = "armed"
        /\ pc' = [pc EXCEPT ![s] = "waiting"]
        /\ at' = [at EXCEPT ![s] = mono + Delay(s)]
        /\ torn' = [torn EXCEPT ![s] = ~steady[s]]
    BY <1>4 DEF Sleep, Goto, clocks
  <2>2. TypeOK'
    BY <2>1 DEF IInv, TypeOK, Locations, Delay
  <2>3. Timing(s)'
    <3>1. /\ wall \in Nat /\ mono \in Nat /\ at[s] \in Nat /\ nextSlot[s] \in Nat
          /\ Every[s] \in Nat \ {0} /\ Lag \in Nat /\ steady[s] \in BOOLEAN
      BY DEF IInv, TypeOK
    <3>2. /\ pc'[s] = "waiting"
          /\ at'[s] = mono + Delay(s)
          /\ torn'[s] = ~steady[s]
          /\ nextSlot'[s] = nextSlot[s] /\ steady'[s] = steady[s]
          /\ wall' = wall /\ mono' = mono
      BY <2>1 DEF IInv, TypeOK
    <3>3. /\ nextSlot[s] % Every[s] = 0
          /\ at[s] <= mono /\ mono <= at[s] + Lag
          /\ steady[s] => /\ nextSlot[s] - Every[s] <= wall - (mono - at[s])
                          /\ wall - (mono - at[s]) < nextSlot[s]
      BY <2>1 DEF IInv, Timing
    <3>4. mono <= at'[s]
      BY <3>1, <3>2 DEF Delay
    <3>5. ASSUME steady[s]
          PROVE  /\ nextSlot[s] <= wall + (at'[s] - mono)
                 /\ wall + (at'[s] - mono) <= nextSlot[s] + Lag
                 /\ at'[s] <= mono + Every[s]
      <4>1. CASE nextSlot[s] > wall
        BY <3>1, <3>2, <3>3, <3>5, <4>1 DEF Delay
      <4>2. CASE ~(nextSlot[s] > wall)
        BY <3>1, <3>2, <3>3, <3>5, <4>2 DEF Delay
      <4> QED BY <4>1, <4>2
    <3>6. at'[s] \in Nat
      BY <3>1, <3>2 DEF Delay
    <3>7. mono <= at'[s] + Lag
      BY <3>1, <3>4, <3>6
    <3>8. ~torn'[s] => steady[s]
      BY <3>2, Zenon
    <3> QED BY <3>2, <3>3, <3>5, <3>7, <3>8, Zenon DEF Timing
  <2>4. Order(s)'
    BY <2>1 DEF IInv, TypeOK, Order
  <2>5. Account(s)'
    BY <2>1 DEF IInv, TypeOK, Account
  <2> QED BY <1>4, <2>2, <2>3, <2>4, <2>5, OtherSeries DEF IInv, Loop
<1>5. CASE Tick
  <2>1. TypeOK'
    BY <1>5 DEF Tick, IInv, TypeOK
  <2>2. ASSUME NEW s \in Series PROVE Timing(s)' /\ Order(s)' /\ Account(s)'
    <3>1. /\ wall \in Nat /\ mono \in Nat /\ at[s] \in Nat /\ nextSlot[s] \in Nat
          /\ Every[s] \in Nat \ {0} /\ Lag \in Nat /\ MaxRun \in Nat
          /\ ran[s] \in Nat \cup {Never}
      BY DEF IInv, TypeOK
    <3>2. /\ wall' = wall + 1 /\ mono' = mono + 1
          /\ UNCHANGED <<steps, pc, at, nextSlot, ran, steady, torn>>
          /\ mono < at[s] + (IF pc[s] = "running" THEN MaxRun ELSE Lag)
      BY <1>5 DEF Tick, Deadline
    <3>3. Timing(s)' /\ Order(s)'
      BY <3>1, <3>2 DEF IInv, Timing, Order
    <3>4. Account(s)'
      BY <3>1, <3>2 DEF IInv, Account
    <3> QED BY <3>3, <3>4
  <2> QED BY <2>1, <2>2 DEF IInv
<1>6. CASE StepClock
  <2>1. TypeOK'
    BY <1>6 DEF StepClock, IInv, TypeOK
  <2>2. ASSUME NEW s \in Series PROVE Timing(s)' /\ Order(s)' /\ Account(s)'
    <3>1. /\ UNCHANGED <<mono, pc, at, nextSlot, ran, torn>>
          /\ steps' = steps + 1 /\ steps \in Nat
          /\ ~steady'[s]
      BY <1>6 DEF StepClock, IInv, TypeOK
    <3> QED BY <3>1 DEF IInv, Timing, Order, Account
  <2> QED BY <2>1, <2>2 DEF IInv
<1>7. CASE UNCHANGED vars
  BY <1>7 DEF vars, IInv, TypeOK, Timing, Order, Account
<1> QED BY <1>1, <1>2, <1>3, <1>4, <1>5, <1>6, <1>7 DEF Next, Loop

(* The strengthened invariant of run_forever holds in every reachable      *)
(* state.                                                                  *)
THEOREM Invariance == Spec => []IInv
<1>1. Init => IInv
  BY InitIInv
<1>2. IInv /\ [Next]_vars => IInv'
  BY StepIInv
<1> QED BY <1>1, <1>2, PTL DEF Spec

----------------------------------------------------------------------------
(* Type correctness of the loop of scheduler.py. *)
THEOREM Typing == Spec => []TypeOK
<1>1. IInv => TypeOK
  BY DEF IInv
<1> QED BY <1>1, Invariance, PTL

(* "Runs are aligned to the clock": a series whose wait was not disturbed  *)
(* comes due in the slot it waited for, for any interval and lag.          *)
THEOREM Alignment == Spec => []DueInItsSlot
<1>1. IInv => DueInItsSlot
  BY DueIsNextSlot DEF DueInItsSlot
<1> QED BY <1>1, Invariance, PTL

(* However the clock is stepped during it, a sleep computed from two       *)
(* readings of the same clock lasts one interval at most.                  *)
THEOREM SleepBound == Spec => []BoundedSleep
<1>1. IInv => BoundedSleep
  BY DEF IInv, Timing, BoundedSleep
<1> QED BY <1>1, Invariance, PTL

(* Without clock steps, a series passes over no slot but those that start  *)
(* during its run.                                                         *)
THEOREM NothingMissed == Spec => NoSlotMissed
<1> DEFINE Missed(s) ==
        steps = 0 /\ nextSlot[s] > 0 /\ nextSlot'[s] # nextSlot[s] =>
            /\ nextSlot[s] < nextSlot'[s]
            /\ nextSlot'[s] <= nextSlot[s] + Every[s]
                                + (IF ran[s] = nextSlot[s] THEN MaxRun + 3 * Lag ELSE 0)
<1>1. ASSUME IInv, [Next]_vars, NEW s \in Series,
             steps = 0, nextSlot[s] > 0, nextSlot'[s] # nextSlot[s]
      PROVE  Missed(s)
  <2> DEFINE slot == SlotStart(wall, Every[s])
  <2>1. ComputeNext(s)
    BY <1>1 DEF Next, Loop, BeginRun, SkipSlot, EndRun, FailRun, ComputeNext, Sleep,
                Tick, StepClock, vars, IInv, TypeOK
  <2>2. nextSlot'[s] = slot + Every[s]
    BY <1>1, <2>1 DEF ComputeNext, SlotAfter, IInv, TypeOK
  <2>3. /\ wall \in Nat /\ mono \in Nat /\ at[s] \in Nat /\ nextSlot[s] \in Nat
        /\ Every[s] \in Nat \ {0} /\ Lag \in Nat /\ MaxRun \in Nat /\ 3 * Lag < Every[s]
    BY <1>1, EveryAssumption, BoundsAssumption, LagAssumption DEF IInv, TypeOK
  <2>4. slot \in Nat /\ slot <= wall /\ wall < slot + Every[s]
    BY <2>3, SlotStartBounds
  <2>5. /\ nextSlot[s] % Every[s] = 0
        /\ at[s] <= mono /\ mono <= at[s] + Lag
        /\ nextSlot[s] <= wall - (mono - at[s])
        /\ wall - (mono - at[s])
               <= nextSlot[s] + 2 * Lag + (IF ran[s] = nextSlot[s] THEN MaxRun ELSE 0)
    BY <1>1, <2>1 DEF ComputeNext, IInv, Timing, Account
  <2>6. CASE ran[s] = nextSlot[s]
    <3> HIDE DEF slot
    <3> QED BY <2>2, <2>3, <2>4, <2>5, <2>6
  <2>7. CASE ran[s] # nextSlot[s]
    <3>1. nextSlot[s] <= wall /\ wall < nextSlot[s] + Every[s]
      BY <2>3, <2>5, <2>7
    <3>2. slot = nextSlot[s]
      BY <2>3, <2>5, <3>1, SlotStartUnique
    <3> HIDE DEF slot
    <3> QED BY <2>2, <2>3, <2>7, <3>2
  <2> QED BY <2>6, <2>7
<1>2. IInv /\ [Next]_vars => [\A s \in Series : Missed(s)]_vars
  BY <1>1
<1> QED BY <1>2, Invariance, PTL DEF Spec, NoSlotMissed

(* Without clock steps, every run is for a later slot than the one before. *)
THEOREM EachSlotOnce == Spec => NoSlotRunTwice
<1> DEFINE Once(s) ==
        steps = 0 /\ pc[s] = "waiting" /\ pc'[s] = "running" => ran[s] < ran'[s]
<1>1. ASSUME IInv, [Next]_vars, NEW s \in Series,
             steps = 0, pc[s] = "waiting", pc'[s] = "running"
      PROVE  ran[s] < ran'[s]
  <2>1. BeginRun(s)
    BY <1>1 DEF Next, Loop, BeginRun, SkipSlot, EndRun, FailRun, ComputeNext, Sleep,
                Tick, StepClock, Goto, vars, IInv, TypeOK
  <2>2. Due(s) /\ ran'[s] = SlotStart(wall, Every[s])
    BY <1>1, <2>1 DEF BeginRun, IInv, TypeOK
  <2>3. SlotStart(wall, Every[s]) \in Nat
    <3>1. wall \in Nat /\ Every[s] \in Nat \ {0}
      BY <1>1, EveryAssumption, BoundsAssumption DEF IInv, TypeOK
    <3> QED BY <3>1, SlotStartBounds
  <2>4. ran[s] = Never \/ ran[s] < nextSlot[s]
    BY <1>1 DEF IInv, Order
  <2>5. CASE ran[s] = Never
    BY <2>2, <2>3, <2>5
  <2>6. CASE ran[s] # Never
    <3>1. nextSlot[s] \in Nat /\ ran[s] \in Nat
      BY <1>1, <2>6 DEF IInv, TypeOK
    <3>2. steady[s]
      BY <1>1, <2>4, <2>6, <3>1 DEF IInv, Order
    <3>3. SlotStart(wall, Every[s]) = nextSlot[s]
      BY <1>1, <2>2, <3>2, DueIsNextSlot
    <3> QED BY <2>2, <2>4, <2>6, <3>3
  <2> QED BY <2>5, <2>6
<1>2. IInv /\ [Next]_vars => [\A s \in Series : Once(s)]_vars
  BY <1>1
<1> QED BY <1>2, Invariance, PTL DEF Spec, NoSlotRunTwice

============================================================================
