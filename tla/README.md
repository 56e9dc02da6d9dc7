# A verified model of data-pipeline

TLA+ modules for the runner of data-pipeline (`src/src/data_pipeline`), the TLC
runs that check them on small instances, and TLAPS proofs of what matters most.
The program collects a handful of exchange rates: one asyncio task per series
wakes at every slot of the clock, asks the series' sources over HTTP until one
gives a valid reading, and posts it to another application, cuanto-cuesta.

Paths below are relative to the repository; `src/data_pipeline` is left out where
it is clear.

## The system

| Component | State it keeps | Operations | Talks to | Correct when |
|---|---|---|---|---|
| `runner/scheduler.py` | per series: `next_slot`, where its loop is | `run_forever`, `run_slot` | two clocks; collect; a destination | each slot runs once, on time; nothing stops a loop |
| `runner/collect.py` | the observations of one run | `collect`, `_read` | sources, fetch, checks, the log | the first valid reading wins; every attempt is recorded |
| `runner/fetch.py` | attempt number, body so far, timers | `fetch`, `_attempt` | `httpx`, `asyncio.timeout`, the task's cancellation | it ends, in its time; asks again only when that can help |
| `core/schedule.py` | none | `is_open`, `open_time` | the time zone data | open time is the time that passed while open |
| `core/series.py`, `core/readings.py` | configuration | validation, `runs_at`, `age` | schedule, checks | a healthy source is never stale between two runs |
| `core/checks.py` | none | `canonical`, `value_problem`, `reading_problem` | | what passes is what the calculator takes |
| `core/gap.py` | none | `summarize`, `estimate_final` | the observed pairs | rounded down once; never sent out of range |
| `destinations/cuanto_cuesta.py` | none | `send` | cuanto-cuesta over HTTP | a value is sent once or reported dropped |
| `runner/__main__.py` | the tasks, the client | `run`, `check` | signals, all of the above | it stops when told; the client outlives the tasks |
| `runner/heartbeat.py` | a file's modification time | `beat_forever`, `is_fresh` | the container's health check | a hung loop is seen, a healthy one is not killed |
| `config.py` | none | the settings, `load_series`, `_build`, `load_gap_samples` | yaml, csv, pydantic | what starts can run; a wrong file stops the start, and `--check` |
| `sources/` | none | `request` and `parse` of six sources | json, pydantic | a reading is what the source said; a few odd quotes do not set it |

What interacts: all the tasks share one event loop, so they give up control only at
an `await`; a series' task awaits in `fetch`, in `destination.send` and in
`sleep`. The runner cancels every task on SIGTERM, which raises `CancelledError` at
whichever of those awaits is pending. Nothing is persisted and there is no queue.

What is hard: the two clocks (wall and monotonic), cancellation that races a timeout,
runs that take longer than a slot, sources that are slow, trickle or send odd times,
time zones. The list, with the line where each one bites, is `hazards` in
`PROJECT.json`.

## The modules

### Scheduler

`run_forever` as a location per series: waiting (in `asyncio.sleep`), running
(in `collect` or `send`), ended (`run_slot` is over), armed (`next_slot` is
computed, the delay is not). The split of ended and armed is the point of the module:
scheduler.py:77 and :78 read `now()` twice, and time or a step of the clock can come
between. `BeginRun` and `SkipSlot` are the two outcomes of `run_slot`'s guard, `EndRun` and
`FailRun` its two ends, `ComputeNext` and `Sleep` the two last lines of the loop.

`wall` is what `now()` reads and `mono` what the event loop's timers are measured
on. `Tick` advances both; `StepClock` steps the wall clock alone, by any member of
`ClockSteps`, at most `MaxSteps` times. The event loop is late by up to `Lag`: `Tick` is
disabled while a due task is that late. A run lasts up to `MaxRun`, which may exceed an
interval. Slewing (NTP adjusting the rate) moves both clocks together and needs no action.

History variables: `ran` (the slot of the last run), `steady` (no step since
`next_slot` was computed), `torn` (a step fell between the two readings of `now()`).

Properties:

- `DueInItsSlot`: whatever the clock did before, if it was not stepped since
  `next_slot` was computed, the series comes due in that slot and at most two lags late. One
  disturbance therefore never outlives one wait.
- `BoundedSleep`: a step during a sleep cannot stretch it over an interval.
  Only a step between lines 77 and 78 can; the property says so by its `torn` exception.
- `NoSlotMissed`, `NoSlotRunTwice`: without steps, a series waits for one slot after the other and
  passes over only those that start during a run, which its length bounds; no slot is repeated. With a
  step back a slot does run again, as wall-clock alignment implies. Which slots are skipped as closed
  is judged at the start of each: hours that hold no slot start never run, and no property says they do.
- `OpenSlotRuns`, `KeepsRunning` (liveness): an open slot a series waits for is run, unless
  the clock is stepped meanwhile; failing runs, closed slots and steps stop nothing.

### Fetch and FetchPromise

`Fetch` is one call of `fetch`. Between awaits a step is atomic. The source's side (`Ok`,
`ServerError`, `OtherStatus`, `Chunk`, `EndOfBody`, `NetworkError`, `OtherError`, `Trickle`) is
unconstrained; `Trickle` is progress that is not yet a status or a chunk, and `OtherError` an exception that is
no `httpx.HTTPError`: it leaves the call as it is, and nothing is asked again. Two limits apply: the
client's, measured from the last progress, and `asyncio.timeout`'s, from the start of the
attempt. The latter is modelled as it works in Python 3.13: the timer cancels the task
(`cancelling`, `mustCancel`), the error is thrown at the pending await (`Unwind`),
and on leaving the block the timer takes its own cancellation back and only if none is left
turns it into a `TimeoutError` (`Verdict`). `Shutdown` is the runner's cancellation, at
any moment, also while the response is being closed.

- `CancelWins`: once the runner has cancelled the task, no further request and no other
  outcome than cancelled, also when the timer fires at that very moment.
- `WithinBudget` (with `DelaysBefore`, the waits summed): the call is never later than its attempts and waits account for. With the
  shipped values: 3 × 15 s + 4 s, plus lag, per source.
- `BodyIsWhole`: what is returned is within the limit; one chunk more is the most ever held.
- `Ends` (liveness): the call ends whatever the source does.
- `KeepsPromise`: `Fetch` implements `FetchPromise`, which has one action per request that was answered
  or failed, and says which answers lead to another one; `AsksNoMore` is its invariant, seen
  through the refinement mapping (`verdicts` and `outcome` by name, `MaxRequests` one more
  than the delays).

### Collect

One run: the loop of `collect` over the sources, `_read` with each of its outcomes, and
`run_slot`'s send. `fetch` is its promise: it takes up to `MaxFetch` and ends in a body,
a `FetchError`, another exception or a cancellation. An answer is an arbitrary kind of
value with an arbitrary time, or none of its own (`FetchedAt`). Age is computed before the
checks, as in the code, over the open intervals of the hours.

- `FirstValidReading`: sources are asked in order, once, up to the first valid reading,
  which is the one thing sent; without one, all were asked.
- `SentIsFresh`: how old, in open time, a value can be while it is being sent, whatever the sources
  before it took: `max_age` plus one send; and how new. The age in the code is a sum over
  days; the property counts open moments, which the proof shows to be the same.
- `EveryAttemptLogged`: README.md's "Every attempt is logged with its outcome and reason, failures
  included", except for the aborts `_read` documents and cancellations.

### OpeningHours

`open_time` as the loop it is, one action per kind of day, with the zone as Python applies
it: comparisons across zones in UTC, differences between two values of the same `ZoneInfo` on
the local clock, skipped and repeated local times with `fold=0`.

- `CountsOpenTime`: the result is the number of open moments (by `is_open`) of the interval.

### Runner and Publication

The process and everything it talks to: `run` (waiting for the signal, cancelling and gathering the
tasks, closing the client), the series' tasks and the heartbeat's, `CuantoCuestaIngest.send` and the log
lines of its answers, the requests on their way (`net`, a set: any may be late, lost or refused), and
cuanto-cuesta, external: it keeps the newest reading, takes one token and restarts. `Kill` and `Start` are
the container's.

A send is under `asyncio.timeout`, as an attempt of `fetch` is, so two things can cancel its task:
`SendExpires` (`expired`) and `CancelTasks`. Either puts the task in `toThrow`; `Throw` raises the
`CancelledError` at its await, and a send on its way out of `client.post` ("leaving") is told apart by
`TimedOut` only when it leaves the block: its own timer alone is a timeout, which is logged and swallowed; with
the runner's cancellation beside it, it is the end. An answer can arrive until the
error is thrown, and is then lost. Of an answer, what is kept is which log line it leads to; "unclear" is
any 200 that does not say an item was taken, also one with no results. `NoAnswer` is `httpx.HTTPError` and,
as `run_slot` catches it, anything else `send` raises.

The run up to its send is one step (`Collect` has the steps), which ends with nothing sent or with a reading that
may be older than the last one. A run that begins between the signal and the cancel is modelled
as one that begins before the signal, which leads to the same state. cuanto-cuesta being down for a while is the
same as it taking nothing for a while, which it always may; only the rotation, after which it must come
up, has a step for it.

`Publication` says what the two programs promise together of one rate, without processes,
requests or tokens: a run offers a reading, the rate moves only to an offered and newer one, and the log tells
that the reading on offer is held only when it, or a newer one, is.

- `KeepsPromise`: `Runner` implements `Publication` (`offered` is every reading posted, `onOffer` the
  one being sent, `published` what cuanto-cuesta publishes). What could break it: an answer taken for that of
  another send or of one that was given up, a late request that takes a rate back, an answer that
  says less than the log line.
- `LoggedIsHeld`: what a log line says cuanto-cuesta holds, it holds for good, whatever arrives
  late from an earlier send or process. The converse does not hold and is not claimed: a value
  logged as dropped after a timeout may have been stored.
- `StopIsFinal`: once the tasks are cancelled none begins a run or posts, also one whose send had just timed
  out; and the client all tasks share is closed after the last of them, also those cancelled before they first ran.
- `Stops`, `NextRunComes` (liveness): the process stops, and otherwise a series comes to its next run, with nothing
  owed by cuanto-cuesta.

### Heartbeat

`beat_forever`, `is_fresh` and Docker's `HEALTHCHECK` (interval, timeout, start period, start interval, retries).
Beats are timed on the monotonic clock and the file's age on the wall clock. A check takes time: it begins, reads the
file at some moment (`ReadFile`) and ends later with what it saw then (`Check`), or is killed at its timeout
(`SlowCheck`); the next begins an interval after it ended. A failure counts unless its check began in the
start period and none has passed. The loop may hang at any moment; besides, a behaviour has one kind of trouble:
failed beats, slow checks, or one step of the clock.

- `HungIsSeen`: how soon a hang turns the container unhealthy. The Dockerfile's "about 3.5 minutes" is the file's
  120 s and three intervals of 30 s; the bound adds the time of four checks, 5 s each at most: the three that fail and the
  one that read the file just in time. That is 230 s, plus the size of a step back, and it is exact.
- `RunningStaysHealthy`: up to four failed beats, two slow checks or any step never
  turn a running container unhealthy, and without trouble it is healthy soon after its first beat: at the latest
  when the check that missed that beat has ended and the next one after it. Two kinds together can turn it unhealthy, and so can
  a check that looked for the file before the first beat and ends after it.

### Prices

One price from what the source said to the item that is sent: `value_problem`, the loop of `canonical`
(one action per zero dropped; it is called to count decimals and again for an accepted reading), the plausible
range, and for a series with observed pairs the median of their shares and the estimate. A value is a sign,
digits and an exponent, as `decimal.Decimal` keeps it (`Decimals`), so one number comes in many forms. The median is said
by rank: the k-th of a list is a member with fewer than k below it and at least k up to it (so in `Config` and
`Sources`, too).

- `CanonicalKeepsValue`: the loop's invariant, and what it leads to: the same number without
  an exponent or zeros at the end.
- `VerdictIsOfTheNumber`: accepted or not by its value, whatever the form.
- `EstimateIsFair`: the item has the field exactly when its rate in `RATES` asks for it; null only without
  pairs, or when the estimate is out of the range for which cuanto-cuesta would refuse the whole item;
  else within a step below what the median pair kept, and never above the price.

### Config

From the settings and the series file to the tasks: `load_series` entry by entry and, for observed pairs,
row by row, with each check at its place, `Series`, `OpeningHours`, `Range` and `GapSample` refusing what they
do, `pick_destination`, and the client that is open meanwhile. Two processes read the same files: `--check`,
then the runner. What ends a start is recorded as the exception it is.

- `StartedCanRun`: every task that is created can do its work for good: an interval that is positive and no
  longer than `max_age`, known sources asked once, hours with an open moment, a range, a rate in cuanto-cuesta, a gap
  between the observed shares, no second task with the same id.
- `CheckForetellsStart`: the runner starts if and only if `--check` passed; a start that fails leaves no task
  and no open client.

### Sources

`parse` of the six sources, from the bytes to the reading: `load_json`, the selection of a quote (one ticker, one
exchange of an object, the first card method), the forms of time, the inverse of the card's quotation with its two
roundings, and the median of the P2P ads. `Ticker`, `Method` and `AdOfList` are what a quote can be: the fields
`parse` looks at, and whether the others are there and of their types. A number of JSON (`JsonNumber`) may be
negative, a text of digits (`DecimalText`: Bitso, ARQ and the card) may not. `criptoya_one` is `CriptoYaBid` without an
exchange, whose answer is the quote; no configured source is one.

- `OutliersAreOutvoted`: fewer ads than half of those the median is taken of cannot set the price, wherever they are
  in the answer, whatever they say, and also where prices are equal.
- `InverseIsRoundedDown`: two roundings give the exact inverse rounded down once.
- `ReadingIsOneQuote`: a price is never paired with the time of another quote, or of another form of time.
- `ParseTypeOK` also says what `parse` raises besides the two errors of its contract. `json.loads` does (`LoadErrors`): a
  `ValueError` for an int of more than 4300 digits, `decimal.InvalidOperation` for an exponent out of Decimal's range,
  a `RecursionError` for values nested too deep; and so does a product of an ad that is too large for a Decimal. Once
  the answer is JSON, that product is the only one in what is modelled. Errors of the machine (no memory) and bugs of
  pydantic are not modelled here; `Collect` has `parse` raise anything.

## The runs

| Run | Shows | Bounds, and why they are enough |
|---|---|---|
| `scheduler` | the safety of the loop and its liveness, with and without a step of the clock | intervals 4 and 5, runs of up to 4, lag 1, so runs end in the next slot and slots of the two series coincide and drift apart; at most one step of -5, -1, 3 or 6 (less than, and more than, an interval) at any point; horizon 16, so a step has waits before and after it; hours that leave out the first and the last slots. The horizon ends the behaviour: deadlock is not checked |
| `fetch` | cancellation, budget, refinement, termination | two retries as shipped; attempt 3, read 2, delays 1 and 2 keep the order of the shipped 15, 10, 1, 3 s; bodies up to twice the limit. The call ends, so deadlock is not checked |
| `opening_hours` | `open_time` | every interval of ten days of six units, with closed days first, between and last, hours 2 to 5, one change of offset in a closed hour |
| `opening_hours_change` | a violation: see below | the change within the hours of an open day |
| `collect` | a run | two sources, three kinds of value, times in, between, before and after two open days and from the future, fetches of 0 to 2 |
| `collect_zero` | a violation: see below | the same with the zero time also for a series with hours |
| `runner` | what becomes of the rates, what the log may be believed on, that a stop is final and that it and the next run come | a series that runs twice, so that an old request can be overtaken, beside one that runs once, so that one is cancelled or closed on while the other sends; one stop, kill or rotation at any point, so up to two processes, the first of which may leave two requests behind. The bounds end the behaviours: deadlock is not checked |
| `runner_rotation` | a violation: see below | one series of three runs, no other trouble |
| `heartbeat` | detection and false alarms | the values of the code in units of 5 s; a beat up to one unit late; a check takes up to one unit, its timeout; steps of -90, 70 and 200 s; times are counted to 330 s, past every limit |
| `prices` | the checks and the estimate | base 3, up to four digits, exponents -4 to 2, two decimals: every form of every number around the limits; shares in thirds, up to three pairs; rates that take an estimate and that do not. A price's way ends: deadlock is not checked |
| `config` | the start | files of one sound series with up to two changes, or of up to three series with one; pairs of up to three rows, each sound or wrong in one way: the order of any two problems, and any problem before and after a sound series. The start ends: no deadlock check |
| `sources` | what is read from an answer | up to two quotes with every form of time; up to five ads of eleven kinds, one with a negative price and amount, for a median of three; quotations of up to six digits in base 2, inverted to five digits and three decimals, some too large for them. `parse` ends: no deadlock check |

Every property has a mutant: a changed copy of one definition (marked "Mutant" in the
modules), as a plausible bug would have it, with which TLC finds the property violated.

## Fairness

`Scheduler`: weak fairness on time and on each series' loop: asyncio runs every ready
callback. `EndRun`/`FailRun` are fair because a run is bounded, which is `Fetch`'s
`Ends`. `Fetch`: weak fairness on timers, on the task's own steps and on time; none on the source.
`Runner`: weak fairness on the main task, on what the event loop owes each task (`Throw`,
`SendExpires`, `LeaveSend`), on the end of collecting (`Ends` of `Fetch`) and on the next slot
(`KeepsRunning` of `Scheduler`); none on answers, the network, cuanto-cuesta, signals, kills or rotations. `OpeningHours`, `Collect`, `Heartbeat`, `Prices`, `Config` and `Sources` state only
safety: a time limit is an invariant there.

## The proofs

`SchedulerProofs` proves, for any set of series, intervals, hours, lag, steps and
horizon, from `EveryAssumption`, `BoundsAssumption` and `LagAssumption` (three times the lag is less than
an interval: seconds against minutes; a slot is due up to two lags late and the wait after it computed up to one
later):

- `Typing`: `Spec => []TypeOK`
- `Alignment`: `Spec => []DueInItsSlot`
- `SleepBound`: `Spec => []BoundedSleep`
- `NothingMissed`: `Spec => NoSlotMissed`
- `EachSlotOnce`: `Spec => NoSlotRunTwice`

None of them is inductive: they say where `next_slot` lies only at the moment a
series is due. `IInv` adds where it lies at every other moment, in terms of what the wall
clock read when it was computed (`wall - (mono - at)`, armed) and what it will read when the
sleep is over (`wall + (at - mono)`, waiting), that `next_slot` is a multiple of the interval, the
order of `ran`, `wall` and `nextSlot` while the clock has not been stepped, and (`Account`) how far past its
slot a run can be, from when it was due and how long it may last, which bounds the slots passed over. The arithmetic
of slots is in four lemmas about `SlotStart`: a moment lies in its slot, and in no other
(`SlotStartUnique`).

`FetchProofs` proves, for any delays, timeouts, size limit and lag (`FetchAssumption`):

- `Typing`: `Spec => []TypeOK`
- `WholeBody`: `Spec => []BodyIsWhole`
- `Bounded`: `Spec => []AsksNoMore`
- `Cancelled`: `Spec => CancelWins`
- `Refinement`: `Spec => KeepsPromise`, that is, `Fetch` implements `FetchPromise`

`IInv` of Fetch ties the bookkeeping of `asyncio.timeout` to its causes: the number of
cancellations of the task is one if the timer has fired plus one if the runner has cancelled,
and each of the two is still to be thrown, or is what is leaving the attempt. Without it
`Verdict` cannot be told to be "cancelled" exactly when the runner stops (`VerdictCases`), on which
the preservation of `IInv` by `LeaveTimeout`, the refinement and `CancelWins` all rest.

`RunnerProofs` proves, for any series, number of runs, stops and rotation (`RunnerAssumption`):

- `Typing`: `Spec => []TypeOK`
- `Held`: `Spec => []LoggedIsHeld`
- `Final`: `Spec => StopIsFinal`
- `Refinement`: `Spec => KeepsPromise`, that is, `Runner` implements `Publication`

`IInv` of Runner adds what the log's word rests on. A request on its way is of a run that accepted its reading,
and if its series is still on that run, it is sending that very reading (`RequestsAreOfRuns`); so the answer
that reaches a send is its own, and one that says held came when it was (`AnswersAreTrue`), which stays
true because the rate only moves forward. After the cancel a task is over, leaving a send, or has its
`CancelledError` before it (`CancelledTasksEnd`), so it cannot begin anything. `OneLossPerRun` types the history variable
`lost` and says that a series that collects has begun a run.

`HeartbeatProofs` proves, for any limits, lag, failed beats, slow checks and steps of the clock, from
`HeartbeatAssumption` and `StartAssumption` (checks are no rarer in the start period, which is over before a file
ages):

- `Typing`: `Spec => []TypeOK`
- `HangIsSeen`: `Spec => []HungIsSeen`

`IInv` of Heartbeat says that the file is at least as old as the silence, but for a step back, and that the silence is
no longer than the file's limit and one check, an interval and a check for each that failed in a row, and what has
passed of the current one; a check that passes starts the count again, but has seen, no longer ago than its timeout,
a file that was not too old.

- `NoFalseAlarm`: `Spec => RunningStaysHealthy`, also from `MarginsAssumption`: the margins of the limits. With the
  values of the code they come to a lag of at most 6 s, since five beats of 30 s, each as late as that, must
  leave the file too old for no longer than two checks take.

`Steady` is what it needs on top of `IInv`, one part for each kind of trouble. Without any, the file is no older than
the last beat can be ago (`Overdue`), and the streak no longer than the checks that were slow. After a step of
the clock checks have been failing (`Failing`) for no longer than that. While beats fail, they have for no longer than the
file has been too old, and the streak that a beat leaves is ended by the next check that reads the file after it;
one that read it before ends with a failure for which there is still room. As time passes both sides of
each comparison grow alike; that fewer than `Retries` checks fit in between is then arithmetic (`RoomForOne`, `FailsBy`).

`CollectProofs` proves, for any list of sources, hours, kinds of value, times and limits, from `SourcesAssumption` (no
source is listed twice, as `Series` requires) and `TimesAssumption`:

- `Typing`: `Spec => []TypeOK`
- `FirstValid`: `Spec => []FirstValidReading`
- `Logged`: `LocalTimes /\ Spec => []EveryAttemptLogged`, where `LocalTimes` says that no source of a series with hours
  sends a time that has no local time: exactly what the finding `collect_zero` breaks
- `Freshness`: `Spec => []SentIsFresh`

`IInv` of Collect says how many sources have been asked and how many attempts recorded at each await and at the
end, that only the last attempt can be accepted, and what has been sent once it is. `Fresh` adds what the clock has
done since the reading was accepted. The age the code computes is a sum over days and the property counts open moments:
`AgeIs` shows them equal, from `HoursAssumption` (the days an hours value is open on are finitely many intervals of
integers, no two of which meet), by adding one day at a time.

`FetchProofs` also proves `OnBudget`: `Spec => []WithinBudget`. `OnTime` of Fetch is what it needs: when the attempt
under way began, that a timer which is due fires within one lag, and that a cancellation takes at most
one more. The sum of the delays is a recursive function; `DelaysBeforeDef` shows that it is what its definition says.

`OpeningHoursProofs` proves, for any zone, hours and interval:

- `Typing`: `Spec => []TypeOK`
- `Counting`: `ClosedAtChange => (Spec => []CountsOpenTime)`, where `ClosedAtChange` says that the
  offset changes only outside the hours of an open day. The finding `opening_hours_change` is exactly
  what happens without it; every zone a series uses satisfies it.

`IInv` of OpeningHours says that the time counted so far is the open time of the days before the one the loop is
at. `DayIsOverlap` is the heart of it: with the offset unchanged within the hours, the moments of the interval
that are open on one day are an interval, as long as the clock faces say.

`ConfigProofs` proves, for any settings, series file and observed pairs, from `FilesAssumption` (what reading the files
can give, row by row and entry by entry) and `RatesAssumption` (of `RATES`):

- `Invariance`, `Typing`: `Spec => []IInv`, `Spec => []TypeOK`
- `CheckForetells`: `Spec => []CheckForetellsStart`
- `Started`: `Spec => []StartedCanRun`

`IInv` of Config says that what has been read so far is acceptable (`PastReading`), that what was built is
what the entries say (`AllBuilt`), and that a process that failed had a file or a setting that is not
(`Progress`). Whether it is acceptable is decided by the file and the settings alone, so the two processes cannot
disagree. That a gap lies between the observed shares needs that the median does (`MedianWithin`), and that there is a
k-th share of every list (`NthExists`), which counts those below and up to each.

`PricesProofs` proves, for any base, limits, value and pairs (`DecimalsAssumption`, `PricesAssumption`):

- `Invariance`, `Typing`: `Spec => []IInv`, `Spec => []TypeOK`
- `KeepsValue`: `Spec => []CanonicalKeepsValue`
- `ByNumber`: `Spec => []VerdictIsOfTheNumber`
- `Fair`: `Spec => []EstimateIsFair`

`IInv` of Prices says that the digits and the exponent the loop of `canonical` is at are still the number that was
checked, and that an accepted one is a whole number of steps. Two facts carry it: dropping a zero and
raising the exponent keeps the number (`DropZero`), and a number whose last decimal is not zero is a
whole number of steps only if it has few enough of them (`BrokenSteps`), which is why counting decimals is right at
all. `EstimateHalves` bounds how many pairs lie on either side of an estimate.

It also proves of `Sources`, a specification of its own that shares the lemmas on powers, divisions and ranks, for any
base, precision, decimals, filters and odd `Top` (`DecimalsAssumption`, `SourcesAssumption`), and any answers of any length
(`AnswersAssumption`: a quote's fields are of their types, DolarApi, Bitso and one path of CriptoYa give one, and what
is not JSON fails in one of the ways of `LoadErrors`):

- `ParseInvariance`, `ParseTyping`: `ParseSpec => []ParseIInv`, `ParseSpec => []ParseTypeOK`
- `OneQuote`: `ParseSpec => []ReadingIsOneQuote`
- `RoundedDown`: `ParseSpec => []InverseIsRoundedDown`
- `Outvoted`: `ParseSpec => []OutliersAreOutvoted`

`ParseIInv` of Sources adds what was chosen on the way. That two roundings are one rests on `UnitsScale`: a fraction
has c units of `Base ^ (e + k)` exactly when it has c times `Base ^ k` units of `Base ^ e`. With it the
first digit exists (`FirstDigitIs`), the quotient has `Precision` digits, and cutting it at the decimals is cutting the
exact one (`InverseIs`), or it has more digits than the context, and is refused. That few ads are outvoted is a count:
`NthPriceIs` finds the k-th price of any list of ads, of any sign (`RankedIn`), and `MiddleIsOutvoted` counts those below it and up to it
that are left without the few.

Induction. The library's induction theorems take an operator as a parameter, which the installed provers cannot
instantiate. What is proved by induction here goes through the least element of a set (`Least`, `Induction`: a
set of naturals that is not empty has one, from `NatLessThanWellFounded` and `WFMin`), and a recursive function is
shown to exist by continuing a partial solution (`Recursion`, `DelaysBeforeDef`) before anything is said of it.

Only model-checked:

- all liveness (`OpenSlotRuns`, `KeepsRunning`, `Ends`, `Stops`, `NextRunComes`): fairness and `ENABLED` are beyond
  the prover.

Every invariant, action property and refinement of a passing run has a theorem.

## Findings

- `opening_hours_change`: on a day whose offset changes within the hours, `open_time`
  counts the clock face, not the time that passed (core/schedule.py:48). No configured zone does this.
- `collect_zero`: an `as_of` with no local time (`0001-01-01T00:00:00Z`, a common zero time, in
  a zone west of Greenwich) raises `OverflowError` from `series.age`, outside every `try` of `_read`: the run
  is aborted with the attempt unlogged and the fallback unasked (runner/collect.py:76).
- `runner_rotation`: docs/deploy.md:165 says a token rotation loses at most one value per series. A run cancelled
  by the restart is one; the new process runs at once (runner/scheduler.py:71) and, if cuanto-cuesta is still
  starting, loses another.

### Divergences without a run

Met while modelling, in the models, but of no consequence a property would tell apart:

- config.py:118 says every problem of the series file is a `ConfigError` naming it. An interval too
  long for a `timedelta` (`OverflowError`) and a CSV file that the csv module refuses (`csv.Error`) are not
  among the exceptions caught at config.py:123. The start fails either way.
- core/sources.py:45 says `parse` raises `MalformedResponseError` or `NoQuoteError`. The product of two huge
  numbers of an ad (binance_p2p.py:102) raises `decimal.Overflow`, and parsing.py:25 does not catch what `json.loads`
  raises for an int that is too long, an exponent that Decimal refuses or values nested too deep; `collect` takes all
  of them for bugs of the source and goes on.
- destinations/cuanto_cuesta.py:145 says nothing raises. `httpx.InvalidURL` is no `HTTPError` and a token that is
  not ASCII fails as a header is encoded; `run_slot` logs both, once per run.
- destinations/cuanto_cuesta.py:149 says a 200 is logged with one line per item. `{"results": []}` passes
  `_results`, and then no line at all says what became of the value.
- runner/__main__.py:76 says "Stopping drops nothing". docs/deploy.md:150 says that a run in progress is cancelled
  and its value lost, which is what happens.

## What is not modelled, and the plan

Outside any model: reading YAML, CSV and JSON (yaml, csv and pydantic do it), the
wording of logs, the deploy scripts (they run on a server that is not in the repository).

The cost of `open_time` is not modelled: it steps through every day since `as_of`, some 740,000
for a reading from year 1, a few seconds in which the event loop serves nothing. For the rest of the system that is a
lag, but `Lag` is a constant of `Scheduler`, `Fetch` and `Heartbeat`, which nothing in `OpeningHours` or
`Collect` determines: their properties say what a given lag does (they hold for any lag under a third of an interval,
and up to 6 s for the heartbeat with the values of the code), and none of them would notice a slower `open_time`.
