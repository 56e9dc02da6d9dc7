------------------------------- MODULE Config -------------------------------
(***************************************************************************)
(* From the settings and config/series.yaml to the series that run: the    *)
(* settings (config.py), load_series with _build and the observed pairs,   *)
(* what Series, OpeningHours, Range and GapSample refuse to hold, and      *)
(* configure, check and run up to the creation of the tasks                *)
(* (runner/__main__.py). Two processes read the same file: first           *)
(* `--check`, then the runner.                                             *)
(*                                                                         *)
(* What yaml, csv and pydantic refuse by themselves is a property of the   *)
(* input ("text", "columns", "garbled"); the checks of the code are made   *)
(* on the data. Times are units of a day, ages and intervals minutes.      *)
(***************************************************************************)
EXTENDS Integers, Sequences, SequencesExt, FiniteSets

CONSTANTS
    Files,        \* what the series file may hold
    Known,        \* the names of available_sources
    Rates,        \* the ids in RATES
    Zones,        \* the time zones there are
    MaxMinutes,   \* the most that a timedelta holds
    None          \* a value that is not set

ASSUME ConfigAssumption == MaxMinutes \in Nat \ {0}

(* No series is called as the other task of the runner is.                 *)
ASSUME RatesAssumption == "heartbeat" \notin Rates

(* A file is a list of entries, with numbers where the code has numbers.   *)
IsRow(row) ==
    row.amount \in Int /\ row.fee \in Int /\ row.listed \in Int /\ row.final \in Int
IsEntry(e) ==
    /\ e.sources \in Seq(Range(e.sources))
    /\ e.every \in Int /\ e.maxAge \in Int
    /\ e.plausible.min \in Int /\ e.plausible.max \in Int
    /\ e.hours # None => e.hours.opens \in Int /\ e.hours.closes \in Int
    /\ e.samples # None =>
        /\ e.samples.rows \in Seq(Range(e.samples.rows))
        /\ \A n \in 1 .. Len(e.samples.rows) : IsRow(e.samples.rows[n])
ASSUME FilesAssumption ==
    \A f \in Files : /\ f.series \in Seq(Range(f.series))
                     /\ \A i \in 1 .. Len(f.series) : IsEntry(f.series[i])

VARIABLES
    file,         \* the series file and the observed pairs it names
    settings,     \* RunnerSettings: the URL and the token of cuanto-cuesta
    mode,         \* "check" or "run"
    pc,           \* where the process is
    series,       \* the series built so far
    samples,      \* kept: the share in each pair read so far, numerator and denominator
    error,        \* the exception that ends the start
    client,       \* the HTTP client
    destination,  \* posts or logs
    tasks,        \* the tasks created
    checked       \* history: how --check ended

vars == <<file, settings, mode, pc, series, samples, error, client, destination, tasks, checked>>
input == <<file, settings, mode, checked>>

Texts == {"yaml", "unreadable", "repeated keys", "other keys"}
Ended == {"checked", "running", "failed"}
Entry == file.series[Len(series) + 1]

----------------------------------------------------------------------------
Init ==
    /\ file \in Files
    /\ settings \in [url : {None, "blank", "http", "other"}, token : {None, "blank", "text"}]
    /\ mode = "check" /\ checked = "not yet"
    /\ pc = "settings"
    /\ series = <<>> /\ samples = <<>>
    /\ error = "none"
    /\ client = "none" /\ destination = None /\ tasks = {}

(* Mutant: the client is closed only if there is no exception. *)
LeaveClientOpen == client

LeaveClient == IF client = "open" THEN "closed" ELSE client

(* An exception leaves the async with of the client, if that was entered. *)
Fail(exception) ==
    /\ pc' = "failed"
    /\ error' = exception
    /\ client' = LeaveClient
    /\ UNCHANGED <<input, series, samples, destination, tasks>>

(* RunnerSettings: a blank value is an unset one; a URL is http or https. *)
OpenClient ==
    /\ pc = "settings"
    /\ \/ /\ settings.url = "other"
          /\ Fail("ValidationError")
       \/ /\ settings.url # "other"
          /\ pc' = "reading"
          /\ client' = "open"
          /\ UNCHANGED <<input, series, samples, error, destination, tasks>>

(* The types of _Series, _Hours and _Range. *)
WellTyped(e) ==
    /\ e.every > 0 /\ e.maxAge > 0
    /\ e.plausible.min > 0 /\ e.plausible.max > 0
    /\ e.hours # None => e.hours.weekdays \subseteq 0 .. 6 /\ e.hours.quoted

(* load_series, up to the whole file being validated. *)
ReadFile ==
    /\ pc = "reading"
    /\ IF file.text = "yaml" /\ \A i \in 1 .. Len(file.series) : WellTyped(file.series[i])
       THEN /\ pc' = "building"
            /\ UNCHANGED <<input, series, samples, error, client, destination, tasks>>
       ELSE Fail("ConfigError")

(* OpeningHours.__post_init__ and Range.__post_init__. *)
CanOpen(hours) ==
    /\ hours.weekdays # {} /\ hours.weekdays \subseteq 0 .. 6
    /\ ~hours.offset
    /\ hours.opens < hours.closes
CanHold(range) == 0 < range.min /\ range.min < range.max

(* What _build refuses, in the order it gets to it: the arguments of Series are built in       *)
(* theirs. A timedelta that is too long is an OverflowError, which load_series lets through.   *)
Problem(bad, exception) == [bad |-> bad, exception |-> exception]
Problems(e) == <<
    Problem(\E i \in 1 .. Len(e.sources) : e.sources[i] \notin Known, "ConfigError"),
    Problem(e.samples # None /\ ~e.indicative, "ConfigError"),
    Problem(e.every > MaxMinutes, "OverflowError"),
    Problem(e.hours # None /\ ~(e.hours.zone \in Zones), "ConfigError"),
    Problem(e.hours # None /\ ~CanOpen(e.hours), "ConfigError"),
    Problem(~CanHold(e.plausible), "ConfigError"),
    Problem(e.maxAge > MaxMinutes, "OverflowError"),
    Problem(e.samples # None /\ e.samples.header = "absent", "ConfigError"),
    Problem(e.samples # None /\ e.samples.header = "garbled", "csv.Error"),
    Problem(e.samples # None /\ e.samples.header = "other columns", "ConfigError") >>

(* Mutant: an age shorter than the interval is taken. *)
UnfitNoAge(e) == e.sources = <<>> \/ ~IsInjective(e.sources)

(* Series.__post_init__. *)
Unfit(e) ==
    \/ e.sources = <<>>
    \/ ~IsInjective(e.sources)
    \/ e.maxAge < e.every

(* The k-th of the shares in their order: fewer than k are below it, and with those up to it   *)
(* there are k.                                                                                *)
Less(a, b) == a[1] * b[2] < b[1] * a[2]
Below(shares, i) == {j \in 1 .. Len(shares) : Less(shares[j], shares[i])}
UpTo(shares, i) == {j \in 1 .. Len(shares) : ~Less(shares[i], shares[j])}
IsNth(shares, k, i) ==
    Cardinality(Below(shares, i)) < k /\ k <= Cardinality(UpTo(shares, i))
Nth(shares, k) == shares[CHOOSE i \in 1 .. Len(shares) : IsNth(shares, k, i)]

(* Their median: the one in the middle, or the mean of the two. *)
Median(shares) ==
    LET low == Nth(shares, (Len(shares) + 1) \div 2)
        high == Nth(shares, Len(shares) \div 2 + 1)
    IN  <<low[1] * high[2] + high[1] * low[2], 2 * low[2] * high[2]>>

Construct(gap) ==
    IF Unfit(Entry) THEN Fail("ConfigError")
    ELSE /\ series' = Append(series, [id |-> Entry.id, sources |-> Entry.sources,
                                      every |-> Entry.every, maxAge |-> Entry.maxAge,
                                      hours |-> Entry.hours, plausible |-> Entry.plausible,
                                      gap |-> gap])
         /\ pc' = "building"
         /\ UNCHANGED <<input, samples, error, client, destination, tasks>>

(* _build, up to the observed pairs. *)
Build ==
    /\ pc = "building" /\ Len(series) < Len(file.series)
    /\ LET problems == Problems(Entry)
           first == SelectInSeq(problems, LAMBDA p : p.bad)
       IN  \/ /\ first # 0
              /\ Fail(problems[first].exception)
           \/ /\ first = 0 /\ Entry.samples = None
              /\ Construct(None)
           \/ /\ first = 0 /\ Entry.samples # None
              /\ pc' = "observing"
              /\ samples' = <<>>
              /\ UNCHANGED <<input, series, error, client, destination, tasks>>

(* GapSample.kept: final per unit paid after the fee, over listed per unit paid. *)
Kept(row) == <<row.final * row.amount, (row.amount - row.fee) * row.listed>>

(* Mutant: the fee may be the whole amount. *)
PairedAllFee(row) ==
    /\ row.zoned
    /\ row.amount > 0 /\ row.listed > 0 /\ row.final > 0
    /\ row.fee \in 0 .. row.amount

(* GapSample.__post_init__. *)
Paired(row) ==
    /\ row.zoned
    /\ row.amount > 0 /\ row.listed > 0 /\ row.final > 0
    /\ row.fee \in 0 .. row.amount - 1
    /\ Kept(row)[1] <= Kept(row)[2]

(* One row of load_gap_samples. What the csv reader itself refuses is not caught. *)
ReadRow ==
    /\ pc = "observing" /\ Len(samples) < Len(Entry.samples.rows)
    /\ LET row == Entry.samples.rows[Len(samples) + 1]
       IN  CASE row.garbled -> Fail("csv.Error")
             [] ~row.garbled /\ ~(row.columns /\ Paired(row)) -> Fail("ConfigError")
             [] OTHER -> /\ samples' = Append(samples, Kept(row))
                         /\ UNCHANGED <<input, pc, series, error, client, destination, tasks>>

(* summarize: no pairs, no gap. *)
Summarize ==
    /\ pc = "observing" /\ Len(samples) = Len(Entry.samples.rows)
    /\ Construct(IF samples = <<>> THEN None ELSE Median(samples))

(* Mutant: only neighbours are compared. *)
DistinctNeighbours == \A i \in 1 .. Len(series) - 1 : series[i].id # series[i + 1].id

Distinct == Cardinality({series[i].id : i \in 1 .. Len(series)}) = Len(series)

(* The end of load_series. *)
CheckIds ==
    /\ pc = "building" /\ Len(series) = Len(file.series)
    /\ IF Distinct
       THEN /\ pc' = "choosing"
            /\ UNCHANGED <<input, series, samples, error, client, destination, tasks>>
       ELSE Fail("ConfigError")

(* Mutant: --check reads the file only. *)
AllTakenToRun == mode = "check" \/ \A i \in 1 .. Len(series) : series[i].id \in Rates

(* What every destination refuses when it is made: a series without a rate. *)
AllTaken == \A i \in 1 .. Len(series) : series[i].id \in Rates

Set(value) == value \notin {None, "blank"}

(* configure: pick_destination posts only with both the URL and the token. *)
PickDestination ==
    /\ pc = "choosing"
    /\ IF AllTaken
       THEN /\ destination' = IF Set(settings.url) /\ Set(settings.token) THEN "post" ELSE "log"
            /\ pc' = "configured"
            /\ UNCHANGED <<input, series, samples, error, client, tasks>>
       ELSE Fail("ValueError")

EndCheck ==
    /\ pc = "configured" /\ mode = "check"
    /\ pc' = "checked"
    /\ client' = "closed"
    /\ UNCHANGED <<input, series, samples, error, destination, tasks>>

CreateTasks ==
    /\ pc = "configured" /\ mode = "run"
    /\ pc' = "running"
    /\ tasks' = {"heartbeat"} \union {series[i].id : i \in 1 .. Len(series)}
    /\ UNCHANGED <<input, series, samples, error, client, destination>>

(* The runner is started with the files that were checked, in a process of its own. *)
StartRunner ==
    /\ mode = "check" /\ pc \in {"checked", "failed"}
    /\ checked' = pc
    /\ mode' = "run"
    /\ pc' = "settings"
    /\ series' = <<>> /\ samples' = <<>>
    /\ error' = "none"
    /\ client' = "none" /\ destination' = None
    /\ UNCHANGED <<file, settings, tasks>>

Next ==
    \/ OpenClient \/ ReadFile
    \/ Build \/ ReadRow \/ Summarize
    \/ CheckIds \/ PickDestination
    \/ EndCheck \/ CreateTasks \/ StartRunner

Spec == Init /\ [][Next]_vars

----------------------------------------------------------------------------
(* The state is of its type. *)
TypeOK ==
    /\ mode \in {"check", "run"} /\ checked \in {"not yet", "checked", "failed"}
    /\ pc \in Ended \union {"settings", "reading", "building", "observing", "choosing",
                            "configured"}
    /\ Len(series) <= Len(file.series)
    /\ \A i \in 1 .. Len(samples) : samples[i] \in (Nat \ {0}) \X (Nat \ {0})
    /\ error \in {"none", "ConfigError", "OverflowError", "csv.Error", "ValidationError",
                  "ValueError"}
    /\ client \in {"none", "open", "closed"}
    /\ destination \in {None, "post", "log"}

(* An estimate made with the gap is between what the worst and the best pair gave.             *)
WithinShares(gap, rows) ==
    LET shares == {Kept(rows[n]) : n \in 1 .. Len(rows)}
    IN  /\ \E worst \in shares : ~Less(gap, worst)
        /\ \E best \in shares : ~Less(best, gap)
        /\ 0 < gap[1] /\ gap[1] <= gap[2]

(* Every task the runner creates can do its work for as long as it runs: the series' slots     *)
(* have a length and its hours an open moment (scheduler.py), every source it names is there   *)
(* to be asked once, a price can be in its range, what a source that updates once per interval *)
(* said is not stale at the next run (series.py:44), cuanto-cuesta takes it, its estimate lies *)
(* between what the worst and the best observed trade got, and no other task sends the same.   *)
StartedCanRun ==
    pc = "running" =>
        /\ client = "open" /\ Cardinality(tasks) = Len(series) + 1
        /\ \A i \in 1 .. Len(series) :
            LET s == series[i]
            IN  /\ s.every \in 1 .. s.maxAge
                /\ s.sources # <<>> /\ ToSet(s.sources) \subseteq Known
                /\ \A m, n \in 1 .. Len(s.sources) : s.sources[m] = s.sources[n] => m = n
                /\ \E price \in 1 .. s.plausible.max : price >= s.plausible.min
                /\ s.hours # None => /\ s.hours.weekdays \intersect 0 .. 6 # {}
                                     /\ \E t \in s.hours.opens .. s.hours.closes : t # s.hours.opens
                /\ s.id \in Rates
                /\ s.gap # None => WithinShares(s.gap, file.series[i].samples.rows)

(* Whatever `--check` (runner/__main__.py:9) said of the files and the settings, the runner    *)
(* started with them does: it runs if and only if they passed; and a start that fails leaves   *)
(* nothing running and the client closed, whatever the exception, so that the process ends and *)
(* its container is restarted.                                                                 *)
CheckForetellsStart ==
    mode = "run" /\ pc \in Ended =>
        IF checked = "checked" THEN pc = "running"
        ELSE pc = "failed" /\ tasks = {} /\ client # "open"

(* What the inductive invariant adds: whether the file and the settings    *)
(* are acceptable is decided by them alone, and how far the start has come *)
(* says which part of that is known. No process ends otherwise.            *)
Readable(row) == ~row.garbled /\ row.columns /\ Paired(row)
NoProblem(e) == \A i \in 1 .. Len(Problems(e)) : ~Problems(e)[i].bad
Buildable(e) ==
    /\ NoProblem(e)
    /\ e.samples # None => \A n \in 1 .. Len(e.samples.rows) : Readable(e.samples.rows[n])
    /\ ~Unfit(e)
Acceptable ==
    /\ settings.url # "other"
    /\ file.text = "yaml"
    /\ \A i \in 1 .. Len(file.series) : WellTyped(file.series[i]) /\ Buildable(file.series[i])
    /\ Cardinality({file.series[i].id : i \in 1 .. Len(file.series)}) = Len(file.series)
    /\ \A i \in 1 .. Len(file.series) : file.series[i].id \in Rates

IsBuiltFrom(s, e) ==
    /\ s.id = e.id /\ s.sources = e.sources /\ s.every = e.every /\ s.maxAge = e.maxAge
    /\ s.hours = e.hours /\ s.plausible = e.plausible
    /\ s.gap # None => WithinShares(s.gap, e.samples.rows)

PastReading == pc \notin {"settings", "reading", "failed"}
AllBuilt == pc \in {"choosing", "configured", "checked", "running"}

Progress ==
    /\ pc \notin {"settings", "failed"} => settings.url # "other"
    /\ PastReading => /\ file.text = "yaml"
                      /\ \A i \in 1 .. Len(file.series) : WellTyped(file.series[i])
    /\ \A i \in 1 .. Len(series) : /\ Buildable(file.series[i])
                                   /\ IsBuiltFrom(series[i], file.series[i])
    /\ pc = "observing" =>
        /\ Len(series) < Len(file.series)
        /\ NoProblem(Entry) /\ Entry.samples # None
        /\ Len(samples) <= Len(Entry.samples.rows)
        /\ \A n \in 1 .. Len(samples) : /\ Readable(Entry.samples.rows[n])
                                        /\ samples[n] = Kept(Entry.samples.rows[n])
    /\ AllBuilt => Len(series) = Len(file.series) /\ Distinct
    /\ AllBuilt /\ pc # "choosing" => AllTaken
    /\ pc = "failed" => ~Acceptable

IInv ==
    /\ TypeOK
    /\ file \in Files
    /\ series \in Seq(Range(series))
    /\ samples \in Seq((Nat \ {0}) \X (Nat \ {0}))
    /\ checked = "not yet" <=> mode = "check"
    /\ checked = "checked" => Acceptable
    /\ checked = "failed" => ~Acceptable
    /\ pc = "checked" => mode = "check"
    /\ pc = "running" => mode = "run"
    /\ tasks = IF pc = "running" THEN {"heartbeat"} \union {series[i].id : i \in 1 .. Len(series)}
               ELSE {}
    /\ client = "open" <=> pc \notin {"settings", "checked", "failed"}
    /\ Progress

=============================================================================
