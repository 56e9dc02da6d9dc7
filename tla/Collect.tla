------------------------------ MODULE Collect ------------------------------
(***************************************************************************)
(* One run of a series: collect (runner/collect.py), which asks its        *)
(* sources in order until one gives a valid reading, and the rest of       *)
(* run_slot (runner/scheduler.py), which sends it.                         *)
(*                                                                         *)
(* A fetch takes time and ends as FetchPromise says; what an answer holds  *)
(* is up to the source. The task gives up control only in fetch and in     *)
(* send, where the runner may cancel it; everything between two of those   *)
(* is one step: the answer arrives, is stamped, parsed, checked, logged    *)
(* and recorded.                                                           *)
(***************************************************************************)
EXTENDS Integers, Sequences, SequencesExt

CONSTANTS
    Sources,      \* series.sources
    Every,        \* series.every
    HoursChoices, \* the hours a series may have: NoHours or a set of
                  \* [opens, closes], one for each open day
    Values,       \* the kinds of value an answer can hold
    AsOfs(_),     \* AsOfs(h): when the source says a value is from, for a
                  \* series with hours h; FetchedAt when it does not say
    FetchedAt,
    YearOne,      \* a time so early that it has no local time in the zone
    MaxAge,       \* rules.max_age
    ClockSkew,
    MaxFetch,     \* the longest a fetch takes: Budget of module Fetch
    MaxSend,      \* the longest a send takes
    StartTimes    \* bound: when the run starts

ASSUME SourcesAssumption ==
    Sources \in Seq(Range(Sources)) /\ Sources # <<>> /\ IsInjective(Sources)
ASSUME ValuesAssumption == Values \subseteq {"good", "unpublishable", "implausible"}
ASSUME TimesAssumption ==
    /\ Every \in Nat \ {0} /\ MaxAge \in Nat /\ Every <= MaxAge
    /\ ClockSkew \in Nat
    /\ MaxFetch \in Nat /\ MaxSend \in Nat
    /\ StartTimes \subseteq Nat
    /\ \A h \in HoursChoices : \A said \in AsOfs(h) : said = FetchedAt \/ said \in Int

(* The hours of a day are over before those of another begin.              *)
ASSUME HoursAssumption ==
    \A h \in HoursChoices :
        /\ IsFiniteSet(h)
        /\ \A d \in h : d.opens \in Int /\ d.closes \in Int
        /\ \A d, e \in h : d # e => d.closes <= e.opens \/ e.closes <= d.opens

VARIABLES
    hours,         \* series.hours
    now,
    pc,
    awaitedAt,     \* when the pending await began
    asked,         \* history: the sources tried
    observations,  \* the list collect builds; each is logged as it is added
    sent           \* history: the readings given to destination.send

vars == <<hours, now, pc, awaitedAt, asked, observations, sent>>

(* "next":     in the for loop of collect, no source being asked           *)
(* "fetching": in fetch       "sending": in destination.send               *)
(* "done":     run_slot has returned                                       *)
(* "raised":   a bug of the runner aborts the run, as _read documents      *)
(* "overflow": series.age raises OverflowError, which aborts it too        *)
(* "cancelled": the runner is shutting down                                *)
Locations == {"next", "fetching", "sending", "done", "raised", "overflow", "cancelled"}

NoHours == {}   \* hours is None: always open

Rejections == {"fetch_failed", "malformed", "no_quote", "source_bug", "not_publishable",
               "implausible", "from_the_future", "stale"}

----------------------------------------------------------------------------
(* series.age: open time only. The loop over days and its zone are the     *)
(* subject of module OpeningHours; here a day is an interval.              *)
Larger(m, n) == IF m > n THEN m ELSE n
Smaller(m, n) == IF m < n THEN m ELSE n

OpenTime(from, to) ==
    IF to <= from THEN 0
    ELSE MapThenSumSet(LAMBDA d : Larger(Smaller(to, d.closes) - Larger(from, d.opens), 0), hours)

Age(asOf, moment) ==
    IF hours = NoHours THEN moment - asOf ELSE OpenTime(asOf, moment)

(* A value from YearOne has an age, unless it is counted in local days. *)
AgeRaises(asOf) == hours # NoHours /\ asOf = YearOne

IsOpen(moment) == hours = NoHours \/ \E d \in hours : d.opens <= moment /\ moment <= d.closes

(* reading_problem: the first check that fails. *)
Problem(value, asOf, fetchedAt) ==
    CASE value = "unpublishable"                 -> "not_publishable"
      [] value = "implausible"                   -> "implausible"
      [] asOf > fetchedAt + ClockSkew            -> "from_the_future"
      [] Age(asOf, fetchedAt) > MaxAge           -> "stale"
      [] OTHER                                   -> "none"

----------------------------------------------------------------------------
Accepted(asOf) == [accepted |-> TRUE, asOf |-> asOf]
Rejected(reason) == [accepted |-> FALSE, reason |-> reason]
Outcome == [accepted : {TRUE}, asOf : Int] \union [accepted : {FALSE}, reason : Rejections]
Observation == [source : Range(Sources), fetchedAt : Nat, outcome : Outcome]
HasAccepted == \E k \in DOMAIN observations : observations[k].outcome.accepted

(* The slot of the run started in the hours; "now", anywhere in that slot, *)
(* may be past them.                                                       *)
Init ==
    /\ hours \in HoursChoices
    /\ now \in StartTimes
    /\ \E slot \in now - Every + 1 .. now : IsOpen(slot)
    /\ pc = "next"
    /\ awaitedAt = now
    /\ asked = <<>>
    /\ observations = <<>>
    /\ sent = <<>>

(* Mutant: the loop goes on after an accepted reading. *)
GoesOnAlways(outcome) == TRUE

GoesOn(outcome) == ~outcome.accepted

(* An attempt has an outcome: it is logged and recorded. An accepted one   *)
(* ends the loop and is sent; after a rejected one the next source is      *)
(* tried, and after the last of them there is nothing to send.             *)
Observe(outcome) ==
    /\ observations' = Append(observations,
           [source |-> Last(asked'), fetchedAt |-> now, outcome |-> outcome])
    /\ \/ /\ ~GoesOn(outcome)
          /\ pc' = "sending" /\ awaitedAt' = now /\ sent' = Append(sent, outcome.asOf)
       \/ /\ GoesOn(outcome) /\ Len(asked') < Len(Sources)
          /\ pc' = "next" /\ UNCHANGED <<awaitedAt, sent>>
       \/ /\ GoesOn(outcome) /\ Len(asked') = Len(Sources)
          /\ pc' = "done" /\ UNCHANGED <<awaitedAt, sent>>

----------------------------------------------------------------------------
(* source.request() raises: a bug of the source. *)
RequestFails ==
    /\ pc = "next"
    /\ asked' = Append(asked, Sources[Len(asked) + 1])
    /\ Observe(Rejected("source_bug"))
    /\ UNCHANGED <<hours, now>>

Ask ==
    /\ pc = "next"
    /\ asked' = Append(asked, Sources[Len(asked) + 1])
    /\ pc' = "fetching"
    /\ awaitedAt' = now
    /\ UNCHANGED <<hours, now, observations, sent>>

(* Mutant: a failed fetch goes straight to the next source. *)
FetchFailsSilently ==
    /\ pc = "fetching"
    /\ pc' = IF Len(asked) < Len(Sources) THEN "next" ELSE "done"
    /\ UNCHANGED <<hours, now, awaitedAt, asked, observations, sent>>

FetchFails ==
    /\ pc = "fetching"
    /\ UNCHANGED asked
    /\ Observe(Rejected("fetch_failed"))
    /\ UNCHANGED <<hours, now>>

(* fetch raises anything else, for instance because the client is closed. *)
FetchRaises ==
    /\ pc = "fetching"
    /\ pc' = "raised"
    /\ UNCHANGED <<hours, now, awaitedAt, asked, observations, sent>>

(* parse raises: the answer is malformed, gives no quote, or shows a bug. *)
ParseFails ==
    /\ pc = "fetching"
    /\ UNCHANGED asked
    /\ \E reason \in {"malformed", "no_quote", "source_bug"} : Observe(Rejected(reason))
    /\ UNCHANGED <<hours, now>>

(* Mutant: the stamp is taken before the fetch. *)
Stamped == awaitedAt

Stamp == now

(* An answer with a reading: stamped, aged, checked. The age is computed   *)
(* first, whatever the value is, and outside any "try".                    *)
Answer ==
    /\ pc = "fetching"
    /\ UNCHANGED <<hours, now, asked>>
    /\ \E value \in Values, said \in AsOfs(hours) :
        LET asOf == IF said = FetchedAt THEN Stamp ELSE said
            problem == Problem(value, asOf, Stamp)
        IN  \/ /\ AgeRaises(asOf)
               /\ pc' = "overflow"
               /\ UNCHANGED <<awaitedAt, observations, sent>>
            \/ /\ ~AgeRaises(asOf) /\ problem = "none"
               /\ Observe(Accepted(asOf))
            \/ /\ ~AgeRaises(asOf) /\ problem # "none"
               /\ Observe(Rejected(problem))

(* Mutant: a value that could not be sent is asked of the next source. *)
AfterSendOn == IF Len(asked) < Len(Sources) THEN "next" ELSE "done"

AfterSend == "done"

(* destination.send returns, or raises: it is logged, the value dropped. *)
SendEnds ==
    /\ pc = "sending"
    /\ pc' = AfterSend
    /\ UNCHANGED <<hours, now, awaitedAt, asked, observations, sent>>

(* The runner cancels the task at its await. *)
Cancel ==
    /\ pc \in {"fetching", "sending"}
    /\ pc' = "cancelled"
    /\ UNCHANGED <<hours, now, awaitedAt, asked, observations, sent>>

Tick ==
    /\ \/ pc = "fetching" /\ now < awaitedAt + MaxFetch
       \/ pc = "sending" /\ now < awaitedAt + MaxSend
    /\ now' = now + 1
    /\ UNCHANGED <<hours, pc, awaitedAt, asked, observations, sent>>

Run ==
    \/ RequestFails
    \/ Ask
    \/ FetchFails
    \/ FetchRaises
    \/ ParseFails
    \/ Answer
    \/ SendEnds

Next == Run \/ Cancel \/ Tick

Spec == Init /\ [][Next]_vars

----------------------------------------------------------------------------
(* The state is of its type. *)
TypeOK ==
    /\ hours \in HoursChoices
    /\ now \in Nat /\ awaitedAt \in Nat
    /\ pc \in Locations
    /\ asked \in Seq(Range(Sources))
    /\ observations \in Seq(Observation)
    /\ sent \in Seq(Int) /\ Len(sent) <= 1

(* "Tried in order until one gives a valid reading": the attempts are the  *)
(* first sources in order, each asked once; every one before the last was  *)
(* rejected; what is sent is the one accepted reading; and a run that      *)
(* returns without one has tried them all ("a failure tries the next       *)
(* source").                                                               *)
FirstValidReading ==
    /\ IsPrefix(asked, Sources)
    /\ \A k \in 1 .. Len(asked) - 1 : ~observations[k].outcome.accepted
    /\ sent # <<>> <=> HasAccepted
    /\ HasAccepted => sent = <<Last(observations).outcome.asOf>>
    /\ pc = "done" /\ ~HasAccepted => asked = Sources

(* The age of a value by definition: the moments since, at which the       *)
(* series was open.                                                        *)
OpenMoments(from, to) ==
    Cardinality({t \in from .. to - 1 :
        hours = NoHours \/ \E d \in hours : d.opens <= t /\ t < d.closes})

(* How stale and how new a published value can be, whatever the sources    *)
(* before it took to fail and its own fetch took to arrive: when it has    *)
(* been sent it is at most max_age and one send old in open time, and it   *)
(* was not from the future by more than the skew when it arrived.          *)
SentIsFresh ==
    pc = "sending" =>
        LET asOf == Last(sent) IN
        /\ OpenMoments(asOf, now) <= MaxAge + MaxSend
        /\ asOf <= awaitedAt + ClockSkew

(* "Every attempt is logged with its outcome and reason, failures          *)
(* included" (README.md): once its fetch is over, an attempt has its       *)
(* observation, unless the runner's own fetch raised, which _read          *)
(* documents, or the run was cancelled in it.                              *)
EveryAttemptLogged ==
    pc \notin {"fetching", "raised", "cancelled"} => Len(observations) = Len(asked)

(* No source of a series with hours sends a time that has no local time. *)
LocalTimes ==
    /\ YearOne \notin Nat
    /\ \A h \in HoursChoices : h # NoHours => YearOne \notin AsOfs(h)

(* Then no age of the run raises. *)
EveryAge == LocalTimes /\ pc # "overflow"

(* The inductive invariant of the two properties that are proved: which    *)
(* sources have been asked, and what has come of it, at each location.     *)
IInv ==
    /\ TypeOK
    /\ Len(asked) <= Len(Sources)
    /\ \A i \in 1 .. Len(asked) : asked[i] = Sources[i]
    /\ Len(observations) \in {Len(asked), Len(asked) - 1}
    /\ Len(observations) = Len(asked) - 1 => pc \in {"fetching", "raised", "overflow", "cancelled"}
    /\ pc = "fetching" => Len(observations) = Len(asked) - 1
    /\ pc = "next" => Len(asked) < Len(Sources)
    /\ \A k \in 1 .. Len(asked) - 1 : ~observations[k].outcome.accepted
    /\ sent # <<>> <=> HasAccepted
    /\ HasAccepted =>
        /\ pc \in {"sending", "done", "cancelled"}
        /\ Len(observations) = Len(asked)
        /\ sent = <<observations[Len(observations)].outcome.asOf>>
    /\ pc = "sending" => HasAccepted
    /\ pc = "done" /\ ~HasAccepted => Len(asked) = Len(Sources)

(* And of SentIsFresh: while it is sent, a value gets older by as much as  *)
(* the send has taken.                                                     *)
Fresh ==
    pc = "sending" =>
        /\ awaitedAt <= now /\ now <= awaitedAt + MaxSend
        /\ OpenMoments(Last(sent), awaitedAt) <= MaxAge
        /\ Last(sent) <= awaitedAt + ClockSkew

=============================================================================
