--------------------------- MODULE CollectProofs ---------------------------
(***************************************************************************)
(* A run for any sources, hours, values and times: which sources are asked *)
(* and what is sent, that every attempt is recorded unless a source sends  *)
(* a time that has no local time, and how old what is sent can be. IInv of *)
(* Collect is the inductive invariant, with Fresh for the age.             *)
(***************************************************************************)
EXTENDS Collect, FiniteSetTheorems, TLAPS

----------------------------------------------------------------------------
(* An attempt is recorded.                                                 *)

LEMMA Recorded ==
    ASSUME IInv, NEW outcome \in Outcome, Observe(outcome),
           asked' \in Seq(Range(Sources)), asked' # <<>>
    PROVE  LET n == Len(observations)
           IN  /\ observations' \in Seq(Observation)
               /\ Len(observations') = n + 1
               /\ observations'[n + 1].outcome = outcome
               /\ \A k \in 1 .. n : observations'[k] = observations[k]
<1>1. observations \in Seq(Observation) /\ now \in Nat
  BY DEF IInv, TypeOK
<1> DEFINE new == [source |-> Last(asked'), fetchedAt |-> now, outcome |-> outcome]
<1>2. observations' = Append(observations, new)
  BY DEF Observe
<1>3. /\ Len(observations') = Len(observations) + 1
      /\ observations'[Len(observations) + 1] = new
      /\ \A k \in 1 .. Len(observations) : observations'[k] = observations[k]
  BY <1>1, <1>2
<1>4. Last(asked') \in Range(Sources)
  BY DEF Last
<1>5. new \in Observation
  BY <1>1, <1>4 DEF Observation
<1> QED BY <1>1, <1>2, <1>3, <1>5

(* The attempt is the next one in the order of the sources, and none       *)
(* before it was accepted.                                                 *)
LEMMA ObserveIInv ==
    ASSUME IInv, pc \in {"next", "fetching"}, NEW outcome \in Outcome, Observe(outcome),
           asked' \in Seq(Range(Sources)),
           Len(asked') = Len(observations) + 1, Len(asked') <= Len(Sources),
           \A i \in 1 .. Len(asked') : asked'[i] = Sources[i],
           hours' = hours, now' = now
    PROVE  IInv'
<1> DEFINE n == Len(observations)
<1>1. /\ n \in Nat /\ Len(asked') = n + 1 /\ asked' # <<>>
      /\ ~HasAccepted /\ sent = <<>>
      /\ now \in Nat /\ awaitedAt \in Nat /\ hours \in HoursChoices
      /\ observations \in Seq(Observation)
  BY DEF IInv, TypeOK
<1>2. /\ observations' \in Seq(Observation)
      /\ Len(observations') = n + 1
      /\ observations'[n + 1].outcome = outcome
      /\ \A k \in 1 .. n : observations'[k] = observations[k]
  BY <1>1, Recorded
<1>3. \A k \in 1 .. n : ~observations'[k].outcome.accepted
  BY <1>1, <1>2 DEF HasAccepted
<1>4. CASE outcome.accepted
  <2>1. pc' = "sending" /\ awaitedAt' = now /\ sent' = Append(sent, outcome.asOf)
    BY <1>4 DEF Observe, GoesOn
  <2>2. outcome.asOf \in Int
    BY <1>4 DEF Outcome
  <2>3. sent' = <<outcome.asOf>> /\ sent' \in Seq(Int) /\ Len(sent') = 1 /\ sent' # <<>>
    BY <1>1, <2>1, <2>2
  <2>4. HasAccepted'
    <3>1. n + 1 \in DOMAIN observations'
      BY <1>1, <1>2
    <3> QED BY <1>2, <1>4, <3>1 DEF HasAccepted
  <2>5. TypeOK'
    BY <1>1, <1>2, <2>1, <2>3 DEF TypeOK, Locations
  <2> QED BY <1>1, <1>2, <1>3, <2>1, <2>3, <2>4, <2>5 DEF IInv
<1>5. CASE ~outcome.accepted
  <2>1. /\ sent' = sent /\ awaitedAt' = awaitedAt
        /\ \/ pc' = "next" /\ Len(asked') < Len(Sources)
           \/ pc' = "done" /\ Len(asked') = Len(Sources)
    BY <1>5 DEF Observe, GoesOn
  <2>2. ~HasAccepted'
    <3>1. DOMAIN observations' = 1 .. n + 1
      BY <1>1, <1>2
    <3> QED BY <1>1, <1>2, <1>3, <1>5, <3>1 DEF HasAccepted
  <2>3. TypeOK'
    BY <1>1, <1>2, <2>1 DEF IInv, TypeOK, Locations
  <2> QED BY <1>1, <1>2, <1>3, <2>1, <2>2, <2>3 DEF IInv
<1> QED BY <1>4, <1>5

----------------------------------------------------------------------------
(* The steps of a run.                                                     *)

LEMMA NextSource ==
    ASSUME IInv, pc = "next"
    PROVE  LET asking == Append(asked, Sources[Len(asked) + 1])
           IN  /\ asking \in Seq(Range(Sources)) /\ Len(asking) = Len(asked) + 1
               /\ Len(asking) <= Len(Sources)
               /\ \A i \in 1 .. Len(asking) : asking[i] = Sources[i]
<1>1. asked \in Seq(Range(Sources)) /\ Len(asked) < Len(Sources)
      /\ \A i \in 1 .. Len(asked) : asked[i] = Sources[i]
  BY DEF IInv, TypeOK
<1>2. Sources \in Seq(Range(Sources))
  BY SourcesAssumption
<1>3. Sources[Len(asked) + 1] \in Range(Sources)
  BY <1>1, <1>2
<1> QED BY <1>1, <1>2, <1>3

LEMMA RequestFailsIInv == IInv /\ RequestFails => IInv'
<1> SUFFICES ASSUME IInv, RequestFails PROVE IInv'
  OBVIOUS
<1>1. Rejected("source_bug") \in Outcome
  BY DEF Rejected, Outcome, Rejections
<1>2. Len(observations) = Len(asked)
  BY DEF RequestFails, IInv
<1> QED BY <1>1, <1>2, NextSource, ObserveIInv DEF RequestFails

LEMMA AskIInv == IInv /\ Ask => IInv'
<1> SUFFICES ASSUME IInv, Ask PROVE IInv'
  OBVIOUS
<1>1. /\ asked' \in Seq(Range(Sources)) /\ Len(asked') = Len(asked) + 1
      /\ Len(asked') <= Len(Sources)
      /\ \A i \in 1 .. Len(asked') : asked'[i] = Sources[i]
      /\ pc = "next" /\ pc' = "fetching" /\ awaitedAt' = now
      /\ UNCHANGED <<hours, now, observations, sent>>
  BY NextSource DEF Ask
<1>2. Len(observations) = Len(asked) /\ Len(asked) \in Nat /\ ~HasAccepted /\ ~HasAccepted'
  BY <1>1 DEF IInv, TypeOK, HasAccepted
<1>3. \A k \in 1 .. Len(asked) : ~observations[k].outcome.accepted
  BY <1>2 DEF HasAccepted, IInv, TypeOK
<1>4. TypeOK'
  BY <1>1 DEF IInv, TypeOK, Locations
<1> QED BY <1>1, <1>2, <1>3, <1>4 DEF IInv

(* A fetch is over and its outcome is recorded.                            *)
LEMMA OutcomeIInv ==
    ASSUME IInv, pc = "fetching", NEW outcome \in Outcome, Observe(outcome),
           UNCHANGED <<hours, now, asked>>
    PROVE  IInv'
<1>1. /\ Len(asked) = Len(observations) + 1 /\ Len(asked) <= Len(Sources)
      /\ asked \in Seq(Range(Sources))
      /\ \A i \in 1 .. Len(asked) : asked[i] = Sources[i]
  BY DEF IInv, TypeOK
<1> QED BY <1>1, ObserveIInv

LEMMA FailureIInv == IInv /\ (FetchFails \/ ParseFails) => IInv'
<1>1. \A reason \in Rejections : Rejected(reason) \in Outcome
  BY DEF Rejected, Outcome
<1>2. {"fetch_failed", "malformed", "no_quote", "source_bug"} \subseteq Rejections
  BY DEF Rejections
<1> QED BY <1>1, <1>2, OutcomeIInv DEF FetchFails, ParseFails

(* A step that changes only where the run is, or the time.                 *)
LEMMA AbortIInv ==
    ASSUME IInv, pc' \in {"raised", "overflow", "cancelled"},
           pc \in {"fetching", "sending"}, pc = "sending" => pc' = "cancelled",
           UNCHANGED <<hours, now, awaitedAt, asked, observations, sent>>
    PROVE  IInv'
<1>1. HasAccepted' <=> HasAccepted
  BY DEF HasAccepted
<1>2. HasAccepted => pc = "sending"
  BY DEF IInv
<1>3. TypeOK'
  BY DEF IInv, TypeOK, Locations
<1> QED BY <1>1, <1>2, <1>3 DEF IInv

LEMMA AnswerIInv == IInv /\ Answer => IInv'
<1> SUFFICES ASSUME IInv, pc = "fetching", UNCHANGED <<hours, now, asked>>,
                    NEW value \in Values, NEW said \in AsOfs(hours),
                    LET asOf == IF said = FetchedAt THEN Stamp ELSE said
                        problem == Problem(value, asOf, Stamp)
                    IN  \/ AgeRaises(asOf) /\ pc' = "overflow"
                           /\ UNCHANGED <<awaitedAt, observations, sent>>
                        \/ ~AgeRaises(asOf) /\ problem = "none" /\ Observe(Accepted(asOf))
                        \/ ~AgeRaises(asOf) /\ problem # "none" /\ Observe(Rejected(problem))
             PROVE  IInv'
  BY DEF Answer
<1> DEFINE asOf == IF said = FetchedAt THEN Stamp ELSE said
           problem == Problem(value, asOf, Stamp)
<1>1. asOf \in Int
  BY TimesAssumption DEF Stamp, IInv, TypeOK
<1>2. Accepted(asOf) \in Outcome
  BY <1>1 DEF Accepted, Outcome
<1>3. problem \in Rejections \union {"none"}
  BY DEF Problem, Rejections
<1>4. problem # "none" => Rejected(problem) \in Outcome
  BY <1>3 DEF Rejected, Outcome
<1>5. CASE pc' = "overflow" /\ UNCHANGED <<awaitedAt, observations, sent>>
  BY <1>5, AbortIInv
<1>6. CASE Observe(Accepted(asOf))
  BY <1>2, <1>6, OutcomeIInv
<1>7. CASE problem # "none" /\ Observe(Rejected(problem))
  <2> HIDE DEF problem
  <2> QED BY <1>4, <1>7, OutcomeIInv
<1> HIDE DEF asOf, problem
<1> QED BY <1>5, <1>6, <1>7 DEF asOf, problem

LEMMA SendEndsIInv == IInv /\ SendEnds => IInv'
<1> SUFFICES ASSUME IInv, SendEnds PROVE IInv'
  OBVIOUS
<1>1. /\ pc = "sending" /\ pc' = "done" /\ HasAccepted
      /\ UNCHANGED <<hours, now, awaitedAt, asked, observations, sent>>
  BY DEF SendEnds, AfterSend, IInv
<1>2. HasAccepted' <=> HasAccepted
  BY <1>1 DEF HasAccepted
<1>3. TypeOK'
  BY <1>1 DEF IInv, TypeOK, Locations
<1> QED BY <1>1, <1>2, <1>3 DEF IInv

LEMMA WaitIInv == IInv /\ (Tick \/ UNCHANGED vars) => IInv'
<1> SUFFICES ASSUME IInv, Tick \/ UNCHANGED vars PROVE IInv'
  OBVIOUS
<1>1. UNCHANGED <<hours, pc, awaitedAt, asked, observations, sent>> /\ now' \in Nat
  BY DEF Tick, vars, IInv, TypeOK
<1>2. HasAccepted' <=> HasAccepted
  BY <1>1 DEF HasAccepted
<1>3. TypeOK'
  BY <1>1 DEF IInv, TypeOK
<1> QED BY <1>1, <1>2, <1>3 DEF IInv

LEMMA InitIInv == Init => IInv
<1> SUFFICES ASSUME Init PROVE IInv
  OBVIOUS
<1>1. /\ asked = <<>> /\ observations = <<>> /\ sent = <<>> /\ pc = "next"
      /\ hours \in HoursChoices /\ now \in Nat /\ awaitedAt \in Nat
  BY TimesAssumption DEF Init
<1>2. Len(Sources) \in Nat /\ Len(Sources) > 0
  BY SourcesAssumption
<1>3. ~HasAccepted
  BY <1>1 DEF HasAccepted
<1>4. TypeOK
  BY <1>1 DEF TypeOK, Locations
<1> QED BY <1>1, <1>2, <1>3, <1>4 DEF IInv

----------------------------------------------------------------------------
(* The inductive invariant holds however the attempts, the send and the    *)
(* runner's cancellation go.                                               *)
THEOREM Invariance == Spec => []IInv
<1>1. IInv /\ (FetchRaises \/ Cancel) => IInv'
  BY AbortIInv DEF FetchRaises, Cancel
<1>2. IInv /\ [Next]_vars => IInv'
  BY <1>1, RequestFailsIInv, AskIInv, FailureIInv, AnswerIInv, SendEndsIInv, WaitIInv
     DEF Next, Run
<1> QED BY InitIInv, <1>2, PTL DEF Spec

(* Type correctness of a run.                                              *)
THEOREM Typing == Spec => []TypeOK
<1>1. IInv => TypeOK
  BY DEF IInv
<1> QED BY <1>1, Invariance, PTL

(* The sources are asked in order, each once, up to the first valid        *)
(* reading, which is the one thing sent; without one, all were asked.      *)
THEOREM FirstValid == Spec => []FirstValidReading
<1>1. IInv => FirstValidReading
  <2> SUFFICES ASSUME IInv PROVE FirstValidReading
    OBVIOUS
  <2>1. /\ asked \in Seq(Range(Sources)) /\ Sources \in Seq(Range(Sources))
        /\ Len(asked) <= Len(Sources)
        /\ \A i \in 1 .. Len(asked) : asked[i] = Sources[i]
    BY SourcesAssumption DEF IInv, TypeOK
  <2>2. SubSeq(asked, 1, Len(asked)) = SubSeq(Sources, 1, Len(asked))
    BY <2>1
  <2>3. IsPrefix(asked, Sources)
    BY <2>1, <2>2 DEF IsPrefix
  <2>4. Len(asked) = Len(Sources) => asked = Sources
    BY <2>1
  <2> QED BY <2>3, <2>4 DEF IInv, FirstValidReading, Last
<1> QED BY <1>1, Invariance, PTL

(* Every attempt whose fetch is over is recorded, unless fetch itself      *)
(* raised or the run was cancelled, provided that no source of a series    *)
(* with hours sends a time that has no local time: the one exception to    *)
(* README.md's "every attempt is logged".                                  *)
THEOREM Logged == LocalTimes /\ Spec => []EveryAttemptLogged
<1>1. LocalTimes /\ Init => EveryAge
  BY DEF Init, EveryAge
<1>2. IInv /\ EveryAge /\ [Next]_vars => EveryAge'
  <2> SUFFICES ASSUME IInv, LocalTimes, pc # "overflow", [Next]_vars PROVE pc' # "overflow"
    BY DEF EveryAge, LocalTimes
  <2>1. CASE Answer
    <3>1. \A said \in AsOfs(hours) :
            ~AgeRaises(IF said = FetchedAt THEN Stamp ELSE said)
      BY DEF LocalTimes, AgeRaises, Stamp, IInv, TypeOK
    <3> QED BY <2>1, <3>1 DEF Answer, Observe
  <2>2. CASE RequestFails \/ Ask \/ FetchFails \/ FetchRaises \/ ParseFails \/ SendEnds
    BY <2>2 DEF RequestFails, Ask, FetchFails, FetchRaises, ParseFails, SendEnds, AfterSend, Observe
  <2>3. CASE Cancel \/ Tick \/ UNCHANGED vars
    BY <2>3 DEF Cancel, Tick, vars
  <2> QED BY <2>1, <2>2, <2>3 DEF Next, Run
<1>3. IInv /\ EveryAge => EveryAttemptLogged
  BY DEF IInv, EveryAge, EveryAttemptLogged
<1> QED BY <1>1, <1>2, <1>3, Invariance, PTL DEF Spec

----------------------------------------------------------------------------
(* How old a value is.                                                     *)

(* The open moments of some of the days, and of one. *)
InDays(days, from, to) ==
    {t \in from .. to - 1 : \E d \in days : d.opens <= t /\ t < d.closes}
InDay(d, from, to) == Larger(Smaller(to, d.closes) - Larger(from, d.opens), 0)

LEMMA OneDay ==
    ASSUME NEW from \in Int, NEW to \in Int, NEW d, d.opens \in Int, d.closes \in Int
    PROVE  Cardinality(InDays({d}, from, to)) = InDay(d, from, to)
<1> DEFINE first == Larger(from, d.opens)
           last == Smaller(to, d.closes)
<1>1. first \in Int /\ last \in Int
  BY DEF Larger, Smaller
<1>2. InDays({d}, from, to) = first .. last - 1
  BY DEF InDays, Larger, Smaller
<1>3. InDay(d, from, to) = Larger(last - first, 0)
  BY DEF InDay
<1> HIDE DEF first, last
<1>4. last - 1 \in Int
  BY <1>1
<1>5. Cardinality(first .. last - 1) = IF first > last - 1 THEN 0 ELSE last - 1 - first + 1
  BY <1>1, <1>4, FS_Interval
<1> QED BY <1>1, <1>2, <1>3, <1>5 DEF Larger

(* One day more adds its open moments: no two days share any.              *)
LEMMA DayByDay ==
    ASSUME NEW h \in HoursChoices, NEW days \in SUBSET h, NEW x \in days,
           NEW from \in Int, NEW to \in Int
    PROVE  Cardinality(InDays(days, from, to)) =
               InDay(x, from, to) + Cardinality(InDays(days \ {x}, from, to))
<1> DEFINE others == InDays(days \ {x}, from, to)
           here == InDays({x}, from, to)
<1>1. x.opens \in Int /\ x.closes \in Int
      /\ \A d \in days \ {x} : /\ d.opens \in Int /\ d.closes \in Int
                               /\ d.closes <= x.opens \/ x.closes <= d.opens
  BY HoursAssumption
<1>2. InDays(days, from, to) = here \cup others
  BY DEF InDays
<1>3. here \cap others = {}
  BY <1>1 DEF InDays
<1>4. IsFiniteSet(here) /\ IsFiniteSet(others)
  <2>1. IsFiniteSet(from .. to - 1)
    <3>1. to - 1 \in Int
      OBVIOUS
    <3> QED BY <3>1, FS_Interval
  <2>2. here \in SUBSET (from .. to - 1) /\ others \in SUBSET (from .. to - 1)
    BY DEF InDays
  <2> HIDE DEF here, others
  <2> QED BY <2>1, <2>2, FS_Subset
<1>5. Cardinality(here) = InDay(x, from, to) /\ InDay(x, from, to) \in Int
  <2>1. Cardinality(here) = InDay(x, from, to)
    BY <1>1, OneDay
  <2>2. InDay(x, from, to) \in Int
    BY <1>1 DEF InDay, Larger, Smaller
  <2> QED BY <2>1, <2>2
<1> HIDE DEF here, others
<1>6. Cardinality(here \cup others) = Cardinality(here) + Cardinality(others) - Cardinality({})
  BY <1>3, <1>4, FS_Union
<1>7. Cardinality(here) \in Nat /\ Cardinality(others) \in Nat /\ Cardinality({}) = 0
  BY <1>4, FS_CardinalityType, FS_EmptySet
<1> QED BY <1>2, <1>5, <1>6, <1>7 DEF others

(* The open time that is added up day by day is the number of the open     *)
(* moments. As many as they are is a solution of the recursion of the sum, *)
(* and the only one: a least set of days where another differs has a day.  *)
LEMMA OpenTimeIs ==
    ASSUME hours \in HoursChoices, NEW from \in Int, NEW to \in Int, from < to
    PROVE  OpenTime(from, to) = Cardinality(InDays(hours, from, to))
<1> DEFINE Sum(f, days) == IF days = {} THEN 0
                           ELSE LET x == CHOOSE d \in days : TRUE
                                IN  InDay(x, from, to) + f[days \ {x}]
           count == [days \in SUBSET hours |-> Cardinality(InDays(days, from, to))]
           sum == CHOOSE f : f = [days \in SUBSET hours |-> Sum(f, days)]
<1>1. OpenTime(from, to) = sum[hours]
  <2>1. ~(to <= from)
    OBVIOUS
  <2>2. sum = CHOOSE f : f = [days \in SUBSET hours |->
                  IF days = {} THEN 0
                  ELSE LET x == CHOOSE d \in days : TRUE
                       IN  Larger(Smaller(to, x.closes) - Larger(from, x.opens), 0) + f[days \ {x}]]
    BY Zenon DEF InDay
  <2> HIDE DEF sum
  <2> QED BY Zenon, <2>1, <2>2 DEF OpenTime, MapThenSumSet, MapThenFoldSet
<1>2. \A days \in SUBSET hours : count[days] = Sum(count, days)
  <2> SUFFICES ASSUME NEW days \in SUBSET hours PROVE count[days] = Sum(count, days)
    OBVIOUS
  <2>1. CASE days = {}
    <3>1. InDays({}, from, to) = {}
      BY DEF InDays
    <3> QED BY <2>1, <3>1, FS_EmptySet
  <2>2. CASE days # {}
    <3> DEFINE x == CHOOSE d \in days : TRUE
    <3>1. x \in days
      BY <2>2
    <3> HIDE DEF x
    <3>2. count[days] = InDay(x, from, to) + count[days \ {x}]
      BY <3>1, DayByDay
    <3> QED BY <2>2, <3>2 DEF x
  <2> QED BY <2>1, <2>2
<1>3. count = [days \in SUBSET hours |-> Sum(count, days)]
  BY <1>2
<1> HIDE DEF count
<1>4. sum = [days \in SUBSET hours |-> Sum(sum, days)]
  BY <1>3
<1> HIDE DEF sum
<1>5. ASSUME NEW days \in SUBSET hours, days # {}
      PROVE  \E x \in days : /\ sum[days] = InDay(x, from, to) + sum[days \ {x}]
                            /\ count[days] = InDay(x, from, to) + count[days \ {x}]
  <2> DEFINE x == CHOOSE d \in days : TRUE
  <2>1. x \in days
    BY <1>5
  <2>2. sum[days] = Sum(sum, days) /\ count[days] = Sum(count, days)
    BY <1>2, <1>4
  <2>3. /\ Sum(sum, days) = InDay(x, from, to) + sum[days \ {x}]
        /\ Sum(count, days) = InDay(x, from, to) + count[days \ {x}]
    BY <1>5
  <2> HIDE DEF x, Sum
  <2> QED BY <2>1, <2>2, <2>3
<1>6. sum[hours] = count[hours]
  <2> DEFINE Differs == {days \in SUBSET hours : sum[days] # count[days]}
  <2> SUFFICES ASSUME Differs # {} PROVE FALSE
    OBVIOUS
  <2>1. IsFiniteSet(hours)
    BY HoursAssumption
  <2>2. IsWellFoundedOn(StrictSubsetOrdering(hours), FiniteSubsetsOf(hours))
    BY FS_StrictSubsetOrderingWellFounded
  <2>3. FiniteSubsetsOf(hours) = SUBSET hours
    BY <2>1, FS_FiniteSubsetsOfFinite
  <2>4. PICK days \in Differs : \A fewer \in Differs : ~(<<fewer, days>> \in StrictSubsetOrdering(hours))
    <3>1. Differs \subseteq SUBSET hours /\ Differs # {}
      OBVIOUS
    <3> HIDE DEF Differs
    <3> QED BY <2>2, <2>3, <3>1, WFMin
  <2>5. days # {}
    BY <1>2, <1>4
  <2>6. PICK x \in days : /\ sum[days] = InDay(x, from, to) + sum[days \ {x}]
                         /\ count[days] = InDay(x, from, to) + count[days \ {x}]
    BY <1>5, <2>5
  <2>7. <<days \ {x}, days>> \in StrictSubsetOrdering(hours)
    BY DEF StrictSubsetOrdering
  <2>8. sum[days \ {x}] = count[days \ {x}]
    BY <2>4, <2>7
  <2> QED BY <2>6, <2>8
<1>7. count[hours] = Cardinality(InDays(hours, from, to))
  BY DEF count
<1> QED BY <1>1, <1>6, <1>7

(* So is the age of a value, as series.age computes it, from zero up.      *)
LEMMA OpenMomentsIs ==
    ASSUME hours \in HoursChoices, NEW from \in Int, NEW to \in Int
    PROVE  /\ OpenMoments(from, to) \in Nat
           /\ hours = NoHours => OpenMoments(from, to) = Larger(to - from, 0)
           /\ hours # NoHours => OpenMoments(from, to) = OpenTime(from, to)
<1> DEFINE moments == {t \in from .. to - 1 :
                           hours = NoHours \/ \E d \in hours : d.opens <= t /\ t < d.closes}
<1>1. to - 1 \in Int
  OBVIOUS
<1>2. IsFiniteSet(from .. to - 1) /\ Cardinality(from .. to - 1) = IF from > to - 1 THEN 0 ELSE to - 1 - from + 1
  BY <1>1, FS_Interval
<1>3. OpenMoments(from, to) = Cardinality(moments)
  BY DEF OpenMoments
<1>4. Cardinality(moments) \in Nat
  <2>1. moments \in SUBSET (from .. to - 1)
    OBVIOUS
  <2> HIDE DEF moments
  <2> QED BY <1>2, <2>1, FS_Subset, FS_CardinalityType
<1>5. ASSUME hours = NoHours PROVE Cardinality(moments) = Larger(to - from, 0)
  <2>1. moments = from .. to - 1
    BY <1>5
  <2> HIDE DEF moments
  <2>2. Cardinality(moments) = IF from > to - 1 THEN 0 ELSE to - 1 - from + 1
    BY <1>2, <2>1
  <2> QED BY <2>2 DEF Larger
<1>6. ASSUME hours # NoHours PROVE Cardinality(moments) = OpenTime(from, to)
  <2>1. moments = InDays(hours, from, to)
    BY <1>6 DEF InDays
  <2>2. CASE from < to
    BY <2>1, <2>2, OpenTimeIs
  <2>3. CASE to <= from
    <3>1. moments = {}
      BY <2>3
    <3>2. OpenTime(from, to) = 0
      BY <2>3 DEF OpenTime
    <3> HIDE DEF moments
    <3> QED BY <3>1, <3>2, FS_EmptySet
  <2> QED BY <2>2, <2>3
<1> QED BY <1>3, <1>4, <1>5, <1>6

LEMMA AgeIs ==
    ASSUME hours \in HoursChoices, NEW asOf \in Int, NEW moment \in Int
    PROVE  /\ Age(asOf, moment) \in Int
           /\ OpenMoments(asOf, moment) <= Larger(Age(asOf, moment), 0)
<1>1. CASE hours = NoHours
  <2>1. Age(asOf, moment) = moment - asOf
    BY <1>1 DEF Age
  <2>2. OpenMoments(asOf, moment) = Larger(moment - asOf, 0)
    BY <1>1, OpenMomentsIs
  <2> QED BY <2>1, <2>2 DEF Larger
<1>2. CASE hours # NoHours
  <2>1. Age(asOf, moment) = OpenTime(asOf, moment)
    BY <1>2 DEF Age
  <2>2. OpenMoments(asOf, moment) = OpenTime(asOf, moment) /\ OpenMoments(asOf, moment) \in Nat
    BY <1>2, OpenMomentsIs
  <2> QED BY <2>1, <2>2 DEF Larger
<1> QED BY <1>1, <1>2

(* While time passes a value gets no older than by that time.              *)
LEMMA AgesWithTime ==
    ASSUME NEW from \in Int, NEW to \in Int, NEW later \in Int, to <= later
    PROVE  /\ OpenMoments(from, to) \in Nat /\ OpenMoments(from, later) \in Nat
           /\ OpenMoments(from, later) <= OpenMoments(from, to) + (later - to)
<1> DEFINE Open(t) == hours = NoHours \/ \E d \in hours : d.opens <= t /\ t < d.closes
           old == {t \in from .. to - 1 : Open(t)}
           new == {t \in from .. later - 1 : Open(t)}
<1> HIDE DEF Open
<1>1. to - 1 \in Int /\ later - 1 \in Int
  OBVIOUS
<1>2. IsFiniteSet(from .. to - 1) /\ IsFiniteSet(from .. later - 1)
      /\ IsFiniteSet(to .. later - 1) /\ Cardinality(to .. later - 1) = later - to
  <2>1. IsFiniteSet(from .. to - 1) /\ IsFiniteSet(from .. later - 1)
    BY <1>1, FS_Interval
  <2>2. /\ IsFiniteSet(to .. later - 1)
        /\ Cardinality(to .. later - 1) = IF to > later - 1 THEN 0 ELSE later - 1 - to + 1
    BY <1>1, FS_Interval
  <2> QED BY <2>1, <2>2
<1>3. old \in SUBSET (from .. to - 1) /\ new \in SUBSET (from .. later - 1)
      /\ new \in SUBSET (old \cup (to .. later - 1))
  OBVIOUS
<1>4. OpenMoments(from, to) = Cardinality(old) /\ OpenMoments(from, later) = Cardinality(new)
  BY DEF OpenMoments, Open
<1> HIDE DEF old, new
<1>5. IsFiniteSet(old) /\ IsFiniteSet(new)
  BY <1>2, <1>3, FS_Subset
<1>6. /\ IsFiniteSet(old \cup (to .. later - 1))
      /\ Cardinality(old \cup (to .. later - 1))
             = Cardinality(old) + (later - to) - Cardinality(old \cap (to .. later - 1))
  BY <1>2, <1>5, FS_Union
<1>7. Cardinality(old \cap (to .. later - 1)) \in Nat
  BY <1>5, FS_Intersection, FS_CardinalityType
<1>8. Cardinality(new) <= Cardinality(old \cup (to .. later - 1))
  BY <1>3, <1>6, FS_Subset
<1>9. Cardinality(old) \in Nat /\ Cardinality(new) \in Nat
  BY <1>5, FS_CardinalityType
<1> QED BY <1>4, <1>6, <1>7, <1>8, <1>9

LEMMA AnswerFresh == IInv /\ Answer => Fresh'
<1> SUFFICES ASSUME IInv, pc = "fetching", UNCHANGED <<hours, now, asked>>,
                    NEW value \in Values, NEW said \in AsOfs(hours),
                    LET asOf == IF said = FetchedAt THEN Stamp ELSE said
                        problem == Problem(value, asOf, Stamp)
                    IN  \/ AgeRaises(asOf) /\ pc' = "overflow"
                           /\ UNCHANGED <<awaitedAt, observations, sent>>
                        \/ ~AgeRaises(asOf) /\ problem = "none" /\ Observe(Accepted(asOf))
                        \/ ~AgeRaises(asOf) /\ problem # "none" /\ Observe(Rejected(problem)),
                    pc' = "sending"
             PROVE  Fresh'
  BY DEF Answer, Fresh
<1> DEFINE asOf == IF said = FetchedAt THEN Stamp ELSE said
           problem == Problem(value, asOf, Stamp)
<1>1. /\ asOf \in Int /\ now \in Int /\ hours \in HoursChoices /\ sent \in Seq(Int)
      /\ ClockSkew \in Int /\ MaxAge \in Nat /\ MaxSend \in Nat
  BY TimesAssumption DEF Stamp, IInv, TypeOK
<1>2. sent = <<>>
  BY DEF IInv
<1>3. problem = "none" /\ Observe(Accepted(asOf))
  <2>1. ~(pc' = "overflow")
    OBVIOUS
  <2>2. problem # "none" => ~Observe(Rejected(problem))
    <3> HIDE DEF problem
    <3> QED BY DEF Observe, GoesOn, Rejected
  <2> HIDE DEF asOf, problem
  <2> QED BY <2>1, <2>2 DEF asOf, problem
<1>4. asOf <= now + ClockSkew /\ Age(asOf, now) <= MaxAge
  <2>1. ~(asOf > now + ClockSkew) /\ ~(Age(asOf, now) > MaxAge)
    <3> HIDE DEF asOf
    <3> QED BY <1>3 DEF Problem, Stamp, problem
  <2>2. Age(asOf, now) \in Int
    BY <1>1, AgeIs
  <2> HIDE DEF asOf
  <2> QED BY <1>1, <2>1, <2>2
<1> HIDE DEF asOf, problem
<1>5. OpenMoments(asOf, now) \in Nat /\ OpenMoments(asOf, now) <= MaxAge
  <2>1. /\ OpenMoments(asOf, now) \in Nat
        /\ OpenMoments(asOf, now) <= Larger(Age(asOf, now), 0)
        /\ Age(asOf, now) \in Int
    BY <1>1, AgeIs, OpenMomentsIs
  <2> QED BY <1>1, <1>4, <2>1 DEF Larger
<1>6. awaitedAt' = now /\ sent' = Append(sent, asOf)
  BY <1>3 DEF Observe, GoesOn, Accepted
<1>7. Last(sent') = asOf
  <2>1. Append(sent, asOf) = <<asOf>>
    BY <1>1, <1>2
  <2> QED BY <1>6, <2>1 DEF Last
<1>8. now' = now /\ hours' = hours
  OBVIOUS
<1>9. OpenMoments(Last(sent), awaitedAt)' = OpenMoments(asOf, now)
  BY <1>6, <1>7, <1>8 DEF OpenMoments
<1> QED BY <1>1, <1>4, <1>5, <1>6, <1>7, <1>8, <1>9 DEF Fresh

LEMMA WaitFresh == IInv /\ Fresh /\ (Tick \/ UNCHANGED vars) => Fresh'
<1> SUFFICES ASSUME IInv, Fresh, Tick \/ UNCHANGED vars, pc' = "sending" PROVE Fresh'
  BY DEF Fresh
<1>1. now \in Nat /\ awaitedAt \in Nat /\ MaxSend \in Nat
  BY TimesAssumption DEF IInv, TypeOK
<1>2. /\ UNCHANGED <<hours, pc, awaitedAt, asked, observations, sent>> /\ pc = "sending"
      /\ now' \in {now, now + 1} /\ (now' = now + 1 => now < awaitedAt + MaxSend)
  BY <1>1 DEF Tick, vars
<1>3. OpenMoments(Last(sent), awaitedAt)' = OpenMoments(Last(sent), awaitedAt)
  BY <1>2 DEF OpenMoments
<1> QED BY <1>1, <1>2, <1>3 DEF Fresh

(* A published value is no older than max_age when its send begins, and no *)
(* older than that and a send when it ends, in the open time that          *)
(* series.age counts, however long the fetches took (collect.py,           *)
(* scheduler.py); nor from further in the future than the skew.            *)
THEOREM Freshness == Spec => []SentIsFresh
<1>1. Init => Fresh
  BY DEF Init, Fresh
<1>2. IInv /\ Fresh /\ [Next]_vars => Fresh'
  <2> SUFFICES ASSUME IInv, Fresh, [Next]_vars PROVE Fresh'
    OBVIOUS
  <2>1. CASE RequestFails \/ FetchFails \/ ParseFails
    <3>1. pc' # "sending"
      BY <2>1 DEF RequestFails, FetchFails, ParseFails, Observe, GoesOn, Rejected
    <3> QED BY <3>1 DEF Fresh
  <2>2. CASE Ask \/ FetchRaises \/ SendEnds \/ Cancel
    <3>1. pc' # "sending"
      BY <2>2 DEF Ask, FetchRaises, SendEnds, AfterSend, Cancel
    <3> QED BY <3>1 DEF Fresh
  <2> QED BY <2>1, <2>2, AnswerFresh, WaitFresh DEF Next, Run
<1>3. IInv /\ Fresh => SentIsFresh
  <2> SUFFICES ASSUME IInv, Fresh, pc = "sending"
               PROVE  /\ OpenMoments(Last(sent), now) <= MaxAge + MaxSend
                      /\ Last(sent) <= awaitedAt + ClockSkew
    BY DEF SentIsFresh
  <2>1. now \in Nat /\ awaitedAt \in Nat /\ MaxSend \in Nat /\ MaxAge \in Nat
    BY TimesAssumption DEF IInv, TypeOK
  <2>2. Last(sent) \in Int
    <3>1. sent \in Seq(Int) /\ sent # <<>>
      BY DEF IInv, TypeOK
    <3> QED BY <3>1 DEF Last
  <2>3. /\ awaitedAt <= now /\ now <= awaitedAt + MaxSend
        /\ OpenMoments(Last(sent), awaitedAt) <= MaxAge
        /\ Last(sent) <= awaitedAt + ClockSkew
    BY DEF Fresh
  <2>4. /\ OpenMoments(Last(sent), awaitedAt) \in Nat /\ OpenMoments(Last(sent), now) \in Nat
        /\ OpenMoments(Last(sent), now) <= OpenMoments(Last(sent), awaitedAt) + (now - awaitedAt)
    BY <2>1, <2>2, <2>3, AgesWithTime
  <2> QED BY <2>1, <2>3, <2>4
<1> QED BY <1>1, <1>2, <1>3, Invariance, PTL DEF Spec

=============================================================================
