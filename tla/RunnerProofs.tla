---------------------------- MODULE RunnerProofs ----------------------------
(***************************************************************************)
(* The runner for any series, number of runs, stops and rotation: it       *)
(* implements Publication, what its log says is held is held, and a stop   *)
(* is final. IInv of Runner is the inductive invariant of all of them.     *)
(***************************************************************************)
EXTENDS Runner, TLAPS

USE DEF process, loop, send, cuantoCuesta, history

(* The state that types a request's fields, and a run's number.            *)
LEMMA TypedRequests ==
    ASSUME TypeOK, NEW request \in net
    PROVE  /\ request.series \in Series /\ request.run \in Nat /\ request.asOf \in Nat
           /\ request.asOf > 0 /\ request.run > 0
           /\ request.run <= MaxRuns[request.series]
           /\ request.asOf <= MaxRuns[request.series]
BY RunnerAssumption DEF TypeOK

(* A run that ends, with or without its value lost, has not lost one yet.  *)
LEMMA LossesAfter ==
    ASSUME TypeOK, OneLossPerRun, NEW s \in Series, Underway(s), Loses(s) \/ UNCHANGED lost
    PROVE  /\ lost' \in [Series -> Nat]
           /\ \A r \in Series : lost'[r] <= runs[r]
           /\ \A r \in Series \ {s} : lost'[r] = lost[r]
<1>1. lost \in [Series -> Nat] /\ runs \in [Series -> Nat]
  BY DEF TypeOK
<1>2. CASE lost' = lost
  BY <1>1, <1>2 DEF OneLossPerRun
<1>3. CASE lost' = [lost EXCEPT ![s] = @ + 1]
  BY <1>1, <1>3 DEF OneLossPerRun
<1> QED BY <1>2, <1>3 DEF Loses

----------------------------------------------------------------------------
(* Each part of IInv is preserved.                                         *)

LEMMA MainType == IInv /\ Main => TypeOK'
<1> SUFFICES ASSUME IInv, Main PROVE TypeOK'
  OBVIOUS
<1> USE RunnerAssumption DEF IInv, TypeOK, MainLocations, TaskLocations, Answers
<1>1. CASE Start
  BY <1>1 DEF Start, CancelledTasksEnd, UnderLimit, Tasks
<1>2. CASE CancelTasks
  BY <1>2 DEF CancelTasks, UnderLimit
<1>3. CASE Gather
  BY <1>3 DEF Gather, UnderLimit
<1>4. CASE Exit
  BY <1>4 DEF Exit, UnderLimit
<1> QED BY <1>1, <1>2, <1>3, <1>4 DEF Main

LEMMA OperatorType == IInv /\ (Operator \/ ComeUp) => TypeOK'
<1> SUFFICES ASSUME IInv, Operator \/ ComeUp PROVE TypeOK'
  OBVIOUS
<1> USE RunnerAssumption DEF IInv, TypeOK, MainLocations, TaskLocations, Answers
<1>1. CASE Signal
  BY <1>1 DEF Signal, UnderLimit
<1>2. CASE Kill
  <2>1. /\ tasks' \in [Tasks -> TaskLocations]
        /\ \A s \in Series : tasks'[s] = "ended" /\ value'[s] = 0
        /\ value' \in [Series -> Nat] /\ answer' \in [Series -> Answers \union {"none"}]
    BY <1>2 DEF Kill, Tasks
  <2>2. restarts' \in 0 .. MaxRestarts
    BY <1>2 DEF Kill
  <2> QED BY <1>2, <2>1, <2>2 DEF Kill, UnderLimit
<1>3. CASE RotateToken
  <2>1. token' \in Tokens /\ restarts' \in 0 .. MaxRestarts
    BY <1>3 DEF RotateToken, Tokens
  <2> QED BY <1>3, <2>1 DEF RotateToken, UnderLimit
<1>4. CASE ComeUp
  BY <1>4 DEF ComeUp, UnderLimit
<1> QED BY <1>1, <1>2, <1>3, <1>4 DEF Operator

LEMMA TaskType == IInv /\ Task => TypeOK'
<1> SUFFICES ASSUME IInv, Task PROVE TypeOK'
  OBVIOUS
<1> USE RunnerAssumption DEF IInv, TypeOK, MainLocations, TaskLocations, Answers, OneLossPerRun, Underway
<1>1. CASE Beat
  BY <1>1 DEF Beat, Resumed, UnderLimit, Tasks
<1>2. ASSUME NEW t \in Tasks, Throw(t) PROVE TypeOK'
  <2>1. tasks' = [tasks EXCEPT ![t] = IF UnderLimit(t) THEN "leaving" ELSE "ended"]
    BY <1>2 DEF Throw, UnderLimit
  <2>2. tasks' \in [Tasks -> TaskLocations]
    BY <2>1
  <2>3. \A s \in Series : UnderLimit(s)' <=> UnderLimit(s)
    BY <2>1 DEF UnderLimit, Tasks
  <2>4. \A r \in toThrow' : tasks'[r] # "ended"
    BY <1>2, <2>1 DEF Throw
  <2>5. lost' \in [Series -> Nat] /\ \A s \in Series : lost'[s] <= MaxRuns[s]
    <3>1. CASE lost' = lost
      BY <3>1
    <3>2. CASE lost' # lost
      <4>1. tasks[t] = "collecting" /\ Loses(t)
        BY <1>2, <3>2 DEF Throw
      <4>2. t \in Series
        BY <3>2, <4>1 DEF Loses
      <4>3. lost' \in [Series -> Nat] /\ \A r \in Series : lost'[r] <= runs[r]
        BY <4>1, <4>2, LossesAfter DEF Underway
      <4> QED BY <4>3
    <3> QED BY <3>1, <3>2
  <2>6. toThrow' \subseteq toThrow
        /\ UNCHANGED <<process, expired, send, net, cuantoCuesta, restarts, sent, known>>
    BY <1>2 DEF Throw
  <2> QED BY <2>2, <2>3, <2>4, <2>5, <2>6
<1>3. ASSUME NEW s \in Series, BeginRun(s) PROVE TypeOK'
  BY <1>3 DEF BeginRun, Resumed, UnderLimit, Tasks
<1>4. ASSUME NEW s \in Series, NothingSent(s) PROVE TypeOK'
  BY <1>4 DEF NothingSent, Resumed, UnderLimit, Tasks
<1>5. ASSUME NEW s \in Series, NEW asOf \in {runs[s], runs[s] - 1} \ {0}, Post(s, asOf)
      PROVE  TypeOK'
  BY <1>5 DEF Post, Resumed, UnderLimit, Tasks
<1>6. ASSUME NEW s \in Series, LogAnswer(s) PROVE TypeOK'
  <2>1. /\ lost' \in [Series -> Nat] /\ \A r \in Series : lost'[r] <= MaxRuns[r]
        /\ known' \in [Series -> Nat] /\ \A r \in Series : known'[r] <= MaxRuns[r]
    <3>1. Underway(s) /\ (Loses(s) \/ UNCHANGED lost)
      BY <1>6 DEF LogAnswer, Resumed
    <3>2. lost' \in [Series -> Nat] /\ \A r \in Series : lost'[r] <= runs[r]
      BY <3>1, LossesAfter
    <3>3. known' = known \/ known' = [known EXCEPT ![s] = value[s]]
      BY <1>6 DEF LogAnswer
    <3> QED BY <3>2, <3>3
  <2>2. /\ value' \in [Series -> Nat] /\ \A r \in Series : value'[r] <= MaxRuns[r]
        /\ answer' \in [Series -> Answers \union {"none"}]
        /\ tasks' \in [Tasks -> TaskLocations]
        /\ \A r \in Series : value'[r] # 0 <=> tasks'[r] \in {"sending", "leaving"}
    BY <1>6 DEF LogAnswer, EndSend, Resumed, UnderLimit, Tasks
  <2>3. \A t \in toThrow' : tasks'[t] # "ended"
    BY <1>6 DEF LogAnswer, EndSend, Tasks
  <2> QED BY <1>6, <2>1, <2>2, <2>3 DEF LogAnswer, EndSend, UnderLimit
<1>7. ASSUME NEW s \in Series, NoAnswer(s) PROVE TypeOK'
  BY <1>7 DEF NoAnswer, EndSend, Loses, Resumed, UnderLimit, Tasks
<1>8. ASSUME NEW s \in Series, SendExpires(s) PROVE TypeOK'
  BY <1>8 DEF SendExpires, UnderLimit, Tasks
<1>9. ASSUME NEW s \in Series, LeaveSend(s) PROVE TypeOK'
  BY <1>9 DEF LeaveSend, EndSend, TimedOut, UnderLimit, Tasks
<1> QED BY <1>1, <1>2, <1>3, <1>4, <1>5, <1>6, <1>7, <1>8, <1>9 DEF Task, EndCollect

LEMMA CuantoCuestaType == IInv /\ CuantoCuesta => TypeOK'
<1> SUFFICES ASSUME IInv, CuantoCuesta PROVE TypeOK'
  OBVIOUS
<1> USE RunnerAssumption DEF IInv, TypeOK, MainLocations, TaskLocations, Answers
<1>1. ASSUME NEW request \in net, Take(request) PROVE TypeOK'
  <2>1. answer' \in [Series -> Answers \union {"none"}]
    BY <1>1 DEF Take, Answer
  <2>2. quotes' = quotes \/ quotes' = [quotes EXCEPT ![request.series] = request.asOf]
    BY <1>1 DEF Take
  <2>3. quotes' \in [Series -> Nat] /\ \A s \in Series : quotes'[s] <= MaxRuns[s]
    BY <2>2, TypedRequests
  <2> QED BY <1>1, <2>1, <2>3 DEF Take, UnderLimit
<1>2. ASSUME NEW request \in net, Refuse(request) PROVE TypeOK'
  <2>1. answer' \in [Series -> Answers \union {"none"}]
    BY <1>2 DEF Refuse, Answer
  <2> QED BY <1>2, <2>1 DEF Refuse, UnderLimit
<1>3. ASSUME NEW request \in net, Lose(request) PROVE TypeOK'
  BY <1>3 DEF Lose, UnderLimit
<1>4. CASE ComeUp
  BY <1>4 DEF ComeUp, UnderLimit
<1> QED BY <1>1, <1>2, <1>3, <1>4 DEF CuantoCuesta

LEMMA NextHeld == IInv /\ Next => LoggedIsHeld'
<1> SUFFICES ASSUME IInv, Next PROVE LoggedIsHeld'
  OBVIOUS
<1> USE DEF IInv, TypeOK, LoggedIsHeld, Promise!LoggedIsHeld
<1>1. CASE Main \/ Operator \/ ComeUp
  BY <1>1 DEF Main, Start, CancelTasks, Gather, Exit, Operator, Signal, Kill, RotateToken, ComeUp
<1>2. ASSUME NEW s \in Series, NEW asOf, Post(s, asOf) PROVE LoggedIsHeld'
  BY <1>2 DEF Post
<1>3. ASSUME NEW s \in Series, LogAnswer(s) PROVE LoggedIsHeld'
  <2>1. quotes' = quotes /\ sent' = sent
    BY <1>3 DEF LogAnswer, EndSend
  <2>2. known' = known \/ (known' = [known EXCEPT ![s] = value[s]] /\ answer[s] \in SaysHeld)
    BY <1>3 DEF LogAnswer
  <2>3. answer[s] \in SaysHeld => value[s] <= quotes[s]
    BY DEF AnswersAreTrue
  <2> QED BY <2>1, <2>2, <2>3
<1>4. CASE Beat \/ \E t \in Tasks : Throw(t)
  BY <1>4 DEF Beat, Throw
<1>5. ASSUME NEW s \in Series,
             BeginRun(s) \/ NothingSent(s) \/ NoAnswer(s) \/ SendExpires(s) \/ LeaveSend(s)
      PROVE  LoggedIsHeld'
  BY <1>5 DEF BeginRun, NothingSent, NoAnswer, SendExpires, LeaveSend, EndSend
<1>6. ASSUME NEW request \in net, Take(request) PROVE LoggedIsHeld'
  <2>1. known' = known /\ sent' = sent
    BY <1>6 DEF Take
  <2>2. \/ quotes' = quotes
        \/ /\ quotes' = [quotes EXCEPT ![request.series] = request.asOf]
           /\ request.asOf > quotes[request.series]
    BY <1>6 DEF Take, Newer
  <2>3. request.asOf \in sent[request.series]
    BY DEF RequestsAreOfRuns
  <2> QED BY <2>1, <2>2, <2>3, TypedRequests
<1>7. ASSUME NEW request \in net, Refuse(request) \/ Lose(request) PROVE LoggedIsHeld'
  BY <1>7 DEF Refuse, Lose
<1> QED BY <1>1, <1>2, <1>3, <1>4, <1>5, <1>6, <1>7 DEF Next, Task, EndCollect, CuantoCuesta

LEMMA NextRequests == IInv /\ Next => RequestsAreOfRuns'
<1> SUFFICES ASSUME IInv, Next PROVE RequestsAreOfRuns'
  OBVIOUS
<1> USE DEF IInv, TypeOK, RequestsAreOfRuns, UnderLimit
<1>1. CASE Main \/ Operator \/ ComeUp
  <2>1. net' = net /\ sent' = sent /\ runs' = runs
    BY <1>1 DEF Main, Start, CancelTasks, Gather, Exit, Operator, Signal, Kill, RotateToken, ComeUp
  <2>2. \/ tasks' = tasks /\ value' = value
        \/ \A s \in Series : tasks'[s] \in {"new", "ended"}
    BY <1>1 DEF Main, Start, CancelTasks, Gather, Exit, Operator, Signal, Kill, RotateToken,
                ComeUp, Tasks
  <2> QED BY <2>1, <2>2
<1>2. ASSUME NEW s \in Series, NEW asOf, Post(s, asOf) PROVE RequestsAreOfRuns'
  BY <1>2 DEF Post, Resumed, Tasks
<1>3. ASSUME NEW s \in Series, BeginRun(s) PROVE RequestsAreOfRuns'
  BY <1>3 DEF BeginRun, Resumed, Tasks
<1>4. ASSUME NEW s \in Series, LogAnswer(s) \/ NoAnswer(s) \/ LeaveSend(s)
      PROVE  RequestsAreOfRuns'
  BY <1>4 DEF LogAnswer, NoAnswer, LeaveSend, EndSend, Tasks
<1>5. ASSUME NEW s \in Series, NothingSent(s) \/ SendExpires(s) PROVE RequestsAreOfRuns'
  BY <1>5 DEF NothingSent, SendExpires, Tasks
<1>6. CASE Beat \/ \E t \in Tasks : Throw(t)
  BY <1>6 DEF Beat, Throw, Resumed, Tasks
<1>7. ASSUME NEW request \in net, Take(request) \/ Refuse(request) \/ Lose(request)
      PROVE  RequestsAreOfRuns'
  BY <1>7 DEF Take, Refuse, Lose
<1> QED BY <1>1, <1>2, <1>3, <1>4, <1>5, <1>6, <1>7 DEF Next, Task, EndCollect, CuantoCuesta

LEMMA NextAnswers == IInv /\ Next => AnswersAreTrue'
<1> SUFFICES ASSUME IInv, Next PROVE AnswersAreTrue'
  OBVIOUS
<1> USE DEF IInv, TypeOK, AnswersAreTrue, UnderLimit, SaysHeld
<1>1. CASE Main \/ Operator \/ ComeUp
  <2>1. quotes' = quotes
    BY <1>1 DEF Main, Start, CancelTasks, Gather, Exit, Operator, Signal, Kill, RotateToken, ComeUp
  <2>2. \/ tasks' = tasks /\ value' = value /\ answer' = answer
        \/ \A s \in Series : answer'[s] = "none"
    BY <1>1 DEF Main, Start, CancelTasks, Gather, Exit, Operator, Signal, Kill, RotateToken,
                ComeUp, CancelledTasksEnd, Tasks
  <2> QED BY <2>1, <2>2
<1>2. ASSUME NEW s \in Series, NEW asOf, Post(s, asOf) PROVE AnswersAreTrue'
  BY <1>2 DEF Post, Resumed, Tasks
<1>3. ASSUME NEW s \in Series, BeginRun(s) \/ NothingSent(s) \/ SendExpires(s)
      PROVE  AnswersAreTrue'
  BY <1>3 DEF BeginRun, NothingSent, SendExpires, Resumed, Tasks
<1>4. ASSUME NEW s \in Series, LogAnswer(s) \/ NoAnswer(s) \/ LeaveSend(s)
      PROVE  AnswersAreTrue'
  BY <1>4 DEF LogAnswer, NoAnswer, LeaveSend, EndSend, Tasks
<1>5. CASE Beat \/ \E t \in Tasks : Throw(t)
  BY <1>5 DEF Beat, Throw, Resumed, Tasks
<1>6. ASSUME NEW request \in net, Take(request) PROVE AnswersAreTrue'
  <2> DEFINE s == request.series
  <2>1. \A r \in Series : quotes[r] <= quotes'[r]
    BY <1>6, TypedRequests DEF Take, Newer
  <2>2. quotes'[s] >= request.asOf
    BY <1>6, TypedRequests DEF Take, Newer
  <2>3. \/ answer' = answer
        \/ /\ tasks[s] = "sending" /\ request.run = runs[s]
           /\ \A r \in Series \ {s} : answer'[r] = answer[r]
    BY <1>6 DEF Take, Answer
  <2>4. tasks[s] = "sending" /\ request.run = runs[s] => value[s] = request.asOf
    BY DEF RequestsAreOfRuns
  <2>5. tasks' = tasks /\ value' = value
    BY <1>6 DEF Take
  <2>6. quotes' \in [Series -> Nat]
    BY <1>6, TypedRequests DEF Take
  <2> QED BY <2>1, <2>2, <2>3, <2>4, <2>5, <2>6
<1>7. ASSUME NEW request \in net, Refuse(request) PROVE AnswersAreTrue'
  <2>1. \/ answer' = answer
        \/ /\ tasks[request.series] = "sending"
           /\ answer'[request.series] \notin SaysHeld
           /\ \A r \in Series \ {request.series} : answer'[r] = answer[r]
    BY <1>7 DEF Refuse, Answer
  <2> QED BY <1>7, <2>1 DEF Refuse
<1>8. ASSUME NEW request \in net, Lose(request) PROVE AnswersAreTrue'
  BY <1>8 DEF Lose
<1> QED BY <1>1, <1>2, <1>3, <1>4, <1>5, <1>6, <1>7, <1>8 DEF Next, Task, EndCollect, CuantoCuesta

LEMMA NextCancelled == IInv /\ Next => CancelledTasksEnd'
<1> SUFFICES ASSUME IInv, Next PROVE CancelledTasksEnd'
  OBVIOUS
<1> USE DEF IInv, TypeOK, CancelledTasksEnd
<1>1. CASE Main
  BY <1>1 DEF Main, Start, CancelTasks, Gather, Gathered, Exit
<1>2. CASE Operator \/ CuantoCuesta
  BY <1>2 DEF Operator, Signal, Kill, RotateToken, CuantoCuesta, Take, Refuse, Lose, ComeUp
<1>3. CASE Beat
  BY <1>3 DEF Beat, Resumed, Tasks
<1>4. ASSUME NEW t \in Tasks, Throw(t) PROVE CancelledTasksEnd'
  BY <1>4 DEF Throw
<1>5. ASSUME NEW s \in Series, SendExpires(s) PROVE CancelledTasksEnd'
  BY <1>5 DEF SendExpires
<1>6. ASSUME NEW s \in Series, LeaveSend(s) PROVE CancelledTasksEnd'
  BY <1>6 DEF LeaveSend, EndSend, TimedOut, Tasks
<1>7. ASSUME NEW s \in Series,
             BeginRun(s) \/ NothingSent(s) \/ LogAnswer(s) \/ NoAnswer(s)
             \/ \E asOf \in {runs[s], runs[s] - 1} \ {0} : Post(s, asOf)
      PROVE  CancelledTasksEnd'
  <2>1. main \notin {"gathering", "closing", "down"}
    BY <1>7 DEF BeginRun, NothingSent, LogAnswer, NoAnswer, Post, Resumed, Tasks
  <2>2. main' = main
    BY <1>7 DEF BeginRun, NothingSent, LogAnswer, NoAnswer, Post, EndSend
  <2> QED BY <2>1, <2>2
<1> QED BY <1>1, <1>2, <1>3, <1>4, <1>5, <1>6, <1>7 DEF Next, Task, EndCollect

LEMMA NextLosses == IInv /\ Next => OneLossPerRun'
<1> SUFFICES ASSUME IInv, Next PROVE OneLossPerRun'
  OBVIOUS
<1> USE DEF IInv, TypeOK, OneLossPerRun, Underway
<1>1. CASE Main \/ Operator
  BY <1>1 DEF Main, Start, CancelTasks, Gather, Exit, Operator, Signal, Kill, RotateToken, Tasks
<1>2. CASE CuantoCuesta
  BY <1>2 DEF CuantoCuesta, Take, Refuse, Lose, ComeUp
<1>3. CASE Beat
  BY <1>3 DEF Beat, Resumed, Tasks
<1>4. ASSUME NEW t \in Tasks, Throw(t) PROVE OneLossPerRun'
  <2>1. runs' = runs /\ \A s \in Series \ {t} : tasks'[s] = tasks[s]
    BY <1>4 DEF Throw, Tasks
  <2>2. CASE tasks[t] = "collecting"
    <3>1. tasks'[t] = "ended" /\ Loses(t)
      BY <1>4, <2>2 DEF Throw
    <3>2. CASE t \in Series
      BY <2>1, <2>2, <3>1, <3>2, LossesAfter
    <3>3. CASE t \notin Series
      BY <2>1, <3>1, <3>3 DEF Loses
    <3> QED BY <3>2, <3>3
  <2>3. CASE tasks[t] # "collecting"
    BY <1>4, <2>1, <2>3 DEF Throw
  <2> QED BY <2>2, <2>3
<1>5. ASSUME NEW s \in Series, BeginRun(s) PROVE OneLossPerRun'
  BY <1>5 DEF BeginRun, Tasks
<1>6. ASSUME NEW s \in Series, NEW asOf, NothingSent(s) \/ Post(s, asOf) \/ SendExpires(s)
      PROVE  OneLossPerRun'
  BY <1>6 DEF NothingSent, Post, SendExpires, Resumed, Tasks
<1>7. ASSUME NEW s \in Series, LogAnswer(s) \/ NoAnswer(s) \/ LeaveSend(s)
      PROVE  OneLossPerRun'
  <2>1. Underway(s) /\ (Loses(s) \/ UNCHANGED lost)
    BY <1>7 DEF LogAnswer, NoAnswer, LeaveSend, Resumed
  <2>2. runs' = runs /\ tasks'[s] \in {"waiting", "ended"}
        /\ \A r \in Series \ {s} : tasks'[r] = tasks[r]
    BY <1>7 DEF LogAnswer, NoAnswer, LeaveSend, EndSend, Tasks
  <2> QED BY <2>1, <2>2, LossesAfter
<1> QED BY <1>1, <1>2, <1>3, <1>4, <1>5, <1>6, <1>7 DEF Next, Task, EndCollect

----------------------------------------------------------------------------
(* IInv is an invariant, and what follows from it.                         *)

LEMMA InitIInv == Init => IInv
<1> SUFFICES ASSUME Init PROVE IInv
  OBVIOUS
<1>1. /\ \A t \in Tasks : tasks[t] = "ended"
      /\ \A s \in Series : runs[s] = 0 /\ value[s] = 0 /\ answer[s] = "none"
      /\ \A s \in Series : quotes[s] = 0 /\ known[s] = 0 /\ lost[s] = 0
  BY DEF Init
<1>2. \A s \in Series : ~UnderLimit(s) /\ ~Underway(s)
  BY <1>1 DEF UnderLimit, Underway, Tasks
<1>3. TypeOK
  <2>1. {runs, value, quotes, known, lost} \subseteq [Series -> Nat]
    BY DEF Init
  <2>2. \A s \in Series : 0 \in 0 .. MaxRuns[s]
    BY RunnerAssumption
  <2>3. \A s \in Series : {runs[s], value[s], quotes[s], known[s], lost[s]} = {0}
    BY <1>1
  <2>4. /\ main \in MainLocations /\ stop \in BOOLEAN /\ up \in BOOLEAN
        /\ held \in Tokens /\ token \in Tokens
        /\ tasks \in [Tasks -> TaskLocations] /\ toThrow = {} /\ expired = {} /\ net = {}
        /\ answer \in [Series -> Answers \union {"none"}]
        /\ sent \in [Series -> SUBSET UNION {1 .. MaxRuns[s] : s \in Series}]
    BY DEF Init, MainLocations, TaskLocations, Tokens
  <2>5. restarts \in 0 .. MaxRestarts
    BY RunnerAssumption DEF Init
  <2> QED BY <1>1, <1>2, <2>1, <2>2, <2>3, <2>4, <2>5 DEF TypeOK
<1>4. LoggedIsHeld
  <2>1. ASSUME NEW s \in Series PROVE known[s] <= quotes[s] /\ quotes[s] = 0
    <3>1. known[s] = 0 /\ quotes[s] = 0
      BY <1>1
    <3> QED BY <3>1
  <2> QED BY <2>1 DEF LoggedIsHeld, Promise!LoggedIsHeld
<1>5. RequestsAreOfRuns
  BY DEF Init, RequestsAreOfRuns
<1>6. AnswersAreTrue
  BY <1>1 DEF AnswersAreTrue, SaysHeld
<1>7. CancelledTasksEnd
  BY <1>1 DEF Init, CancelledTasksEnd
<1>8. OneLossPerRun
  <2>1. ASSUME NEW s \in Series PROVE lost[s] <= runs[s] /\ ~Underway(s)
    <3>1. lost[s] = 0 /\ runs[s] = 0
      BY <1>1
    <3> QED BY <1>2, <3>1
  <2> QED BY <2>1 DEF OneLossPerRun
<1> QED BY <1>3, <1>4, <1>5, <1>6, <1>7, <1>8 DEF IInv

(* The part of IInv that a step leaves alone when nothing changes.         *)
LEMMA StutterIInv == IInv /\ UNCHANGED vars => IInv'
BY DEF vars, IInv, TypeOK, LoggedIsHeld, Promise!LoggedIsHeld, RequestsAreOfRuns, AnswersAreTrue,
       CancelledTasksEnd, OneLossPerRun, Underway, UnderLimit

(* The inductive invariant holds whatever the tasks, the stops and the     *)
(* requests do.                                                            *)
THEOREM Invariance == Spec => []IInv
<1>1. IInv /\ Next => IInv'
  <2> SUFFICES ASSUME IInv, Next PROVE IInv'
    OBVIOUS
  <2>1. TypeOK'
    BY MainType, OperatorType, TaskType, CuantoCuestaType DEF Next
  <2> QED BY <2>1, NextHeld, NextRequests, NextAnswers, NextCancelled, NextLosses DEF IInv
<1>2. IInv /\ [Next]_vars => IInv'
  BY <1>1, StutterIInv
<1> QED BY InitIInv, <1>2, PTL DEF Spec

(* Type correctness of the process, the requests and cuanto-cuesta.        *)
THEOREM Typing == Spec => []TypeOK
<1>1. IInv => TypeOK
  BY DEF IInv
<1> QED BY <1>1, Invariance, PTL

(* "older", "unchanged" and "stored" may be believed: what such a line of  *)
(* the log says cuanto-cuesta holds, it holds for good.                    *)
THEOREM Held == Spec => []LoggedIsHeld
<1>1. IInv => LoggedIsHeld
  BY DEF IInv
<1> QED BY <1>1, Invariance, PTL

(* After the tasks are cancelled no run begins, nothing is posted, and the *)
(* client is closed only when all of them are over.                        *)
THEOREM Final == Spec => StopIsFinal
<1>1. IInv /\ [Next]_vars =>
        [main # "waiting" =>
            /\ runs' = runs /\ sent' = sent
            /\ main' = "closing" => \A t \in Tasks : tasks[t] = "ended"]_vars
  <2> SUFFICES ASSUME IInv, Next, main # "waiting"
               PROVE  /\ runs' = runs /\ sent' = sent
                      /\ main' = "closing" => \A t \in Tasks : tasks[t] = "ended"
    OBVIOUS
  <2> USE DEF IInv, TypeOK, CancelledTasksEnd, MainLocations
  <2>1. CASE Main
    BY <2>1 DEF Main, Start, CancelTasks, Gather, Gathered, Exit
  <2>2. CASE Operator \/ CuantoCuesta
    BY <2>2 DEF Operator, Signal, Kill, RotateToken, CuantoCuesta, Take, Refuse, Lose, ComeUp
  <2>3. CASE Task
    <3>1. main' = main
      BY <2>3 DEF Task, Beat, Throw, BeginRun, EndCollect, NothingSent, Post, LogAnswer, NoAnswer,
                  SendExpires, LeaveSend, EndSend
    <3>2. \A s \in Series :
            ~BeginRun(s) /\ \A asOf \in {runs[s], runs[s] - 1} \ {0} : ~Post(s, asOf)
      BY DEF BeginRun, Post, Resumed, Tasks
    <3>3. runs' = runs /\ sent' = sent
      BY <2>3, <3>2 DEF Task, Beat, Throw, EndCollect, NothingSent, LogAnswer, NoAnswer,
                        SendExpires, LeaveSend, EndSend
    <3> QED BY <3>1, <3>3
  <2> QED BY <2>1, <2>2, <2>3 DEF Next
<1> QED BY <1>1, Invariance, PTL DEF Spec, StopIsFinal

----------------------------------------------------------------------------
(* The refinement.                                                         *)

(* A send that is over without a line that says the reading is held.       *)
LEMMA EndSendDrops ==
    ASSUME TypeOK, NEW s \in Series, NEW location, EndSend(s, location),
           known' = known
    PROVE  Promise!Next
<1>1. value' = [r \in Series |-> IF r \in {s} THEN 0 ELSE value[r]]
  BY DEF TypeOK, EndSend
<1>2. Promise!Drop({s})
  BY <1>1 DEF EndSend, Promise!Drop
<1> QED BY <1>2 DEF Promise!Next

LEMMA LogAnswerKeeps ==
    ASSUME IInv, NEW s \in Series, LogAnswer(s)
    PROVE  Promise!Next
<1>1. TypeOK /\ EndSend(s, "waiting")
  BY DEF IInv, LogAnswer
<1>2. CASE answer[s] \in SaysHeld
  <2>1. 0 < value[s] /\ value[s] <= quotes[s]
    BY <1>1, <1>2 DEF IInv, TypeOK, AnswersAreTrue, LogAnswer, Resumed, UnderLimit
  <2>2. known' = [known EXCEPT ![s] = IF value[s] > @ THEN value[s] ELSE @]
    BY <1>1, <1>2 DEF LogAnswer, TypeOK
  <2>3. value' = [value EXCEPT ![s] = 0] /\ sent' = sent /\ quotes' = quotes
    BY <1>1 DEF EndSend
  <2>4. Promise!TellHeld(s)
    BY <2>1, <2>2, <2>3 DEF Promise!TellHeld
  <2> QED BY <2>4 DEF Promise!Next
<1>3. CASE answer[s] \notin SaysHeld
  <2>1. known' = known
    BY <1>3 DEF LogAnswer
  <2> QED BY <1>1, <2>1, EndSendDrops
<1> QED BY <1>2, <1>3

LEMMA PostOffers ==
    ASSUME IInv, NEW s \in Series, NEW asOf \in {runs[s], runs[s] - 1} \ {0}, Post(s, asOf)
    PROVE  Promise!Next
<1>1. value[s] = 0 /\ asOf > 0 /\ asOf \in 1 .. MaxRuns[s]
  <2>1. value[s] = 0 /\ Underway(s)
    BY DEF IInv, TypeOK, Post, Resumed, UnderLimit, Underway
  <2>2. runs[s] \in Nat /\ runs[s] <= MaxRuns[s] /\ MaxRuns[s] \in Nat
    BY RunnerAssumption DEF IInv, TypeOK
  <2>3. runs[s] > 0
    BY <2>1, <2>2 DEF IInv, TypeOK, OneLossPerRun
  <2>4. (asOf = runs[s] \/ asOf = runs[s] - 1) /\ asOf # 0
    OBVIOUS
  <2> QED BY <2>1, <2>2, <2>3, <2>4
<1>2. Promise!Offer(s, asOf)
  BY <1>1 DEF Post, Promise!Offer
<1>3. asOf \in UNION {1 .. MaxRuns[r] : r \in Series}
  BY <1>1
<1> QED BY <1>2, <1>3 DEF Promise!Next

LEMMA TakePublishes ==
    ASSUME IInv, NEW request \in net, Take(request)
    PROVE  Promise!Next \/ UNCHANGED <<sent, value, quotes, known>>
<1>1. request.series \in Series /\ request.asOf \in sent[request.series]
  BY TypedRequests DEF IInv, RequestsAreOfRuns
<1>2. CASE Newer(request)
  <2>1. Promise!Publish(request.series, request.asOf)
    BY <1>1, <1>2 DEF Take, Newer, Promise!Publish
  <2> QED BY <1>1, <2>1 DEF Promise!Next
<1>3. CASE ~Newer(request)
  BY <1>3 DEF Take
<1> QED BY <1>2, <1>3

(* The runner, the network and cuanto-cuesta together implement            *)
(* Publication: a rate only moves to a newer reading that a run accepted,  *)
(* and the log says it is held only when that or a newer one is.           *)
THEOREM Refinement == Spec => KeepsPromise
<1>1. Init => Promise!Init
  BY DEF Init, Promise!Init
<1>2. IInv /\ [Next]_vars => [Promise!Next]_<<sent, value, quotes, known>>
  <2> SUFFICES ASSUME IInv, Next \/ UNCHANGED vars
               PROVE  Promise!Next \/ UNCHANGED <<sent, value, quotes, known>>
    OBVIOUS
  <2>1. CASE Main \/ Signal \/ RotateToken \/ ComeUp \/ UNCHANGED vars
    BY <2>1 DEF Main, Start, CancelTasks, Gather, Exit, Signal, RotateToken, ComeUp, vars
  <2>2. CASE Kill
    <3>1. value' = [s \in Series |-> IF s \in Series THEN 0 ELSE value[s]]
      BY <2>2 DEF Kill
    <3>2. Promise!Drop(Series)
      BY <2>2, <3>1 DEF Kill, Promise!Drop
    <3> QED BY <3>2 DEF Promise!Next
  <2>3. CASE Beat \/ \E t \in Tasks : Throw(t)
    BY <2>3 DEF Beat, Throw
  <2>4. ASSUME NEW s \in Series, BeginRun(s) \/ NothingSent(s) \/ SendExpires(s)
        PROVE  UNCHANGED <<sent, value, quotes, known>>
    BY <2>4 DEF BeginRun, NothingSent, SendExpires
  <2>5. ASSUME NEW s \in Series, NoAnswer(s) \/ LeaveSend(s)
        PROVE  Promise!Next
    BY <2>5, EndSendDrops DEF NoAnswer, LeaveSend, IInv
  <2>6. ASSUME NEW request \in net, Refuse(request) \/ Lose(request)
        PROVE  UNCHANGED <<sent, value, quotes, known>>
    BY <2>6 DEF Refuse, Lose
  <2> QED BY <2>1, <2>2, <2>3, <2>4, <2>5, <2>6, LogAnswerKeeps, PostOffers, TakePublishes
          DEF Next, Operator, Task, EndCollect, CuantoCuesta
<1> QED BY <1>1, <1>2, Invariance, PTL DEF Spec, KeepsPromise, Promise!Spec, Promise!vars

=============================================================================
