------------------------------- MODULE Runner -------------------------------
(***************************************************************************)
(* The runner's process (runner/__main__.py) with its tasks, each series'  *)
(* send (CuantoCuestaIngest.send), the requests on their way and           *)
(* cuanto-cuesta, which is another program: it restarts on its own, may    *)
(* answer late or not at all, and may apply a request whose sender gave up *)
(* on it or is gone.                                                       *)
(*                                                                         *)
(* The run of a series before its send is one step here: see Collect. When *)
(* it runs is in Scheduler. A send is under asyncio.timeout, which cancels *)
(* the task as the runner's stop does: see Fetch.                          *)
(***************************************************************************)
EXTENDS Naturals

CONSTANTS
    Series,
    MaxRuns,       \* bound: runs of each series
    MaxRestarts,   \* bound: times the runner is stopped or killed
    Rotates        \* whether the token is rotated, once

ASSUME RunnerAssumption ==
    /\ MaxRuns \in [Series -> Nat] /\ MaxRestarts \in Nat /\ Rotates \in BOOLEAN

VARIABLES
    main,      \* where run() is
    stop,      \* the event that SIGTERM and SIGINT set
    held,      \* the token in the runner's environment
    tasks,     \* where each task is
    toThrow,   \* the tasks with a CancelledError to be thrown
    expired,   \* the series whose send is past its time limit
    runs,      \* how many runs each series has begun, its measure of time
    value,     \* as_of of the reading that is being sent, 0 for none
    answer,    \* the answer that has arrived for it
    net,       \* requests that cuanto-cuesta has not taken
    up,        \* cuanto-cuesta is running
    token,     \* the one it takes
    quotes,    \* observed_at of each rate it publishes, 0 for none
    restarts,
    sent,      \* history: the as_of of every reading posted
    known,     \* history: the newest as_of the log says cuanto-cuesta holds
    lost       \* history: the values each series lost in the rotation

process == <<main, stop, held>>
loop == <<tasks, toThrow, expired>>
send == <<runs, value, answer>>
cuantoCuesta == <<up, token, quotes>>
history == <<sent, known, lost>>
vars == <<process, loop, send, net, cuantoCuesta, restarts, history>>

heartbeat == "heartbeat"
Tasks == Series \union {heartbeat}
Tokens == {"old", "new"}

(* "gathering" after the tasks are cancelled, "closing" once the client is *)
MainLocations == {"down", "waiting", "gathering", "closing"}

(* "new": not yet run. "waiting": in sleep. "collecting": in collect.      *)
(* "sending": in client.post, and "leaving" it with a CancelledError.      *)
TaskLocations == {"new", "waiting", "collecting", "sending", "leaving", "ended"}

(* What the answer to a batch of one item can be. "refused" is a rejected  *)
(* item, 400, 413, 422 or 5xx, and "unclear" a 200 that does not say.      *)
Answers == {"stored", "unchanged", "older", "unauthorized", "refused", "unclear"}

Rotated == token = "new"
InRotation == Rotated /\ (~up \/ held # token \/ main # "waiting")

----------------------------------------------------------------------------
Init ==
    /\ main = "down" /\ stop = FALSE
    /\ held = "old" /\ token = "old"
    /\ tasks = [t \in Tasks |-> "ended"]
    /\ toThrow = {} /\ expired = {}
    /\ runs = [s \in Series |-> 0]
    /\ value = [s \in Series |-> 0]
    /\ answer = [s \in Series |-> "none"]
    /\ net = {}
    /\ up = TRUE
    /\ quotes = [s \in Series |-> 0]
    /\ restarts = 0
    /\ sent = [s \in Series |-> {}]
    /\ known = [s \in Series |-> 0] /\ lost = [s \in Series |-> 0]

----------------------------------------------------------------------------
(* run(): the main task.                                                   *)

(* Docker starts the container again whenever the process is down, with    *)
(* the copy of the token that is then in its environment.                  *)
Start ==
    /\ main = "down"
    /\ main' = "waiting" /\ stop' = FALSE
    /\ held' = token
    /\ tasks' = [t \in Tasks |-> "new"]
    /\ UNCHANGED <<toThrow, expired, send, net, cuantoCuesta, restarts, history>>

Signal ==
    /\ main = "waiting" /\ ~stop
    /\ restarts < MaxRestarts
    /\ restarts' = restarts + 1
    /\ stop' = TRUE
    /\ UNCHANGED <<main, held, loop, send, net, cuantoCuesta, history>>

CancelTasks ==
    /\ main = "waiting" /\ stop
    /\ main' = "gathering"
    /\ toThrow' = {t \in Tasks : tasks[t] # "ended"}
    /\ UNCHANGED <<stop, held, tasks, expired, send, net, cuantoCuesta, restarts, history>>

(* Mutant: the client is closed right after the tasks are cancelled. *)
NoneAwaited == TRUE

Gathered == \A t \in Tasks : tasks[t] = "ended"

(* Every task is over: the client is closed. *)
Gather ==
    /\ main = "gathering" /\ Gathered
    /\ main' = "closing"
    /\ UNCHANGED <<stop, held, loop, send, net, cuantoCuesta, restarts, history>>

Exit ==
    /\ main = "closing"
    /\ main' = "down"
    /\ UNCHANGED <<stop, held, loop, send, net, cuantoCuesta, restarts, history>>

(* SIGKILL or too much memory: the requests sent stay sent. *)
Kill ==
    /\ main # "down"
    /\ restarts < MaxRestarts
    /\ restarts' = restarts + 1
    /\ main' = "down"
    /\ tasks' = [t \in Tasks |-> "ended"]
    /\ toThrow' = {} /\ expired' = {}
    /\ value' = [s \in Series |-> 0]
    /\ answer' = [s \in Series |-> "none"]
    /\ UNCHANGED <<stop, held, runs, net, cuantoCuesta, history>>

----------------------------------------------------------------------------
(* The tasks. A cancelled one is resumed only with its CancelledError.     *)

Resumed(t, location) == tasks[t] = location /\ t \notin toThrow

Loses(s) == lost' = IF InRotation THEN [lost EXCEPT ![s] = @ + 1] ELSE lost

(* The first beat; the ones that follow change nothing here. *)
Beat ==
    /\ Resumed(heartbeat, "new")
    /\ tasks' = [tasks EXCEPT ![heartbeat] = "waiting"]
    /\ UNCHANGED <<process, toThrow, expired, send, net, cuantoCuesta, restarts, history>>

(* The first run and the one of each slot. The event loop resumes run() in *)
(* the iteration after the signal, so a run that begins with it is one     *)
(* that begins just before.                                                *)
BeginRun(s) ==
    /\ Resumed(s, "new") \/ Resumed(s, "waiting")
    /\ main = "waiting" => ~stop
    /\ runs[s] < MaxRuns[s]
    /\ tasks' = [tasks EXCEPT ![s] = "collecting"]
    /\ runs' = [runs EXCEPT ![s] = @ + 1]
    /\ UNCHANGED <<process, toThrow, expired, value, answer, net, cuantoCuesta, restarts, history>>

(* No source gave a valid reading, collect raised, or send only logs the   *)
(* batch: for want of a URL and a token, or because it is too large.       *)
NothingSent(s) ==
    /\ Resumed(s, "collecting")
    /\ tasks' = [tasks EXCEPT ![s] = "waiting"]
    /\ UNCHANGED <<process, toThrow, expired, send, net, cuantoCuesta, restarts, history>>

(* A reading is accepted and posted. The source's own time can be before   *)
(* that of the run, and of a reading sent earlier.                         *)
Post(s, asOf) ==
    /\ Resumed(s, "collecting")
    /\ tasks' = [tasks EXCEPT ![s] = "sending"]
    /\ value' = [value EXCEPT ![s] = asOf]
    /\ net' = net \union {[series |-> s, run |-> runs[s], asOf |-> asOf, token |-> held]}
    /\ sent' = [sent EXCEPT ![s] = @ \union {asOf}]
    /\ UNCHANGED <<process, toThrow, expired, runs, answer, cuantoCuesta, restarts, known, lost>>

EndSend(s, location) ==
    /\ tasks' = [tasks EXCEPT ![s] = location]
    /\ expired' = expired \ {s}
    /\ value' = [value EXCEPT ![s] = 0]
    /\ answer' = [answer EXCEPT ![s] = "none"]
    /\ UNCHANGED <<process, runs, cuantoCuesta, restarts, sent>>

(* Mutant: an answer of 200 is taken to mean that every item was taken. *)
SaysHeld200 == {"stored", "unchanged", "older", "unclear"}

(* The answers whose log line says that cuanto-cuesta holds the reading or *)
(* a newer one.                                                            *)
SaysHeld == {"stored", "unchanged", "older"}

LogAnswer(s) ==
    /\ Resumed(s, "sending")
    /\ answer[s] # "none"
    /\ known' = IF answer[s] \in SaysHeld /\ value[s] > known[s]
                THEN [known EXCEPT ![s] = value[s]] ELSE known
    /\ IF answer[s] = "unauthorized" THEN Loses(s) ELSE UNCHANGED lost
    /\ EndSend(s, "waiting")
    /\ UNCHANGED <<toThrow, net>>

(* httpx.HTTPError, which send logs, or any other exception, which         *)
(* run_slot does: before the request is sent, and then cuanto-cuesta never *)
(* gets it, or later on, when it may have.                                 *)
NoAnswer(s) ==
    /\ Resumed(s, "sending")
    /\ \/ /\ \E request \in net :
                /\ request.series = s /\ request.run = runs[s]
                /\ net' = net \ {request}
          /\ Loses(s)
       \/ UNCHANGED <<net, lost>>
    /\ EndSend(s, "waiting")
    /\ UNCHANGED <<toThrow, known>>

(* Mutant: the time limit is on making the connection. *)
UnderLimitConnecting(s) ==
    /\ tasks[s] \in {"sending", "leaving"}
    /\ \E request \in net : request.series = s /\ request.run = runs[s]

UnderLimit(s) == tasks[s] \in {"sending", "leaving"}

(* The timer of asyncio.timeout cancels the task. The request may still    *)
(* get there, or have got there.                                           *)
SendExpires(s) ==
    /\ UnderLimit(s) /\ s \notin expired
    /\ expired' = expired \union {s}
    /\ toThrow' = toThrow \union {s}
    /\ UNCHANGED <<process, tasks, send, net, cuantoCuesta, restarts, history>>

(* The CancelledError leaves collect or sleep, and the task, or makes its  *)
(* way out of client.post, which closes the connection.                    *)
Throw(t) ==
    /\ t \in toThrow
    /\ toThrow' = toThrow \ {t}
    /\ tasks' = [tasks EXCEPT ![t] = IF @ \in {"sending", "leaving"} THEN "leaving" ELSE "ended"]
    /\ IF tasks[t] = "collecting" THEN Loses(t) ELSE UNCHANGED lost
    /\ UNCHANGED <<process, expired, send, net, cuantoCuesta, restarts, sent, known>>

(* Mutant: send takes its cancellation for its timeout, and returns. *)
TimedOutAny(s) == s \in expired

(* The timer's own cancellation is the only one. *)
TimedOut(s) == s \in expired /\ main # "gathering"

(* Leaving asyncio.timeout: a TimeoutError, which is logged, or the end. *)
LeaveSend(s) ==
    /\ tasks[s] = "leaving"
    /\ EndSend(s, IF TimedOut(s) THEN "waiting" ELSE "ended")
    /\ toThrow' = toThrow \ {s}
    /\ UNCHANGED <<net, known, lost>>

----------------------------------------------------------------------------
(* cuanto-cuesta and the network.                                          *)

(* The answer reaches the sender if it still waits for it, or is lost. *)
Answer(request, what) ==
    LET s == request.series
        waits == tasks[s] = "sending" /\ request.run = runs[s]
    IN  \/ waits /\ answer' = [answer EXCEPT ![s] = what]
        \/ UNCHANGED answer

(* Mutant: the last request to arrive is published. *)
NewerAny(request) == TRUE

(* A reading observed after the one it publishes. *)
Newer(request) == request.asOf > quotes[request.series]

(* A request with its token: the newest reading is kept. *)
Take(request) ==
    LET s == request.series
    IN  /\ up /\ request.token = token
        /\ net' = net \ {request}
        /\ \/ /\ Newer(request)
              /\ quotes' = [quotes EXCEPT ![s] = request.asOf]
              /\ \E what \in {"stored", "unclear"} : Answer(request, what)
           \/ /\ ~Newer(request)
              /\ UNCHANGED quotes
              /\ Answer(request, IF request.asOf = quotes[s] THEN "unchanged" ELSE "older")
        /\ UNCHANGED <<process, loop, runs, value, up, token, restarts, history>>

(* A request it does not apply: another token, an item it holds back (a    *)
(* jump), a batch it does not read, an error of its own.                   *)
Refuse(request) ==
    /\ up
    /\ net' = net \ {request}
    /\ \E what \in IF request.token = token THEN {"refused", "unclear"}
                                            ELSE {"unauthorized"} : Answer(request, what)
    /\ UNCHANGED <<process, loop, runs, value, cuantoCuesta, restarts, history>>

Lose(request) ==
    /\ net' = net \ {request}
    /\ UNCHANGED <<process, loop, send, cuantoCuesta, restarts, history>>

ComeUp ==
    /\ ~up
    /\ up' = TRUE
    /\ UNCHANGED <<process, loop, send, net, token, quotes, restarts, history>>

(* "Rotating it updates the copy and restarts both backends together."     *)
RotateToken ==
    /\ Rotates /\ ~Rotated
    /\ main = "waiting" /\ ~stop
    /\ restarts < MaxRestarts
    /\ restarts' = restarts + 1
    /\ token' = "new"
    /\ up' = FALSE
    /\ stop' = TRUE
    /\ UNCHANGED <<main, held, loop, send, net, quotes, history>>

----------------------------------------------------------------------------
Main == Start \/ CancelTasks \/ Gather \/ Exit

EndCollect(s) ==
    NothingSent(s) \/ \E asOf \in {runs[s], runs[s] - 1} \ {0} : Post(s, asOf)

Task ==
    \/ Beat
    \/ \E t \in Tasks : Throw(t)
    \/ \E s \in Series :
        \/ BeginRun(s) \/ EndCollect(s)
        \/ LogAnswer(s) \/ NoAnswer(s) \/ SendExpires(s) \/ LeaveSend(s)

Operator == Signal \/ Kill \/ RotateToken

CuantoCuesta ==
    \/ \E request \in net : Take(request) \/ Refuse(request) \/ Lose(request)
    \/ ComeUp

Next == Main \/ Task \/ Operator \/ CuantoCuesta

Spec == Init /\ [][Next]_vars

(* The event loop resumes what is due: main, a cancelled task, the timer   *)
(* of a send. Collecting ends because every fetch does (Fetch), and the    *)
(* next slot comes (Scheduler). Nothing is owed by cuanto-cuesta, the      *)
(* network or whoever stops the process.                                   *)
FairSpec ==
    /\ Spec
    /\ WF_vars(Main)
    /\ \A t \in Tasks : WF_vars(Throw(t))
    /\ \A s \in Series :
        /\ WF_vars(SendExpires(s)) /\ WF_vars(LeaveSend(s))
        /\ WF_vars(EndCollect(s)) /\ WF_vars(BeginRun(s))

----------------------------------------------------------------------------
(* The state is of its type. *)
TypeOK ==
    /\ main \in MainLocations /\ stop \in BOOLEAN
    /\ held \in Tokens /\ token \in Tokens /\ up \in BOOLEAN
    /\ tasks \in [Tasks -> TaskLocations]
    /\ toThrow \subseteq Tasks /\ expired \subseteq Series
    /\ \A t \in toThrow : tasks[t] # "ended"
    /\ {runs, value, quotes, known, lost} \subseteq [Series -> Nat]
    /\ \A s \in Series : {runs[s], value[s], quotes[s], known[s], lost[s]} \subseteq 0 .. MaxRuns[s]
    /\ \A s \in Series : value[s] # 0 <=> UnderLimit(s)
    /\ answer \in [Series -> Answers \union {"none"}]
    /\ \A request \in net : request.series \in Series /\ request.token \in Tokens
                           /\ {request.run, request.asOf} \subseteq 1 .. MaxRuns[request.series]
    /\ restarts \in 0 .. MaxRestarts
    /\ sent \in [Series -> SUBSET UNION {1 .. MaxRuns[s] : s \in Series}]

(* However the tasks, the stops and the requests interleave, what becomes  *)
(* of each rate and what the log says of it is what Publication allows:    *)
(* the rate only moves to a newer reading that a run accepted, and no      *)
(* answer is taken for that of another send, for one that had been given   *)
(* up, or for more than it says.                                           *)
Promise == INSTANCE Publication WITH
    Times <- UNION {1 .. MaxRuns[s] : s \in Series},
    offered <- sent, onOffer <- value, published <- quotes
KeepsPromise == Promise!Spec

(* What Publication says of the log, of this state: what a line says       *)
(* cuanto-cuesta holds it holds for good, whatever arrives late.           *)
LoggedIsHeld == Promise!LoggedIsHeld

(* Once the tasks are cancelled no run begins and nothing is sent until    *)
(* the process is started again, also by a task whose send was past its    *)
(* time limit when it was cancelled; and the client that all tasks share   *)
(* is closed when the last of them is over.                                *)
StopIsFinal ==
    [][main # "waiting" =>
        /\ runs' = runs /\ sent' = sent
        /\ main' = "closing" => \A t \in Tasks : tasks[t] = "ended"]_vars

(* "Run until SIGTERM or SIGINT": the process stops, whatever its series   *)
(* are doing and whether or not anything they wait for answers.            *)
Stops == stop ~> main = "down"

(* "A value that does not get through is logged and dropped, and the next  *)
(* run sends a newer one": whatever becomes of a send, the series comes to *)
(* its next run, unless the process is stopped.                            *)
NextRunComes ==
    \A s \in Series : \A n \in 1 .. MaxRuns[s] - 1 :
        runs[s] = n ~> (runs[s] > n \/ stop \/ main = "down")

(* docs/deploy.md: "during a token rotation, when both backends restart,   *)
(* at most one value per series is lost".                                  *)
LosesAtMostOne == \A s \in Series : lost[s] <= 1

----------------------------------------------------------------------------
(* The inductive invariant of the proofs.                                  *)

(* A task is running until its send is over. *)
Underway(s) == tasks[s] \in {"collecting", "sending", "leaving"}

(* A request is one of a run that accepted its reading. If the series is   *)
(* still on that run, it is sending that very reading.                     *)
RequestsAreOfRuns ==
    \A request \in net :
        LET s == request.series
        IN  /\ request.asOf \in sent[s]
            /\ request.run <= runs[s]
            /\ request.run = runs[s] =>
                /\ tasks[s] # "collecting"
                /\ UnderLimit(s) => value[s] = request.asOf

(* An answer that says so came when cuanto-cuesta held the reading. *)
AnswersAreTrue ==
    \A s \in Series :
        /\ answer[s] # "none" => UnderLimit(s)
        /\ answer[s] \in SaysHeld => value[s] <= quotes[s]

(* Once cancelled, a task that is not over has its CancelledError before   *)
(* it or is leaving the send with it.                                      *)
CancelledTasksEnd ==
    /\ main = "gathering" =>
        \A t \in Tasks : t \in toThrow \/ tasks[t] \in {"leaving", "ended"}
    /\ main \in {"closing", "down"} => \A t \in Tasks : tasks[t] = "ended"

(* A run loses its value at most once, when it is over. *)
OneLossPerRun ==
    \A s \in Series : lost[s] <= runs[s] /\ (Underway(s) => lost[s] < runs[s])

IInv ==
    /\ TypeOK /\ LoggedIsHeld
    /\ RequestsAreOfRuns /\ AnswersAreTrue /\ CancelledTasksEnd /\ OneLossPerRun

=============================================================================
