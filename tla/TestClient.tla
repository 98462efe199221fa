----------------------------- MODULE TestClient -----------------------------
(***************************************************************************)
(* The control panel of the test client (src/test-client/run.cpp), which   *)
(* starts and stops the workers of EchoSession.  Requests are taken one at *)
(* a time: the code keeps its vector of workers without a lock, and        *)
(* concurrent requests have no defined outcome.                            *)
(***************************************************************************)
EXTENDS EchoSession

CONSTANT NoWorker   \* no worker is being created

ASSUME NoWorkerAssumption == NoWorker \notin Workers

VARIABLES
  panel,    \* what the handler of the control panel is doing
  cur,      \* the worker load_workers has created and not yet started
  workers,  \* data while load_workers runs, then workers
  toShow    \* workers the status page has yet to show

vars == <<sessionVars, panel, cur, workers, toShow>>

Init ==
  /\ SessionInit
  /\ panel = "idle"
  /\ cur = NoWorker
  /\ workers = {}
  /\ toShow = {}

-----------------------------------------------------------------------------
(* /set/start, on an empty vector.                                         *)
HandleStart ==
  /\ panel = "idle"
  /\ workers = {}
  /\ panel' = "load"
  /\ UNCHANGED <<sessionVars, cur, workers, toShow>>

(* A new work object, whose run has no initialiser, and its thread. *)
Create(w) ==
  /\ panel = "load" /\ cur = NoWorker
  /\ w \notin workers
  /\ cur' = w
  /\ Goto(w, "new")
  /\ \E b \in BOOLEAN : SetRunning(w, b)
  /\ log' = [log EXCEPT ![w] = NoLog]
  /\ UNCHANGED <<pos, got, sockets, panel, workers, toShow>>

(* start(), once the thread exists. *)
Start(w) ==
  /\ panel = "load" /\ cur = w
  /\ SetRunning(w, TRUE)
  /\ workers' = workers \cup {w}
  /\ cur' = NoWorker
  /\ UNCHANGED <<wpc, rounds, sockets, panel, toShow>>

(* All workers are there, or pthread_create failed. *)
Loaded ==
  /\ panel = "load" /\ cur = NoWorker
  /\ panel' = "idle"
  /\ UNCHANGED <<sessionVars, cur, workers, toShow>>

(* The status page, which copies the log of one worker after the other,    *)
(* under its lock, while they go on.                                       *)
HandleStatus ==
  /\ panel = "idle"
  /\ workers # {}
  /\ panel' = "status"
  /\ toShow' = workers
  /\ UNCHANGED <<sessionVars, cur, workers>>

(* A faulty variant, for the checks: the page waits for a worker to pause. *)
ShowWorkerPaused(w) ==
  /\ panel = "status" /\ w \in toShow
  /\ wpc[w] \in {"top", "exited"}
  /\ toShow' = toShow \ {w}
  /\ UNCHANGED <<sessionVars, panel, cur, workers>>

ShowWorker(w) ==
  /\ panel = "status" /\ w \in toShow
  /\ toShow' = toShow \ {w}
  /\ UNCHANGED <<sessionVars, panel, cur, workers>>

Shown ==
  /\ panel = "status" /\ toShow = {}
  /\ panel' = "idle"
  /\ UNCHANGED <<sessionVars, cur, workers, toShow>>

(* /set/stop. *)
HandleStop ==
  /\ panel = "idle"
  /\ workers # {}
  /\ panel' = "stop"
  /\ UNCHANGED <<sessionVars, cur, workers, toShow>>

StopWorker(w) ==
  /\ panel = "stop"
  /\ w \in workers /\ IsRunning(w)
  /\ SetRunning(w, FALSE)
  /\ UNCHANGED <<wpc, rounds, sockets, panel, cur, workers, toShow>>

(* A faulty variant, for the checks: nobody is joined. *)
ClearUnjoined ==
  /\ panel = "stop"
  /\ \A w \in workers : ~IsRunning(w)
  /\ panel' = "idle"
  /\ workers' = {}
  /\ UNCHANGED <<sessionVars, cur, toShow>>

(* All threads are joined, the vector is cleared. *)
JoinWorkers ==
  /\ panel = "stop"
  /\ \A w \in workers : ~IsRunning(w) /\ wpc[w] = "exited"
  /\ panel' = "idle"
  /\ workers' = {}
  /\ wpc' = [w \in Workers |-> "none"]
  /\ UNCHANGED <<run, rounds, sockets, cur, toShow>>

Load == (\E w \in Workers : Create(w) \/ Start(w)) \/ Loaded
Stop == (\E w \in Workers : StopWorker(w)) \/ JoinWorkers

Show == (\E w \in Workers : ShowWorker(w)) \/ Shown

Next ==
  \/ HandleStart \/ Load \/ HandleStatus \/ Show \/ HandleStop \/ Stop
  \/ \E w \in Workers : Session(w) /\ UNCHANGED <<panel, cur, workers, toShow>>

Spec == Init /\ [][Next]_vars

(* Threads run on both sides; nobody has to send a request, and the        *)
(* network may take its time to connect.                                   *)
Fairness ==
  /\ \A w \in Workers :
       /\ WF_vars(Worker(w) /\ UNCHANGED <<panel, cur, workers, toShow>>)
       /\ WF_vars(Echo(w) /\ UNCHANGED <<panel, cur, workers, toShow>>)
  /\ WF_vars(Load) /\ WF_vars(Show) /\ WF_vars(Stop)

FairSpec == Spec /\ Fairness

-----------------------------------------------------------------------------

(* Types of the control panel and of the conversations of its workers. *)
TypeOK ==
  /\ SessionTypeOK
  /\ panel \in {"idle", "load", "status", "stop"}
  /\ cur \in Workers \cup {NoWorker}
  /\ toShow \subseteq workers /\ workers \subseteq Workers

(* Every thread that uses a work object has its owner: the object is in    *)
(* the vector, or load_workers still holds it.                             *)
WorkHasOwner ==
  \A w \in Workers : wpc[w] # "none" => w \in workers \cup {cur}

(* Every page is answered, wherever the workers are in their conversation  *)
(* and whatever has become of their connections.                           *)
PanelAnswers == panel # "idle" ~> panel = "idle"

(* The echo answers a message, and the panel its requests. *)
Responds == ReplyArrives /\ PanelAnswers

(* A worker that has begun its conversation goes on, whatever happens to   *)
(* its connection, until /set/stop.  Only a thread that looks at run       *)
(* before start() has set it may end at once, with nothing sent.           *)
ConversationLasts ==
  [][\A w \in Workers :
       wpc[w] \in {"top", "send", "recv"} /\ wpc'[w] = "exited" =>
         panel = "stop" \/ (wpc[w] = "top" /\ log[w].sent = 0)]_vars

(* The objects of the workers, what they count and what the echo holds for *)
(* them agree.                                                             *)
Consistent == TypeOK /\ WorkHasOwner /\ EchoFits /\ CountersAgree /\ NoBadReply
=============================================================================
