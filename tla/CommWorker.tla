------------------------------- MODULE CommWorker -------------------------------
(***************************************************************************)
(* The web workers that poll the server for scenes on behalf of a page      *)
(* (Web/JS/libraries/workers/comm-worker.js, libNetwork.js): each asks once *)
(* a second through one XMLHttpRequest and posts the answers to the page,   *)
(* until a message tells it to stop.                                        *)
(***************************************************************************)
EXTENDS Integers, Sequences, Functions

CONSTANTS
    Answers,     \* what the server may answer with status 200
    MaxWorkers,  \* bound: workers a page starts until it is loaded again
    MaxMail      \* bound: answers posted that the page has not handled yet

ASSUME WorkerBounds == MaxWorkers \in Nat /\ MaxMail \in Nat

VARIABLE workers

WorkerIds == 1..MaxWorkers
WorkerPhases == {"none", "running", "closed"}

\* told: a stop was posted to it.  mail: what it posted.
NoWorker == [phase |-> "none", told |-> FALSE, mail |-> <<>>]

WorkersInit == workers = [w \in WorkerIds |-> NoWorker]

-----------------------------------------------------------------------------
(* What the page calls *)

\* startCommWorker: a new worker, which a message starts.
StartCommWorker(w) ==
    /\ \A v \in 1..w - 1 : workers[v].phase # "none"
    /\ workers[w].phase = "none"
    /\ workers' = [workers EXCEPT ![w].phase = "running"]

\* stopCommWorker
StopCommWorker(w) == workers' = [workers EXCEPT ![w].told = TRUE]

-----------------------------------------------------------------------------
(* The worker *)

Posted == FoldFunction(LAMBDA worker, n : Len(worker.mail) + n, 0, workers)

\* getSceneFromServer asks on the start and then once a second, which ends a
\* request still under way and loses its answer; sceneCallback posts an answer
\* that comes in time.  So a worker that runs may post an answer at any moment,
\* and none is certain to come.
SceneCallback(w) ==
    /\ workers[w].phase = "running"
    /\ Posted < MaxMail
    /\ \E a \in Answers : workers' = [workers EXCEPT ![w].mail = Append(@, a)]

\* A stop closes the worker: neither its timer nor its request is heard again.
\* What it has posted is still delivered.
Closes(w) ==
    /\ workers[w].phase = "running" /\ workers[w].told
    /\ workers' = [workers EXCEPT ![w].phase = "closed"]

WorkerStep(w) == SceneCallback(w) \/ Closes(w)

WorkersOK ==
    \A w \in WorkerIds :
        /\ workers[w].phase \in WorkerPhases
        /\ workers[w].phase = "none" => workers[w] = NoWorker
        /\ workers[w].mail \in Seq(Answers)
===============================================================================
