--------------------------------- MODULE Scene ---------------------------------
(***************************************************************************)
(* One Scene object (Data/Scene.cpp) and the threads that share it.        *)
(*                                                                         *)
(* A "local" scene holds what one sensor sees: the UDP thread stores       *)
(* skeletons in it, HTTP workers copy it and remove skeletons from it, and *)
(* a refresh thread the constructor starts empties it once per period.     *)
(* The "global" scene holds the merged view: HTTP workers clear, fill and  *)
(* copy it; it has no refresh thread and is never deleted.                 *)
(*                                                                         *)
(* Every step is one access to shared state, so that the code's unlocked   *)
(* reads are interleaved with the locked regions of the other threads.     *)
(***************************************************************************)
EXTENDS SkeletonMap

CONSTANTS Workers,    \* the HTTP worker threads
          Udp,        \* the UDP thread
          Refresher,  \* the refresh thread of a local scene
          Readings    \* clock readings Timer::GetTicks_ms may return

Callers == Workers \cup {Udp}
Threads == Callers \cup {Refresher}

ASSUME SceneAssumption ==
    /\ Udp \notin Workers
    /\ Refresher \notin Callers
    /\ None \notin Threads
    /\ Readings \subseteq Nat \ {0}

VARIABLES
    kind,      \* which constructor built the scene: "local" or "global"
    life,      \* "constructing", "live", "dying" (_refreshThreadDie), "freed"
    skeletons, \* _skeletons
    first,     \* _firstSkeletonObservedTime_ms, 0 while nobody was observed
    mutex,     \* the holder of _sceneMutex
    pc,        \* where each caller is in the operation it executes
    key,       \* its argument serverSkeletonId
    person,    \* its argument newPerson
    copied,    \* what the latest GetSkeletons returned
    rpc,       \* where the refresh thread is in Clear
    rate,      \* _refreshRate_ms: "unset" until the constructor's body ran
    lapse      \* nextLapse against the clock: "due", "pending" or "never"

sharedVars == <<skeletons, first, mutex>>
callVars == <<pc, key, person, copied>>
refreshVars == <<rpc, rate, lapse>>
vars == <<kind, life, sharedVars, callVars, refreshVars>>

CallerPCs == {"idle", "size", "stamp", "lockUpdate", "erase", "insert",
              "lockRemove", "remove", "lockClear", "clear",
              "lockCopy", "copy"}
RefreshPCs == {"none", "poll", "compare", "lock", "schedule", "clear", "exited"}

TypeOK ==
    /\ kind \in {"local", "global"}
    /\ life \in {"constructing", "live", "dying", "freed"}
    /\ skeletons \in Contents
    /\ first \in Readings \cup {0}
    /\ mutex \in Threads \cup {None}
    /\ pc \in [Callers -> CallerPCs]
    /\ key \in [Callers -> Keys \cup {None}]
    /\ person \in [Callers -> Skeletons \cup {None}]
    /\ copied \in Contents
    /\ rpc \in RefreshPCs
    /\ rate \in {"unset", "set"}
    /\ lapse \in {"due", "pending", "never"}

(***************************************************************************)
(* The constructors.  The member initialisers of a local scene start the   *)
(* refresh thread, and only then does the constructor's body store the     *)
(* refresh rate: the thread may be ahead of it.  nextLapse starts at 0,    *)
(* before every clock reading.                                             *)
(***************************************************************************)
Init ==
    /\ \/ kind = "local" /\ life = "constructing" /\ rpc = "poll" /\ rate = "unset"
       \/ kind = "global" /\ life = "live" /\ rpc = "none" /\ rate = "set"
    /\ skeletons = Empty
    /\ first = 0
    /\ mutex = None
    /\ pc = [t \in Callers |-> "idle"]
    /\ key = [t \in Callers |-> None]
    /\ person = [t \in Callers |-> None]
    /\ copied = Empty
    /\ lapse = "due"

FinishConstruction ==
    /\ life = "constructing"
    /\ life' = "live"
    /\ rate' = "set"
    /\ UNCHANGED <<kind, sharedVars, callVars, rpc, lapse>>

-------------------------------------------------------------------------------
(***************************************************************************)
(* The operations other threads call.  A caller got the pointer from a     *)
(* finished constructor, so a call starts on a live scene; the destructor  *)
(* may overtake it.                                                        *)
(***************************************************************************)
Enter(t, at, k, s) ==
    /\ life = "live"
    /\ pc[t] = "idle"
    /\ pc' = [pc EXCEPT ![t] = at]
    /\ key' = [key EXCEPT ![t] = k]
    /\ person' = [person EXCEPT ![t] = s]
    /\ UNCHANGED <<kind, life, sharedVars, copied, refreshVars>>

Goto(t, from, to) ==
    /\ life # "freed"
    /\ pc[t] = from
    /\ pc' = [pc EXCEPT ![t] = to]
    /\ UNCHANGED <<kind, life, key, person, refreshVars>>

\* Mutant: a return path that does not unlock.
ReturnLocked(t, from) ==
    /\ life # "freed"
    /\ pc[t] = from
    /\ pc' = [pc EXCEPT ![t] = "idle"]
    /\ key' = [key EXCEPT ![t] = None]
    /\ person' = [person EXCEPT ![t] = None]
    /\ UNCHANGED <<kind, life, mutex, refreshVars>>

\* The last access of a locked region and the unlock after it.
Return(t, from) ==
    /\ life # "freed"
    /\ pc[t] = from
    /\ pc' = [pc EXCEPT ![t] = "idle"]
    /\ key' = [key EXCEPT ![t] = None]
    /\ person' = [person EXCEPT ![t] = None]
    /\ mutex' = None
    /\ UNCHANGED <<kind, life, refreshVars>>

Acquire(t, from, to) ==
    /\ mutex = None
    /\ mutex' = t
    /\ Goto(t, from, to)
    /\ UNCHANGED <<skeletons, first, copied>>

Updates(t) == IF kind = "local" THEN t = Udp ELSE t \in Workers

\* Mutant: the test of the recorded time is dropped, every first person stamps.
BeginUpdateRestamps(t, k, s) == Updates(t) /\ Enter(t, "size", k, s)

\* Update reads first, then the size, and stamps first, all without the lock.
BeginUpdate(t, k, s) ==
    /\ Updates(t)
    /\ Enter(t, IF first = 0 THEN "size" ELSE "lockUpdate", k, s)

\* Mutant: an off-by-one, the second person stamps.
CheckSizeLate(t) ==
    /\ Goto(t, "size", IF Cardinality(Stored(skeletons)) = 1
                       THEN "stamp" ELSE "lockUpdate")
    /\ UNCHANGED <<sharedVars, copied>>

CheckSize(t) ==
    /\ Goto(t, "size", IF Stored(skeletons) = {} THEN "stamp" ELSE "lockUpdate")
    /\ UNCHANGED <<sharedVars, copied>>

\* Mutant: seconds taken for milliseconds.
StampSeconds(t) ==
    /\ Goto(t, "stamp", "lockUpdate")
    /\ \E r \in Readings : first' = 1000 * r
    /\ UNCHANGED <<skeletons, mutex, copied>>

Stamp(t) ==
    /\ Goto(t, "stamp", "lockUpdate")
    /\ first' \in Readings
    /\ UNCHANGED <<skeletons, mutex, copied>>

LockUpdate(t) == Acquire(t, "lockUpdate", "erase")

Erase(t) ==
    /\ Goto(t, "erase", "insert")
    /\ skeletons' = Without(skeletons, key[t])
    /\ UNCHANGED <<first, mutex, copied>>

Insert(t) ==
    /\ Return(t, "insert")
    /\ skeletons' = With(skeletons, key[t], person[t])
    /\ UNCHANGED <<first, copied>>

BeginRemove(t, k) ==
    /\ kind = "local" /\ t \in Workers
    /\ Enter(t, "lockRemove", k, None)

\* Mutant: Remove without the lock.
RemoveUnlocked(t) ==
    Goto(t, "lockRemove", "remove") /\ UNCHANGED <<sharedVars, copied>>

LockRemove(t) == Acquire(t, "lockRemove", "remove")

Remove(t) ==
    /\ Return(t, "remove")
    /\ skeletons' = Without(skeletons, key[t])
    /\ UNCHANGED <<first, copied>>

BeginManualClear(t) ==
    /\ kind = "global" /\ t \in Workers
    /\ Enter(t, "lockClear", None, None)

LockManualClear(t) == Acquire(t, "lockClear", "clear")

ManualClear(t) ==
    /\ Return(t, "clear")
    /\ skeletons' = Empty
    /\ UNCHANGED <<first, copied>>

BeginGetSkeletons(t) ==
    /\ t \in Workers
    /\ Enter(t, "lockCopy", None, None)

\* Mutant: GetSkeletons without the lock, "since it only reads".
CopyUnlocked(t) ==
    Goto(t, "lockCopy", "copy") /\ UNCHANGED <<sharedVars, copied>>

LockGetSkeletons(t) == Acquire(t, "lockCopy", "copy")

GetSkeletons(t) ==
    /\ Return(t, "copy")
    /\ copied' = skeletons
    /\ UNCHANGED <<skeletons, first>>

CallerSteps(t) ==
    \/ CheckSize(t) \/ Stamp(t) \/ Erase(t) \/ Insert(t)
    \/ Remove(t) \/ ManualClear(t) \/ GetSkeletons(t)

CallerLocks(t) ==
    LockUpdate(t) \/ LockRemove(t) \/ LockManualClear(t) \/ LockGetSkeletons(t)

CallerBegins(t) ==
    \/ \E k \in Keys, s \in Skeletons : BeginUpdate(t, k, s)
    \/ \E k \in Keys : BeginRemove(t, k)
    \/ BeginManualClear(t)
    \/ BeginGetSkeletons(t)

-------------------------------------------------------------------------------
(***************************************************************************)
(* Clear, the loop of the refresh thread.  The clock is abstracted to what *)
(* the comparison with nextLapse yields; Elapse lets a period pass.        *)
(***************************************************************************)
RGoto(from, to) ==
    /\ life # "freed"
    /\ rpc = from
    /\ rpc' = to
    /\ UNCHANGED <<kind, life, first, callVars, rate>>

\* Mutant: the loop never looks at the flag.
PollForever ==
    RGoto("poll", "compare") /\ UNCHANGED <<skeletons, mutex, lapse>>

Poll ==
    /\ RGoto("poll", IF life = "dying" THEN "exited" ELSE "compare")
    /\ UNCHANGED <<skeletons, mutex, lapse>>

Compare ==
    /\ RGoto("compare", IF lapse = "due" THEN "lock" ELSE "poll")
    /\ UNCHANGED <<skeletons, mutex, lapse>>

LockClear ==
    /\ mutex = None
    /\ mutex' = Refresher
    /\ RGoto("lock", "schedule")
    /\ UNCHANGED <<skeletons, lapse>>

\* nextLapse = curTime + _refreshRate_ms.  A rate read before it is stored is
\* any unsigned long: the next lapse may be past, ahead, or out of reach.
Schedule ==
    /\ RGoto("schedule", "clear")
    /\ lapse' \in IF rate = "set" THEN {"pending"} ELSE {"due", "pending", "never"}
    /\ UNCHANGED <<skeletons, mutex>>

\* Mutant: the period is renewed and nothing is cleared.
ClearNothing ==
    RGoto("clear", "poll") /\ mutex' = None /\ UNCHANGED <<skeletons, lapse>>

ClearAll ==
    /\ RGoto("clear", "poll")
    /\ skeletons' = Empty
    /\ mutex' = None
    /\ UNCHANGED lapse

Elapse ==
    /\ lapse = "pending"
    /\ life # "freed"
    /\ lapse' = "due"
    /\ UNCHANGED <<kind, life, sharedVars, callVars, rpc, rate>>

RefreshSteps == Poll \/ Compare \/ Schedule \/ ClearAll

-------------------------------------------------------------------------------
(***************************************************************************)
(* ~Scene raises the flag and joins the refresh thread; then the memory is *)
(* gone.  Nothing makes it wait for callers that are inside an operation:  *)
(* that obligation lies with the owner of the scene (see Viewport).  A     *)
(* freed scene takes no more steps.                                        *)
(***************************************************************************)
BeginDestruction ==
    /\ kind = "local" /\ life = "live"
    /\ life' = "dying"
    /\ UNCHANGED <<kind, sharedVars, callVars, refreshVars>>

Join ==
    /\ life = "dying" /\ rpc = "exited"
    /\ life' = "freed"
    /\ UNCHANGED <<kind, sharedVars, callVars, refreshVars>>

Freed ==
    /\ life = "freed"
    /\ UNCHANGED vars

Next ==
    \/ FinishConstruction
    \/ \E t \in Callers : CallerBegins(t) \/ CallerLocks(t) \/ CallerSteps(t)
    \/ RefreshSteps \/ LockClear \/ Elapse
    \/ BeginDestruction \/ Join \/ Freed

(***************************************************************************)
(* Every thread the operating system runs keeps taking its steps; whether  *)
(* a new call starts or a client deregisters is up to the clients.         *)
(* std::mutex of the compiler the project files name is the queueing       *)
(* critical section of the Concurrency Runtime, so a thread that waits for *)
(* the lock gets it: strong fairness on the acquisitions.                  *)
(***************************************************************************)
Fairness ==
    /\ WF_vars(FinishConstruction)
    /\ \A t \in Callers : WF_vars(CallerSteps(t)) /\ SF_vars(CallerLocks(t))
    /\ WF_vars(RefreshSteps) /\ SF_vars(LockClear) /\ WF_vars(Elapse)
    /\ WF_vars(Join)

Spec == Init /\ [][Next]_vars
FairSpec == Spec /\ Fairness

-------------------------------------------------------------------------------
LockedPCs == {"erase", "insert", "remove", "clear", "copy"}

\* Only the thread that holds _sceneMutex is inside a locked region of Update,
\* Remove, ManualClear, GetSkeletons or Clear.
Exclusion ==
    /\ \A t \in Callers : pc[t] \in LockedPCs <=> mutex = t
    /\ rpc \in {"schedule", "clear"} <=> mutex = Refresher

\* However many threads run Update at once, a scene never stores more
\* skeletons than its capacity.
Bounded == Cardinality(Stored(skeletons)) <= Capacity

\* CalibrateSceneOrder takes first = 0 for "this sensor has seen nobody": in
\* spite of the unlocked check and stamp in Update, no thread finds a skeleton
\* in a scene whose first observation is not recorded.
ObservedBeforeStored == Stored(skeletons) # {} => first # 0

\* Scenes are ordered by the time of their first observation: once recorded,
\* no later Update, refresh or removal moves the stamp of a sensor's scene.
FirstObservationKept == [][kind = "local" /\ first # 0 => first' = first]_vars

\* Calls take effect one at a time.  An Update is seen as a whole at its erase:
\* its insertion is accounted for before any other thread can take the lock.
content ==
    IF mutex \in Callers /\ pc[mutex] = "insert"
    THEN With(skeletons, key[mutex], person[mutex])
    ELSE skeletons

Map == INSTANCE SceneMap WITH observed <- first # 0

\* The operations of Scene are atomic operations on a bounded map.
ImplementsMap == Map!MapSpec

\* The destructor's join returns, whatever the refresh thread and the callers
\* were doing when deregistration deleted the scene.
JoinReturns == life = "dying" ~> life = "freed"

\* No operation on a scene that stays alive blocks its caller for good.
CallsReturn == \A t \in Callers : pc[t] # "idle" ~> pc[t] = "idle" \/ life = "freed"

\* What a sensor saw does not outlive the refresh period for good: its scene is
\* emptied again and again until it is deleted.  Nothing is claimed where the
\* lapse is out of reach: a refresh thread that computed it before the
\* constructor stored the rate may never clear anything again.
StaleCleared ==
    kind = "local" /\ lapse # "never" ~>
        skeletons = Empty \/ life \in {"dying", "freed"}
===============================================================================
