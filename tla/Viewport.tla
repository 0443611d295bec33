-------------------------------- MODULE Viewport --------------------------------
(***************************************************************************)
(* The server's model of its sensors (Algorithms/MinorityViewportAlgo.cpp  *)
(* with Data/Client.cpp and Data/Sensor.cpp) under the requests the HTTP   *)
(* workers execute and the datagrams the UDP thread loads.                 *)
(*                                                                         *)
(* A scene is named by the client object that owns it and the sensor it    *)
(* belongs to.  Addresses of deleted objects are used again, as the heap   *)
(* does.  What a scene stores is the matter of Scene.tla; here it has its  *)
(* first observation, its place in the order and its neighbours.           *)
(***************************************************************************)
EXTENDS ClientsList

CONSTANTS Sensors,  \* sensor ids
          Null,     \* the null pointer
          Garbage,  \* a pointer or a matrix that was never initialised
          MaxTime   \* bound of the ticks at which a scene is first observed

Scenes == Objects \X Sensors

ASSUME ViewportAssumption ==
    /\ IsFiniteSet(Objects) /\ IsFiniteSet(Sensors)
    /\ MaxTime \in Nat \ {0}
    /\ None \notin Scenes /\ Null \notin Scenes /\ Garbage \notin Scenes
    /\ Null # Garbage

VARIABLES
    sensors,    \* _sensors of every client object: the ids registered
    first,      \* _firstSkeletonObservedTime_ms of every scene
    ordering,   \* _ordering
    left,       \* the neighbour towards the reference scene
    right,
    ordered,    \* _orderedScenes
    scenesSet,  \* _scenesSet
    todo,       \* what each worker's CalibrateSceneOrder has still to push
    target,     \* the client object each worker holds a pointer to
    upc,        \* where the UDP thread is in LoadSkeleton
    uscene,     \* the client it found and the sensor the skeleton names
    fault       \* "none"; "undefined" once a step had undefined behaviour;
                \* "terminated" once an exception left a worker thread

sceneVars == <<first, ordering, left, right>>
orderVars == <<ordered, scenesSet>>
workerVars == <<pc, cid, slot, todo, target>>
udpVars == <<upc, uscene>>
vars == <<clientVars, sensors, sceneVars, orderVars, workerVars, udpVars,
          fault>>

WorkerPCs == {"idle", "generate", "append", "find", "purge", "delete", "erase",
              "sensors", "check", "push"}

TypeOK ==
    /\ ListTypeOK
    /\ sensors \in [Objects -> SUBSET Sensors]
    /\ first \in [Scenes -> 0..MaxTime]
    /\ ordering \in [Scenes -> Nat]
    /\ left \in [Scenes -> Scenes \cup {Null, Garbage}]
    /\ right \in [Scenes -> Scenes \cup {Null, Garbage}]
    /\ ordered \in Seq(Scenes)
    /\ scenesSet \subseteq Scenes
    /\ pc \in [Workers -> WorkerPCs]
    /\ todo \in [Workers -> Seq(Scenes \X Nat)]
    /\ target \in [Workers -> Objects \cup {None}]
    /\ upc \in {"recv", "extract", "update", "exited"}
    /\ uscene \in Scenes \cup {None}
    /\ fault \in {"none", "undefined", "terminated"}

Init ==
    /\ ListInit
    /\ pc = [w \in Workers |-> "idle"]
    /\ sensors = [c \in Objects |-> {}]
    /\ first = [s \in Scenes |-> 0]
    /\ ordering = [s \in Scenes |-> 0]
    /\ left = [s \in Scenes |-> Garbage]
    /\ right = [s \in Scenes |-> Garbage]
    /\ ordered = <<>>
    /\ scenesSet = {}
    /\ todo = [w \in Workers |-> <<>>]
    /\ target = [w \in Workers |-> None]
    /\ upc = "recv"
    /\ uscene = None
    /\ fault = "none"

\* The scenes a client object owns: ~Client deletes them, through ~Sensor.
Owned(c) == {c} \X sensors[c]
Registered == UNION {Owned(c) : c \in Clients}
Live == UNION {Owned(c) : c \in alive}

-------------------------------------------------------------------------------
(***************************************************************************)
(* Faults.  A step that has undefined behaviour, or whose exception ends   *)
(* the process, leads to a state nothing is claimed about.                 *)
(***************************************************************************)
Fail(how) ==
    /\ fault' = how
    /\ UNCHANGED <<clientVars, sensors, sceneVars, orderVars, workerVars,
                   udpVars>>

Running == fault = "none"

Goto(w, from, to) ==
    /\ Running
    /\ pc[w] = from
    /\ pc' = [pc EXCEPT ![w] = to]

-------------------------------------------------------------------------------
(***************************************************************************)
(* Client registration and deregistration.                                 *)
(***************************************************************************)
Registering == {w \in Workers : pc[w] \in {"generate", "append"}}

\* Objects bounds the clients registered at once.
BeginRegister(w) ==
    /\ Goto(w, "idle", "generate")
    /\ Cardinality(alive) + Cardinality(Registering) < Cardinality(Objects)
    /\ UNCHANGED <<clientVars, sensors, sceneVars, orderVars, cid, slot, todo,
                   target, udpVars, fault>>

Generate(w) ==
    /\ Running
    /\ GenerateNextClientId(w)
    /\ UNCHANGED <<sensors, sceneVars, orderVars, todo, target, udpVars, fault>>

\* new Client: it has no sensors yet.
AddClient(w) ==
    /\ Running
    /\ \E c \in Objects : AppendClient(w, c)
    /\ UNCHANGED <<sensors, sceneVars, orderVars, todo, target, udpVars, fault>>

BeginDeregister(w, id) ==
    /\ Goto(w, "idle", "find")
    /\ cid' = [cid EXCEPT ![w] = id]
    /\ UNCHANGED <<clientVars, sensors, sceneVars, orderVars, slot, todo,
                   target, udpVars, fault>>

\* At returns NULL for an id nobody has, and its sensors are read all the same.
FindClient(w) ==
    /\ Running /\ pc[w] = "find"
    /\ IF At(cid[w]) = None \/ SearchMeetsDeleted(cid[w])
       THEN Fail("undefined")
       ELSE /\ pc' = [pc EXCEPT ![w] = "purge"]
            /\ target' = [target EXCEPT ![w] = At(cid[w])]
            /\ UNCHANGED <<clientVars, sensors, sceneVars, orderVars, cid, slot,
                           todo, udpVars, fault>>

\* The members of a set, each once, as a relation orders them.
InOrder(S, before) ==
    [n \in 1..Cardinality(S) |->
        CHOOSE x \in S : Cardinality({y \in S : <<y, x>> \in before}) = n - 1]

\* What the erasing loop leaves of a vector: the elements outside T, in order.
Erased(s, T) ==
    LET kept == {i \in DOMAIN s : s[i] \notin T}
        at   == InOrder(kept, {p \in kept \X kept : p[1] < p[2]})
    IN  [k \in DOMAIN at |-> s[at[k]]]

\* Mutant: the ordered scenes are left as they are.
PurgeSetOnly(w) ==
    /\ Goto(w, "purge", "delete")
    /\ scenesSet' = scenesSet \ Owned(target[w])
    /\ target' = [target EXCEPT ![w] = None]
    /\ UNCHANGED <<clientVars, sensors, sceneVars, ordered, cid, slot, todo,
                   udpVars, fault>>

\* Under _orderedSceneMutex the client's scenes leave the order and the set.
\* The neighbours keep their pointers and the others their ordering.
PurgeScenes(w) ==
    /\ Goto(w, "purge", "delete")
    /\ target[w] \in alive
    /\ ordered' = Erased(ordered, Owned(target[w]))
    /\ scenesSet' = scenesSet \ Owned(target[w])
    /\ target' = [target EXCEPT ![w] = None]
    /\ UNCHANGED <<clientVars, sensors, sceneVars, cid, slot, todo, udpVars,
                   fault>>

\* A scene as the constructor leaves it: no observation, no order, and
\* pointers and matrices nobody initialised.  Freed memory reads the same.
New(f, fresh, value) == [s \in Scenes |-> IF s \in fresh THEN value ELSE f[s]]

Construct(fresh) ==
    /\ first' = New(first, fresh, 0)
    /\ ordering' = New(ordering, fresh, 0)
    /\ left' = New(left, fresh, Garbage)
    /\ right' = New(right, fresh, Garbage)

\* RemoveClient up to the erasure: ~Client deletes the sensors and their scenes.
\* What is in freed memory cannot be read without a fault.
Delete(w) ==
    /\ Running
    /\ ~SearchMeetsDeleted(cid[w])
    /\ DeleteClient(w)
    /\ Construct(UNION {Owned(c) : c \in alive \ alive'})
    /\ sensors' = [c \in Objects |-> IF c \in alive \ alive' THEN {} ELSE sensors[c]]
    /\ UNCHANGED <<orderVars, todo, target, udpVars, fault>>

Erase(w) ==
    /\ Running
    /\ EraseClient(w)
    /\ UNCHANGED <<sensors, sceneVars, orderVars, todo, target, udpVars, fault>>

-------------------------------------------------------------------------------
(***************************************************************************)
(* Sensor registration: InitialSensorsList creates a sensor with a scene   *)
(* for every id of the list, and keeps it unless the client has the id.    *)
(***************************************************************************)
BeginRegisterSensors(w, id) ==
    /\ Running /\ pc[w] = "idle"
    /\ IF At(id) = None \/ SearchMeetsDeleted(id)
       THEN Fail("undefined")
       ELSE /\ pc' = [pc EXCEPT ![w] = "sensors"]
            /\ target' = [target EXCEPT ![w] = At(id)]
            /\ UNCHANGED <<clientVars, sensors, sceneVars, orderVars, cid, slot,
                           todo, udpVars, fault>>

InitialSensorsList(w, given) ==
    LET c == target[w]
        fresh == {c} \X (given \ sensors[c])
    IN  /\ Goto(w, "sensors", "idle")
        /\ c \in alive
        /\ sensors' = [sensors EXCEPT ![c] = @ \cup given]
        /\ Construct(fresh)
        /\ target' = [target EXCEPT ![w] = None]
        /\ UNCHANGED <<clientVars, orderVars, cid, slot, todo, udpVars, fault>>

-------------------------------------------------------------------------------
(***************************************************************************)
(* CalibrateSceneOrder: collect all scenes, forget the old order, give up  *)
(* if one of them has not observed anybody; else number and push them by   *)
(* the time of their first observation, then link the neighbours.          *)
(***************************************************************************)
\* Mutant: the set is loaded only when it is empty.
RefreshEmptySet(w) ==
    /\ Running /\ pc[w] = "idle"
    /\ pc' = [pc EXCEPT ![w] = "check"]
    /\ scenesSet' = IF scenesSet = {} THEN Registered ELSE scenesSet
    /\ ordered' = <<>>
    /\ UNCHANGED <<clientVars, sensors, sceneVars, cid, slot, todo, target,
                   udpVars, fault>>

RefreshScenesSet(w) ==
    /\ Running /\ pc[w] = "idle"
    /\ IF Clients \subseteq alive
       THEN /\ pc' = [pc EXCEPT ![w] = "check"]
            /\ scenesSet' = Registered
            /\ ordered' = <<>>
            /\ UNCHANGED <<clientVars, sensors, sceneVars, cid, slot, todo,
                           target, udpVars, fault>>
       ELSE Fail("undefined")

Observed(s) == first[s] > 0

\* Mutant: the orderings are reset before the check instead of after it.
GiveUpAfterReset(w) ==
    /\ \E s \in scenesSet : ~Observed(s)
    /\ Goto(w, "check", "idle")
    /\ ordering' = New(ordering, scenesSet, 0)
    /\ UNCHANGED <<clientVars, sensors, first, left, right, orderVars, cid,
                   slot, todo, target, udpVars, fault>>

\* Mutant: the request waits until every scene has observed someone.
WaitForObservation(w) ==
    /\ \E s \in scenesSet : ~Observed(s)
    /\ Goto(w, "check", "check")
    /\ UNCHANGED <<clientVars, sensors, sceneVars, orderVars, cid, slot, todo,
                   target, udpVars, fault>>

GiveUpOrder(w) ==
    /\ scenesSet \subseteq Live
    /\ \E s \in scenesSet : ~Observed(s)
    /\ Goto(w, "check", "idle")
    /\ UNCHANGED <<clientVars, sensors, sceneVars, orderVars, cid, slot, todo,
                   target, udpVars, fault>>

\* The pushes to make, with their numbers.  There are as many stamps as scenes,
\* sorted; for the stamp of scene p[1], every scene of the set, visited by
\* address, is pushed that has this stamp: p[2].
ByStamp(visited) ==
    LET stamp(i) == first[visited[i]]
        pairs  == {p \in (DOMAIN visited) \X (DOMAIN visited) : stamp(p[1]) = stamp(p[2])}
        before == {pq \in pairs \X pairs :
            LET p == pq[1]
                q == pq[2]
            IN  \/ stamp(p[1]) < stamp(q[1])
                \/ stamp(p[1]) = stamp(q[1]) /\ p[1] < q[1]
                \/ p[1] = q[1] /\ p[2] < q[2]}
        pushes == InOrder(pairs, before)
    IN  [n \in DOMAIN pushes |-> <<visited[pushes[n][2]], n>>]

ResetOrdering(w) ==
    /\ scenesSet \subseteq Live
    /\ \A s \in scenesSet : Observed(s)
    /\ Goto(w, "check", "push")
    /\ \E visited \in SetToSeqs(scenesSet) :
          todo' = [todo EXCEPT ![w] = ByStamp(visited)]
    /\ ordering' = New(ordering, scenesSet, 0)
    /\ UNCHANGED <<clientVars, sensors, first, left, right, orderVars, cid, slot, target, udpVars, fault>>

PushOrdered(w) ==
    /\ todo[w] # <<>>
    /\ scenesSet \subseteq Live
    /\ Goto(w, "push", "push")
    /\ LET s == Head(todo[w])[1] n == Head(todo[w])[2]
       IN  /\ ordering' = [ordering EXCEPT ![s] = n]
           /\ ordered' = Append(ordered, s)
    /\ todo' = [todo EXCEPT ![w] = Tail(@)]
    /\ UNCHANGED <<clientVars, sensors, first, left, right, scenesSet, cid, slot, target, udpVars, fault>>

\* A scene pushed more than once is linked as at its last place; a scene that
\* is alone in the order is not linked at all.
LastPlace(s) ==
    CHOOSE i \in DOMAIN ordered :
        ordered[i] = s /\ \A j \in DOMAIN ordered : ordered[j] = s => j <= i

\* The link loop, with the neighbours each place gets.
Link(w, toLeft, toRight) ==
    LET linked == IF Len(ordered) > 1 THEN Range(ordered) ELSE {}
    IN  /\ todo[w] = <<>>
        /\ Goto(w, "push", "idle")
        /\ linked \subseteq Live
        /\ left' = [s \in Scenes |->
               IF s \in linked THEN toLeft[LastPlace(s)] ELSE left[s]]
        /\ right' = [s \in Scenes |->
               IF s \in linked THEN toRight[LastPlace(s)] ELSE right[s]]
        /\ scenesSet' = {}
        /\ UNCHANGED <<clientVars, sensors, first, ordering, ordered, cid, slot,
                       todo, target, udpVars, fault>>

Previous == [i \in DOMAIN ordered |-> IF i = 1 THEN Null ELSE ordered[i - 1]]
Following ==
    [i \in DOMAIN ordered |-> IF i = Len(ordered) THEN Null ELSE ordered[i + 1]]

\* Mutant: left and right are swapped.
LinkSwapped(w) == Link(w, Following, Previous)

LinkNeighbours(w) == Link(w, Previous, Following)

\* Only overlapping requests can delete what this request works on: the client
\* it holds a pointer to, the scenes of the set or of the order it visits, or
\* the client whose slot it is about to erase.
UsesDeleted(w) ==
    \/ pc[w] \in {"purge", "sensors"} /\ target[w] \notin alive
    \/ pc[w] = "delete" /\ SearchMeetsDeleted(cid[w])
    \/ pc[w] = "erase" /\ slot[w] \notin DOMAIN list
    \/ pc[w] \in {"check", "push"} /\ ~(scenesSet \subseteq Live)
    \/ pc[w] = "push" /\ ~(Range(ordered) \subseteq Live)

MeetDeleted(w) == Running /\ UsesDeleted(w) /\ Fail("undefined")

-------------------------------------------------------------------------------
(***************************************************************************)
(* The UDP thread: LoadSkeleton for one skeleton of a datagram.            *)
(***************************************************************************)
UGoto(from, to) ==
    /\ Running
    /\ upc = from
    /\ upc' = to
    /\ UNCHANGED <<clientVars, sensors, ordering, left, right, orderVars, workerVars, fault>>

\* A skeleton of a client nobody registered is ignored.
FindSender(id, sensor) ==
    /\ Running /\ upc = "recv"
    /\ At(id) # None
    /\ IF SearchMeetsDeleted(id) THEN Fail("undefined")
       ELSE /\ UGoto("recv", "extract")
            /\ uscene' = <<At(id), sensor>>
            /\ UNCHANGED first

\* map::at throws on a sensor the client has not registered, and the handler
\* in BeginUdpListen ends the thread; with no sensors at all, NULL is returned
\* and used.
ExtractSensor ==
    /\ Running /\ upc = "extract"
    /\ IF uscene[1] \notin alive \/ sensors[uscene[1]] = {} THEN Fail("undefined")
       ELSE IF uscene[2] \in sensors[uscene[1]]
       THEN UGoto("extract", "update") /\ UNCHANGED <<uscene, first>>
       ELSE UGoto("extract", "exited") /\ uscene' = None /\ UNCHANGED first

\* GetTicks_ms compared with the stamps there are: the clock shows the tick of
\* the latest one still, or a later tick.
Ticks ==
    LET latest == CHOOSE t \in 0..MaxTime :
                      /\ \A s \in Live : first[s] <= t
                      /\ t = 0 \/ \E s \in Live : first[s] = t
    IN  {latest, latest + 1} \cap 1..MaxTime

\* Mutant: every Update stamps the scene again.
UpdateRestamps ==
    /\ Running /\ upc = "update"
    /\ IF uscene \notin Live THEN Fail("undefined")
       ELSE /\ UGoto("update", "recv")
            /\ uscene' = None
            /\ \E t \in Ticks : first' = [first EXCEPT ![uscene] = t]

\* Scene::Update: the first skeleton stamps the scene.
UpdateScene ==
    /\ Running /\ upc = "update"
    /\ IF uscene \notin Live THEN Fail("undefined")
       ELSE /\ UGoto("update", "recv")
            /\ uscene' = None
            /\ IF Observed(uscene) THEN UNCHANGED first
               ELSE \E t \in Ticks : first' = [first EXCEPT ![uscene] = t]

\* A thread that reads the list, a client's sensors or the set of scenes while a
\* worker changes them: undefined, although it may go well.
Race ==
    /\ Running
    /\ \E w \in Workers :
          \/ /\ pc[w] \in {"append", "erase"}
             /\ \/ upc = "recv"  \* a datagram arrives
                \/ \E v \in Workers \ {w} :
                      pc[v] \in {"generate", "append", "find", "delete", "erase"}
          \/ pc[w] = "sensors" /\ upc = "extract" /\ uscene[1] = target[w]
          \/ /\ pc[w] \in {"check", "push"}
             /\ \E v \in Workers \ {w} : pc[v] \in {"check", "push", "purge"}
    /\ Fail("undefined")

Stopped == ~Running /\ UNCHANGED vars

-------------------------------------------------------------------------------
\* A request starts with one of these ...
Begins(w) ==
    \/ BeginRegister(w)
    \/ \E id \in Ids : BeginDeregister(w, id)
    \/ \E id \in Ids : BeginRegisterSensors(w, id)
    \/ RefreshScenesSet(w)

\* ... and goes on with these: RegisterClient,
Continues(w) ==
    \/ Generate(w) \/ AddClient(w)
    \* DeregisterClient,
    \/ FindClient(w) \/ PurgeScenes(w) \/ Delete(w) \/ Erase(w)
    \* RegisterSensors,
    \/ \E given \in SUBSET Sensors : InitialSensorsList(w, given)
    \* CalibrateSceneOrder.
    \/ GiveUpOrder(w) \/ ResetOrdering(w) \/ PushOrdered(w) \/ LinkNeighbours(w)
    \/ MeetDeleted(w)

LoadSkeleton ==
    \/ \E id \in Ids, sensor \in Sensors : FindSender(id, sensor)
    \/ ExtractSensor \/ UpdateScene

Next ==
    \/ \E w \in Workers : Begins(w) \/ Continues(w)
    \/ LoadSkeleton \/ Race \/ Stopped

Spec == Init /\ [][Next]_vars

\* A worker executes its request to the end; requests and datagrams come if
\* the clients send them.  The deletion of a client waits for the refresh
\* threads of its scenes, which JoinReturns in Scene.tla shows to end.
FairSpec == Spec /\ \A w \in Workers : WF_vars(Continues(w))

-------------------------------------------------------------------------------
Idle == \A w \in Workers : pc[w] = "idle"

\* MergeScenes follows every pointer in the order: deregistration takes a
\* client's scenes out of the order and the set before it deletes them.
OrderedAlive == Running => Range(ordered) \cup scenesSet \subseteq Live

\* The order is by first observation, whatever was deregistered since and
\* whatever the UDP thread stored while the order was computed.
OrderSorted ==
    Running =>
        \A i, j \in DOMAIN ordered : i < j => first[ordered[i]] <= first[ordered[j]]

\* Of two scenes with consecutive numbers, each is the other's neighbour, even
\* when others have left the order.
AdjacentLinked ==
    Running /\ Idle =>
        \A s, t \in Range(ordered) :
            ordering[t] = ordering[s] + 1 => left[t] = s /\ right[s] = t

\* When CalibrateSceneOrder answers true, every registered sensor's scene is in
\* the order, and only once if no two were first observed in the same tick.
OrderCovers ==
    [][\A w \in Workers : LinkNeighbours(w) =>
          /\ Range(ordered') = Registered
          /\ \/ \E s, t \in Registered : s # t /\ first[s] = first[t]
             \/ NoDuplicates(ordered')]_vars

\* Every request is answered: none of the loops over clients, scenes and stamps
\* waits for something only another request or a datagram could bring.
RequestsEnd == \A w \in Workers : pc[w] # "idle" ~> pc[w] = "idle" \/ ~Running
===============================================================================
