------------------------------- MODULE PageProofs -------------------------------
(***************************************************************************)
(* Theorems about the calibration page, for every set of sensors, skeletons *)
(* and inputs and any number of clicks, workers and answers.  The inductive *)
(* invariant IInv adds to the checked invariants the types of what the page *)
(* shares, that a canvas names only workers that were started, and that the *)
(* pairs of locked skeletons stay pairs, all with their joints.             *)
(***************************************************************************)
EXTENDS CalibrationPage, FiniteSetTheorems, OperatorLemmas

Worker == [phase : WorkerPhases, told : BOOLEAN, mail : Seq(Answers)]
CanvasScene == [sensorId : Sensors \cup {None}, scene : Scenes \cup {None}]

\* What the page shares, as its handlers read it.
Typed ==
    /\ workers \in [WorkerIds -> Worker]
    /\ page \in {"ready", "broken"}
    /\ commWorkersId \in [Canvases -> WorkerIds \cup {0}]
    /\ scenes \in [Canvases -> CanvasScene]
    /\ lockingMode \in BOOLEAN /\ lockBtnToggle \in BOOLEAN
    /\ automaticSkeletonTimeoutVar \in Timers \cup {0}
    /\ numOfSkeletonsRequired \in Inputs \cup {Default}
    /\ drawn \in [Canvases -> Nat]

\* A worker that was not started has nothing, and no canvas names it.
Started ==
    /\ \A w \in WorkerIds : workers[w].phase = "none" => workers[w] = NoWorker
    /\ \A c \in Canvases :
          commWorkersId[c] # 0 => workers[commWorkersId[c]].phase # "none"

\* Whole skeletons locked in pairs.
Pairs ==
    {f \in [Canvases -> Seq(Nat)] :
        /\ Len(f[0]) = Len(f[1])
        /\ \A c \in Canvases : \A i \in DOMAIN f[c] : f[c][i] >= FullSkeleton}

PairsLocked ==
    /\ lockedSkeletons = None \/ lockedSkeletons \in Pairs
    /\ lockingMode => lockedSkeletons \in Pairs

DrawnBounded == \A c \in Canvases : drawn[c] = 0 \/ drawn[c] < 2 * Largest

IInv ==
    /\ Typed
    /\ Started
    /\ PairsLocked
    /\ DrawnBounded
    /\ OneTimer
    /\ SentUsable

\* What is done to a worker leaves it one.
LEMMA WorkerFields ==
    /\ NoWorker \in Worker
    /\ \A v \in Worker :
          /\ [v EXCEPT !.phase = "none"] \in Worker
          /\ [v EXCEPT !.phase = "running"] \in Worker
          /\ [v EXCEPT !.phase = "closed"] \in Worker
          /\ [v EXCEPT !.told = TRUE] \in Worker
          /\ v.mail # <<>> => /\ Head(v.mail) \in Answers
                             /\ [v EXCEPT !.mail = Tail(@)] \in Worker
          /\ \A a \in Answers : [v EXCEPT !.mail = Append(@, a)] \in Worker
<1>1. <<>> \in Seq(Answers)
  OBVIOUS
<1>2. NoWorker \in Worker
  BY <1>1 DEF Worker, NoWorker, WorkerPhases
<1>3. ASSUME NEW v \in Worker
      PROVE  /\ [v EXCEPT !.phase = "none"] \in Worker
             /\ [v EXCEPT !.phase = "running"] \in Worker
             /\ [v EXCEPT !.phase = "closed"] \in Worker
             /\ [v EXCEPT !.told = TRUE] \in Worker
  BY DEF Worker, WorkerPhases
<1>4. ASSUME NEW v \in Worker
      PROVE  /\ v.mail # <<>> => /\ Head(v.mail) \in Answers
                                /\ [v EXCEPT !.mail = Tail(@)] \in Worker
             /\ \A a \in Answers : [v EXCEPT !.mail = Append(@, a)] \in Worker
  <2>1. /\ v.mail \in Seq(Answers)
        /\ v.mail # <<>> => Head(v.mail) \in Answers /\ Tail(v.mail) \in Seq(Answers)
    BY DEF Worker
  <2>2. \A m \in Seq(Answers) : [v EXCEPT !.mail = m] \in Worker
    BY DEF Worker
  <2>3. \A a \in Answers : Append(v.mail, a) \in Seq(Answers)
    BY <2>1
  <2>. QED
    BY ONLY <2>1, <2>2, <2>3
<1>. QED
  BY <1>2, <1>3, <1>4

\* A largest scene exists, and no scene is larger.
LEMMA LargestScene ==
    /\ Largest \in Nat
    /\ \A b \in Bodies : b \in Seq(Nat) /\ Len(b) \in Nat /\ Len(b) <= Largest
<1>1. PICK b \in Bodies : \A d \in Bodies : Len(d) <= Len(b)
  BY PageAssumption
<1>2. \A d \in Bodies : d \in Seq(Nat) /\ Len(d) \in Nat
  BY PageAssumption
<1>3. \E n \in {Len(d) : d \in Bodies} : \A d \in Bodies : Len(d) <= n
  BY <1>1
<1>4. /\ Largest \in {Len(d) : d \in Bodies}
      /\ \A d \in Bodies : Len(d) <= Largest
  BY <1>3 DEF Largest
<1>. QED
  BY <1>2, <1>4

\* What is sent of two lists of pairs is as long for both, made of their
\* members, and no longer than a natural number that is required.
LEMMA SplicedPairs ==
    ASSUME NEW f \in Pairs, NEW number \in Inputs \cup {Default}
    PROVE  LET g == [c \in Canvases |-> Spliced(f[c], number)] IN
           /\ g \in Pairs
           /\ number \in Nat => Len(g[0]) <= number
<1> DEFINE g == [c \in Canvases |-> Spliced(f[c], number)]
           n == Len(f[0])
           kept == IF number = NaN THEN n
                   ELSE IF number >= 0 THEN IF number < n THEN number ELSE n
                   ELSE n + number
<1>1. n \in Nat /\ \A c \in Canvases : f[c] \in Seq(Nat) /\ Len(f[c]) = n
  BY DEF Pairs, Canvases
<1>2. number = NaN \/ number \in Int
  BY PageAssumption
<1>3. kept \in Int /\ kept <= n
  BY <1>1, <1>2
<1>4. ASSUME NEW c \in Canvases
      PROVE  /\ g[c] \in Seq(Nat)
             /\ Len(g[c]) = IF kept >= 1 THEN kept ELSE 0
             /\ \A i \in DOMAIN g[c] : g[c][i] >= FullSkeleton
  <2>1. \A i \in 1..n : f[c][i] \in Nat /\ f[c][i] >= FullSkeleton
    BY <1>1, SMTT(30) DEF Pairs
  <2>2. /\ SubSeq(f[c], 1, kept) \in Seq(Nat)
        /\ Len(SubSeq(f[c], 1, kept)) = IF kept >= 1 THEN kept ELSE 0
        /\ \A i \in 1..kept : SubSeq(f[c], 1, kept)[i] = f[c][i]
    BY <1>3, <2>1
  <2>3. CASE number = NaN
    BY <1>1, <2>1, <2>3 DEF Spliced
  <2>4. CASE number # NaN
    <3>1. g[c] = SubSeq(f[c], 1, kept)
      BY <1>1, <1>2, <2>4 DEF Spliced
    <3> HIDE DEF g, kept, n
    <3>2. DOMAIN g[c] = 1..Len(g[c])
      BY <2>2, <3>1
    <3>. QED
      BY <1>1, <1>3, <2>1, <2>2, <3>1, <3>2
  <2>. QED
    BY <2>3, <2>4
<1>5. g \in Pairs
  BY <1>4 DEF Pairs, Canvases
<1>6. number \in Nat => Len(g[0]) <= number
  BY <1>1, <1>3, <1>4, PageAssumption, SMTT(30) DEF Canvases
<1>. QED
  BY <1>5, <1>6

\* Locking another whole skeleton of each scene keeps the pairs.
LEMMA PairsGrow ==
    ASSUME NEW f \in Pairs, NEW h,
           \A c \in Canvases : h[c] \in Nat /\ h[c] >= FullSkeleton
    PROVE  [c \in Canvases |-> Append(f[c], h[c])] \in Pairs
<1> DEFINE g == [c \in Canvases |-> Append(f[c], h[c])]
<1>1. ASSUME NEW c \in Canvases
      PROVE  /\ g[c] \in Seq(Nat) /\ Len(g[c]) = Len(f[c]) + 1
             /\ \A i \in DOMAIN g[c] : g[c][i] >= FullSkeleton
  <2>1. f[c] \in Seq(Nat) /\ \A i \in DOMAIN f[c] : f[c][i] >= FullSkeleton
    BY DEF Pairs
  <2>2. h[c] \in Nat /\ h[c] >= FullSkeleton
    OBVIOUS
  <2>3. g[c] = Append(f[c], h[c])
    OBVIOUS
  <2> HIDE DEF g
  <2>. QED
    BY <2>1, <2>2, <2>3
<1>2. Len(f[0]) = Len(f[1])
  BY DEF Pairs
<1>3. g \in [Canvases -> Seq(Nat)] /\ Len(g[0]) = Len(g[1])
  BY <1>1, <1>2 DEF Canvases
<1>. QED
  BY <1>1, <1>3 DEF Pairs

-------------------------------------------------------------------------------
\* A page that nobody has touched, whatever sensors are selected.
THEOREM InitIInv == Init => IInv
<1> SUFFICES ASSUME Init PROVE IInv
  OBVIOUS
<1>0. PICK selected \in [Canvases -> Sensors \cup {None}] :
          LET number == [c \in Canvases |->
                           Cardinality({d \in 0..c : selected[d] # None})]
          IN  /\ workers = [w \in WorkerIds |->
                     [NoWorker EXCEPT !.phase =
                         IF w <= number[1] THEN "running" ELSE "none"]]
              /\ commWorkersId = [c \in Canvases |->
                     IF selected[c] = None THEN 0 ELSE number[c]]
              /\ scenes = [c \in Canvases |->
                     [sensorId |-> selected[c], scene |-> None]]
  BY DEF Init
<1>00. /\ page = "ready"
       /\ lockingMode = FALSE /\ lockedSkeletons = None /\ lockBtnToggle = FALSE
       /\ automaticSkeletonTimeoutVar = 0 /\ intervals = {}
       /\ numOfSkeletonsRequired = Default
       /\ drawn = [c \in Canvases |-> 0] /\ sent = None
  BY DEF Init
<1> DEFINE Chosen(c) == {d \in 0..c : selected[d] # None}
           number == [c \in Canvases |-> Cardinality(Chosen(c))]
<1>1. IsFiniteSet(0..1) /\ Cardinality(0..1) = 2
  <2>1. IsFiniteSet({0}) /\ Cardinality({0}) = 1
    BY FS_Singleton
  <2>2. /\ IsFiniteSet({0} \cup {1})
        /\ Cardinality({0} \cup {1}) = Cardinality({0}) + 1
    BY <2>1, 1 \notin {0}, FS_AddElement
  <2>3. 0..1 = {0} \cup {1}
    OBVIOUS
  <2>. QED
    BY <2>1, <2>2, <2>3
<1>2. /\ IsFiniteSet(Chosen(1)) /\ Cardinality(Chosen(1)) <= 2
      /\ Cardinality(Chosen(1)) \in Nat
  BY <1>1, FS_Subset, FS_CardinalityType
<1>3. Cardinality(Chosen(0)) <= Cardinality(Chosen(1)) /\ Cardinality(Chosen(0)) \in Nat
  <2>1. Chosen(0) \subseteq Chosen(1)
    OBVIOUS
  <2>2. IsFiniteSet(Chosen(0)) /\ Cardinality(Chosen(0)) <= Cardinality(Chosen(1))
    BY <1>2, <2>1, FS_Subset
  <2>. QED
    BY <2>2, FS_CardinalityType
<1>4. number \in [Canvases -> 0..2] /\ number[0] <= number[1]
  BY <1>2, <1>3 DEF Canvases
<1>5. /\ workers = [w \in WorkerIds |->
           [NoWorker EXCEPT !.phase = IF w <= number[1] THEN "running" ELSE "none"]]
      /\ commWorkersId = [c \in Canvases |->
           IF selected[c] = None THEN 0 ELSE number[c]]
      /\ scenes = [c \in Canvases |-> [sensorId |-> selected[c], scene |-> None]]
  BY <1>0
<1> HIDE DEF number
<1>6. Typed
  <2>1. workers \in [WorkerIds -> Worker]
    <3>1. /\ [NoWorker EXCEPT !.phase = "running"] \in Worker
          /\ [NoWorker EXCEPT !.phase = "none"] \in Worker
      BY WorkerFields
    <3>2. ASSUME NEW w \in WorkerIds
          PROVE  \/ workers[w] = [NoWorker EXCEPT !.phase = "running"]
                 \/ workers[w] = [NoWorker EXCEPT !.phase = "none"]
      <4>1. CASE w <= number[1]
        BY <1>5, <4>1
      <4>2. CASE ~(w <= number[1])
        BY <1>5, <4>2
      <4>. QED
        BY <4>1, <4>2
    <3>3. workers = [w \in WorkerIds |-> workers[w]]
      BY <1>5
    <3>. QED
      BY ONLY <3>1, <3>2, <3>3
  <2>2. commWorkersId \in [Canvases -> WorkerIds \cup {0}]
    <3>1. 0..2 \subseteq WorkerIds \cup {0}
      BY PageAssumption, WorkerBounds DEF WorkerIds
    <3>. QED
      BY ONLY <1>4, <1>5, <3>1
  <2>3. scenes \in [Canvases -> CanvasScene]
    BY <1>5 DEF CanvasScene
  <2>4. /\ page \in {"ready", "broken"}
        /\ lockingMode \in BOOLEAN /\ lockBtnToggle \in BOOLEAN
        /\ automaticSkeletonTimeoutVar \in Timers \cup {0}
        /\ numOfSkeletonsRequired \in Inputs \cup {Default}
        /\ drawn \in [Canvases -> Nat]
    BY <1>00
  <2>. QED
    BY ONLY <2>1, <2>2, <2>3, <2>4 DEF Typed
<1>7. Started
  <2>1. ASSUME NEW w \in WorkerIds, workers[w].phase = "none"
        PROVE  workers[w] = NoWorker
    <3>1. workers[w] = [NoWorker EXCEPT !.phase =
                          IF w <= number[1] THEN "running" ELSE "none"]
      BY <1>5
    <3>2. workers[w].phase = IF w <= number[1] THEN "running" ELSE "none"
      BY <3>1 DEF NoWorker
    <3>3. workers[w] = [NoWorker EXCEPT !.phase = "none"]
      BY <2>1, <3>1, <3>2
    <3>. QED
      BY <3>3 DEF NoWorker
  <2>2. ASSUME NEW c \in Canvases, commWorkersId[c] # 0
        PROVE  workers[commWorkersId[c]].phase # "none"
    <3>1. /\ commWorkersId[c] = number[c]
          /\ number[c] \in WorkerIds /\ number[c] <= number[1]
      BY <1>4, <1>5, <2>2, WorkerBounds, PageAssumption DEF Canvases, WorkerIds
    <3>. QED
      <4> DEFINE w == commWorkersId[c]
      <4>0. w \in WorkerIds /\ w <= number[1]
        BY <3>1
      <4> HIDE DEF w
      <4>1. workers[w] = [NoWorker EXCEPT !.phase = "running"]
        BY <1>5, <4>0
      <4>. QED
        BY <4>1 DEF NoWorker, w
  <2>. QED
    BY <2>1, <2>2 DEF Started
<1>. QED
  BY <1>00, <1>6, <1>7
  DEF IInv, PairsLocked, DrawnBounded, OneTimer, SentUsable

-------------------------------------------------------------------------------
\* Loading the page keeps what the local storage holds.
LEMMA LoadStep == IInv /\ Load => IInv'
<1> SUFFICES ASSUME IInv, NEW outcome \in {"ready", "broken"}, Loaded(outcome)
             PROVE  IInv'
  BY DEF Load
<1>1. Typed'
  <2>1. NoScene \in CanvasScene
    BY DEF NoScene, CanvasScene
  <2>. QED
    BY <2>1, WorkerFields DEF Loaded, Typed, IInv
<1>2. Started'
  BY DEF Loaded, Started, WorkerIds
<1>. QED
  BY <1>1, <1>2 DEF Loaded, IInv, PairsLocked, DrawnBounded, OneTimer, SentUsable

\* Replacing a worker by one that was started keeps what the page knows of them.
LEMMA WorkerChanged ==
    ASSUME workers \in [WorkerIds -> Worker], Started,
           commWorkersId \in [Canvases -> WorkerIds \cup {0}],
           NEW w \in WorkerIds, NEW v \in Worker, v.phase # "none",
           workers' = [workers EXCEPT ![w] = v], UNCHANGED commWorkersId
    PROVE  workers' \in [WorkerIds -> Worker] /\ Started'
BY DEF Started

\* Selecting a sensor starts a worker, and opening the menu stops one.
LEMMA SelectStep ==
    ASSUME IInv, NEW c \in Canvases,
           RemoveCommWorker(c) \/ \E sensor \in Sensors : SensorSelectionHandler(c, sensor)
    PROVE  IInv'
<1>1. CASE RemoveCommWorker(c)
  <2>1. workers' \in [WorkerIds -> Worker] /\ Started'
    <3>1. CASE commWorkersId[c] = 0
      BY <1>1, <3>1 DEF RemoveCommWorker, IInv, Typed, Started
    <3>2. CASE commWorkersId[c] # 0
      <4> DEFINE w == commWorkersId[c]
      <4>1. w \in WorkerIds /\ workers[w].phase # "none"
        BY <3>2 DEF IInv, Typed, Started
      <4>2. workers' = [workers EXCEPT ![w] = [workers[w] EXCEPT !.told = TRUE]]
        BY <1>1, <3>2 DEF RemoveCommWorker, StopCommWorker
      <4>3. /\ [workers[w] EXCEPT !.told = TRUE] \in Worker
            /\ [workers[w] EXCEPT !.told = TRUE].phase = workers[w].phase
        <5>1. workers[w] \in Worker
          BY <4>1 DEF IInv, Typed
        <5> HIDE DEF w
        <5>. QED
          BY <5>1, WorkerFields DEF Worker
      <4>4. UNCHANGED commWorkersId
        BY <1>1 DEF RemoveCommWorker
      <4>5. /\ workers \in [WorkerIds -> Worker] /\ Started
            /\ commWorkersId \in [Canvases -> WorkerIds \cup {0}]
        BY DEF IInv, Typed
      <4> HIDE DEF w
      <4>. QED
        BY ONLY <4>1, <4>2, <4>3, <4>4, <4>5, WorkerChanged
    <3>. QED
      BY <3>1, <3>2
  <2>. QED
    BY <1>1, <2>1
    DEF RemoveCommWorker, IInv, Typed, PairsLocked, DrawnBounded, OneTimer, SentUsable
<1>2. ASSUME NEW sensor \in Sensors, SensorSelectionHandler(c, sensor)
      PROVE  IInv'
  <2>1. PICK w \in WorkerIds : /\ StartCommWorker(w)
                               /\ commWorkersId' = [commWorkersId EXCEPT ![c] = w]
    BY <1>2 DEF SensorSelectionHandler
  <2>2. scenes' \in [Canvases -> CanvasScene]
    BY <1>2 DEF SensorSelectionHandler, CanvasScene, IInv, Typed
  <2>3. workers' \in [WorkerIds -> Worker]
    BY <2>1, WorkerFields DEF StartCommWorker, IInv, Typed
  <2>4. Started'
    BY <2>1, WorkerFields, SMTT(30) DEF StartCommWorker, IInv, Typed, Started
  <2>. QED
    BY <1>2, <2>1, <2>2, <2>3, <2>4
    DEF SensorSelectionHandler, IInv, Typed, PairsLocked, DrawnBounded, OneTimer,
        SentUsable
<1>. QED
  BY <1>1, <1>2

\* A worker that posts or ends stays a worker that was started.
LEMMA WorkerStepKeeps ==
    ASSUME IInv, NEW w \in WorkerIds, Works(w)
    PROVE  IInv'
<1>1. workers[w] \in Worker
  BY DEF IInv, Typed
<1>2. PICK v \in Worker : /\ workers' = [workers EXCEPT ![w] = v]
                          /\ workers[w].phase # "none" /\ v.phase # "none"
  <2>1. CASE SceneCallback(w)
    <3>1. PICK a \in Answers :
              workers' = [workers EXCEPT ![w] = [workers[w] EXCEPT !.mail = Append(@, a)]]
      BY <2>1 DEF SceneCallback
    <3>2. /\ [workers[w] EXCEPT !.mail = Append(@, a)] \in Worker
          /\ [workers[w] EXCEPT !.mail = Append(@, a)].phase = workers[w].phase
      BY <1>1, WorkerFields DEF Worker
    <3>. QED
      BY <2>1, <3>1, <3>2 DEF SceneCallback
  <2>2. CASE Closes(w)
    <3>1. /\ [workers[w] EXCEPT !.phase = "closed"] \in Worker
          /\ [workers[w] EXCEPT !.phase = "closed"].phase = "closed"
      BY <1>1, WorkerFields DEF Worker
    <3>. QED
      BY <2>2, <3>1 DEF Closes
  <2>. QED
    BY <2>1, <2>2 DEF Works, WorkerStep
<1>3. workers' \in [WorkerIds -> Worker] /\ Started'
  BY <1>2, WorkerChanged DEF Works, pageVars, IInv, Typed
<1>. QED
  BY <1>3
  DEF Works, IInv, Typed, PairsLocked, DrawnBounded, OneTimer, SentUsable, pageVars

\* The scenes a page shows are the server's, and what it locks are pairs.
LEMMA NetworkStep ==
    ASSUME IInv, NEW w \in WorkerIds, NetworkHandler(w)
    PROVE  IInv'
<1> DEFINE data == Head(workers[w].mail)
<1>1. workers[w] \in Worker /\ data \in Answers
  BY WorkerFields DEF NetworkHandler, IInv, Typed
<1>2. workers' \in [WorkerIds -> Worker] /\ Started'
  <2>1. /\ [workers[w] EXCEPT !.mail = Tail(@)] \in Worker
        /\ [workers[w] EXCEPT !.mail = Tail(@)].phase = workers[w].phase
    BY <1>1, WorkerFields DEF NetworkHandler, Worker
  <2>2. workers[w].phase # "none"
    BY DEF NetworkHandler, IInv, Started, NoWorker
  <2>3. workers' = [workers EXCEPT ![w] = [workers[w] EXCEPT !.mail = Tail(@)]]
    BY DEF NetworkHandler
  <2>. QED
    BY <2>1, <2>2, <2>3, WorkerChanged DEF NetworkHandler, IInv, Typed
<1>3. data # Garbled => Shown(data) \in [Canvases -> CanvasScene]
  BY <1>1, PageAssumption DEF Shown, IInv, Typed, CanvasScene
<1>4. scenes' \in [Canvases -> CanvasScene]
  BY <1>3 DEF NetworkHandler, IInv, Typed
<1>5. CASE data # Garbled /\ Locks(data)
  <2> DEFINE shown == Shown(data)
             head == [c \in Canvases |-> shown[c].scene.skeletons[1]]
  <2>1. lockedSkeletons \in Pairs
    BY <1>5 DEF Locks, IInv, PairsLocked
  <2>2. \A c \in Canvases : head[c] \in Nat /\ head[c] >= FullSkeleton
    <3>1. ASSUME NEW c \in Canvases
          PROVE  /\ shown[c].scene.skeletons \in Seq(Nat)
                 /\ shown[c].scene.skeletons # <<>>
      <4>1. shown[c] \in CanvasScene /\ shown[c].scene # None
        BY <1>3, <1>5 DEF Locks, PairSeen
      <4>2. shown[c].scene \in Scenes
        BY ONLY <4>1 DEF CanvasScene
      <4>. QED
        BY <1>5, <4>2, PageAssumption DEF Locks, PairSeen, Scenes
    <3>2. \A c \in Canvases : head[c] >= FullSkeleton
      BY <1>5 DEF Locks, PairSeen, BothFull, Canvases
    <3>3. \A c \in Canvases : head[c] \in Nat
      BY <3>1
    <3>. QED
      BY <3>2, <3>3
  <2>3. lockedSkeletons' = [c \in Canvases |-> Append(lockedSkeletons[c], head[c])]
    BY <1>5 DEF NetworkHandler, PairLocked
  <2> HIDE DEF head
  <2>4. lockedSkeletons' \in Pairs
    BY <2>1, <2>2, <2>3, PairsGrow
  <2>. QED
    BY <1>2, <1>4, <2>4
    DEF NetworkHandler, IInv, Typed, PairsLocked, DrawnBounded, OneTimer, SentUsable
<1>6. CASE ~(data # Garbled /\ Locks(data))
  BY <1>2, <1>4, <1>6
  DEF NetworkHandler, IInv, Typed, PairsLocked, DrawnBounded, OneTimer, SentUsable
<1>. QED
  BY <1>5, <1>6

\* The handlers of the locking keep one interval, as long as the button is on.
LEMMA LockingStep ==
    ASSUME IInv,
           \/ LockBtnHandler \/ AutomaticSceneLockingHandler
           \/ \E number \in Inputs : SkeletonRequiredHandler(number)
    PROVE  IInv'
<1>1. CASE LockBtnHandler /\ LockBtnOn
  <2>1. Cleared = {} /\ automaticSkeletonTimeoutVar' \in Timers
    BY <1>1 DEF LockBtnOn, Cleared, Timers, IInv, OneTimer
  <2>2. lockedSkeletons' \in Pairs
    BY <1>1 DEF LockBtnOn, Pairs, Canvases
  <2>. QED
    BY <1>1, <2>1, <2>2
    DEF LockBtnHandler, LockBtnOn, IInv, Typed, Started, PairsLocked, DrawnBounded,
        OneTimer, SentUsable
<1>2. CASE LockBtnHandler /\ LockBtnOff
  BY <1>2
  DEF LockBtnHandler, LockBtnOff, Cleared, IInv, Typed, Started, PairsLocked,
      DrawnBounded, OneTimer, SentUsable
<1>3. CASE AutomaticSceneLockingHandler
  BY <1>3
  DEF AutomaticSceneLockingHandler, IInv, Typed, Started, PairsLocked, DrawnBounded,
      OneTimer, SentUsable
<1>4. CASE \E number \in Inputs : SkeletonRequiredHandler(number)
  BY <1>4
  DEF SkeletonRequiredHandler, IInv, Typed, Started, PairsLocked, DrawnBounded,
      OneTimer, SentUsable
<1>. QED
  BY <1>1, <1>2, <1>3, <1>4 DEF LockBtnHandler

\* What is sent comes of the pairs that were locked.
LEMMA CalibrateStep == IInv /\ CalibrateBtnHandler => IInv'
<1> SUFFICES ASSUME IInv, CalibrateBtnHandler PROVE IInv'
  OBVIOUS
<1> DEFINE g == [c \in Canvases |->
                   Spliced(lockedSkeletons[c], numOfSkeletonsRequired)]
<1>1. /\ g \in Pairs
      /\ numOfSkeletonsRequired \in Nat => Len(g[0]) <= numOfSkeletonsRequired
  BY SplicedPairs DEF CalibrateBtnHandler, IInv, Typed, PairsLocked
<1>2. sent' = [required |-> numOfSkeletonsRequired, skeletons |-> g]
  BY DEF CalibrateBtnHandler
<1> HIDE DEF g
<1>3. SentUsable'
  BY <1>1, <1>2 DEF SentUsable, Pairs
<1>. QED
  BY <1>3
  DEF CalibrateBtnHandler, IInv, Typed, Started, PairsLocked, DrawnBounded, OneTimer

\* A frame halves what is left over and adds at most the largest scene.
LEMMA DrawStep ==
    ASSUME IInv, NEW c \in Foreground, ReconstructFn(c)
    PROVE  IInv'
<1> DEFINE scene == scenes[c].scene
           bodies == IF scene = None THEN <<>> ELSE scene.skeletons
           short == {i \in DOMAIN bodies : bodies[i] < FullSkeleton}
           added == IF short = {} THEN Len(bodies)
                    ELSE (CHOOSE i \in short : \A j \in short : i <= j) - 1
<1>1. c \in Canvases /\ scenes[c] \in CanvasScene /\ drawn[c] \in Nat
  BY PageAssumption DEF Canvases, IInv, Typed
<1>2. Len(bodies) \in Nat /\ Len(bodies) <= Largest /\ DOMAIN bodies = 1..Len(bodies)
  BY <1>1, LargestScene DEF CanvasScene, Scenes
<1>3. added \in Nat /\ added <= Largest
  <2> HIDE DEF bodies
  <2>1. CASE short = {}
    BY <1>2, <2>1
  <2>2. CASE short # {}
    <3>1. short \subseteq Nat
      BY <1>2
    <3>2. \E i \in short : \A j \in short : i <= j
      BY <2>2, <3>1, Least
    <3>3. (CHOOSE i \in short : \A j \in short : i <= j) \in 1..Len(bodies)
      BY <1>2, <3>2
    <3>. QED
      BY <1>2, <2>2, <3>3, LargestScene
  <2>. QED
    BY <2>1, <2>2
<1>4. drawn' = [drawn EXCEPT ![c] = drawn[c] \div 2 + added]
  BY DEF ReconstructFn, Remaining
<1> HIDE DEF added
<1>5. drawn[c] \div 2 \in Nat /\ (drawn[c] = 0 => drawn[c] \div 2 = 0)
      /\ 2 * (drawn[c] \div 2) <= drawn[c]
  BY <1>1
<1>6. drawn' \in [Canvases -> Nat] /\ DrawnBounded'
  BY <1>1, <1>3, <1>4, <1>5, LargestScene DEF DrawnBounded, IInv, Typed
<1>. QED
  BY <1>6 DEF ReconstructFn, IInv, Typed, Started, PairsLocked, OneTimer, SentUsable

\* Every handler of the page and every step of a worker keeps the invariant.
THEOREM StepIInv == IInv /\ [Next]_vars => IInv'
<1>1. CASE UNCHANGED vars /\ IInv
  BY <1>1
  DEF vars, pageVars, IInv, Typed, Started, PairsLocked, DrawnBounded, OneTimer,
      SentUsable
<1>. QED
  BY <1>1, LoadStep, SelectStep, WorkerStepKeeps, NetworkStep, LockingStep,
     CalibrateStep, DrawStep
  DEF Next, User

\* So the inductive invariant holds in every reachable state.
THEOREM InvariantHolds == Spec => []IInv
BY InitIInv, StepIInv, PTL DEF Spec

-------------------------------------------------------------------------------
\* Every variable of the page keeps its type, and no canvas ever shows twice as
\* many skeletons as the largest scene has, for whatever frames and scenes.
THEOREM PageTypeCorrect == Spec => []PageTypeOK
<1>1. IInv => PageTypeOK
  BY DEF IInv, Typed, Started, DrawnBounded, Worker, CanvasScene, PageTypeOK, WorkersOK
<1>. QED
  BY <1>1, InvariantHolds, PTL

\* Whatever order answers, clicks and reloads come in, the skeletons that are
\* sent to be calibrated are paired, whole and no more than required.
THEOREM CalibrationInputUsable == Spec => []SentUsable
<1>1. IInv => SentUsable
  BY DEF IInv
<1>. QED
  BY <1>1, InvariantHolds, PTL

\* However often the button is clicked, there is one interval while it is on
\* and none while it is off.
THEOREM AtMostOneInterval == Spec => []OneTimer
<1>1. IInv => OneTimer
  BY DEF IInv
<1>. QED
  BY <1>1, InvariantHolds, PTL
===============================================================================
