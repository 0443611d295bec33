----------------------------- MODULE CalibrationPage ----------------------------
(***************************************************************************)
(* The calibration page (Web/JS/calibration.js): the user selects a sensor  *)
(* for each of two canvases, locks skeletons seen by both at the same time  *)
(* and has the server calibrate the pair of scenes with them.  Handlers run *)
(* one at a time; what they share is in fields of the page and in the local *)
(* storage, which outlives it.                                              *)
(*                                                                         *)
(* A skeleton is its number of joints.                                      *)
(***************************************************************************)
EXTENDS CommWorker, FiniteSets

CONSTANTS
    Sensors,    \* the sensors of the listing
    Bodies,     \* the skeletons of scenes, as sequences
    Inputs,     \* what the user enters as the number of skeletons
    Default,    \* the number before, 35 in the code
    MaxPairs,   \* bound: pairs of skeletons locked
    MaxClicks,  \* bound: what the user does, loading the page included
    None,       \* null, and an empty answer
    Garbled,    \* an answer that is no JSON
    Foreground, \* bound: canvases whose frames are drawn
    NaN         \* the number of a text such as "2x", which parseInt accepts

Scenes == [sensor : Sensors, skeletons : Bodies]

\* A scene of the server holds a bounded number of skeletons, so there is a
\* largest; a page has a worker for each of its two canvases.
ASSUME PageAssumption ==
    /\ Bodies \subseteq Seq(Nat)
    /\ \E b \in Bodies : \A d \in Bodies : Len(d) <= Len(b)
    /\ Answers \subseteq Scenes \cup {None, Garbled}
    /\ Inputs \subseteq Int \cup {NaN}
    /\ NaN \notin Int
    /\ Foreground \subseteq {0, 1}
    /\ Default \in Nat /\ MaxPairs \in Nat
    /\ MaxWorkers >= 2

VARIABLES
    page,          \* whether Init came to its end
    commWorkersId, \* the last worker started for each canvas
    menu,          \* whether the menu of a canvas is open
    scenes, lockingMode, lockedSkeletons,  \* the local storage
    lockBtnToggle, automaticSkeletonTimeoutVar,
    intervals,     \* the intervals that fire
    numOfSkeletonsRequired,
    drawn, dead,   \* the skeletons on each canvas; whether its drawing ended
    sent,          \* the arguments of the last calibrateScene
    clicks         \* how much the user has done

pageVars == <<page, commWorkersId, menu, scenes, lockingMode, lockedSkeletons,
              lockBtnToggle, automaticSkeletonTimeoutVar, intervals,
              numOfSkeletonsRequired, drawn, dead, sent, clicks>>
vars == <<pageVars, workers>>

Canvases == {0, 1}
Timers == {1, 2}

AtLeast(n, number) == number # NaN /\ n >= number

\* list.splice(number, list.length - number), what it leaves: all of it if the
\* number is none, and for a negative one all but as many at the end.
Spliced(list, number) ==
    CASE number = NaN -> list
      [] number # NaN /\ number >= 0 ->
            SubSeq(list, 1, IF number < Len(list) THEN number ELSE Len(list))
      [] OTHER -> SubSeq(list, 1, Len(list) + number)

-----------------------------------------------------------------------------
(* Init of the page.  It ends early when the server does not answer, which    *)
(* leaves a page without handlers, and the locking mode as it was stored.     *)

Clicks == clicks < MaxClicks /\ clicks' = clicks + 1

NoScene == [sensorId |-> None, scene |-> None]

Loaded(outcome) ==
    /\ page' = outcome
    /\ workers' = [w \in WorkerIds |-> NoWorker]
    /\ commWorkersId' = [c \in Canvases |-> 0]
    /\ menu' = [c \in Canvases |-> FALSE]
    /\ scenes' = [c \in Canvases |-> NoScene]
    /\ lockingMode' = (lockingMode /\ outcome = "broken")
    /\ lockBtnToggle' = FALSE
    /\ automaticSkeletonTimeoutVar' = 0
    /\ intervals' = {}
    /\ numOfSkeletonsRequired' = Default
    /\ drawn' = [c \in Canvases |-> 0]
    /\ dead' = [c \in Canvases |-> outcome = "broken"]
    /\ sent' = None
    /\ UNCHANGED lockedSkeletons

Load == Clicks /\ \E outcome \in {"ready", "broken"} : Loaded(outcome)

\* The page before the user touches it, or with a sensor selected for some of
\* the canvases.
Init ==
    \E selected \in [Canvases -> Sensors \cup {None}] :
        LET number == [c \in Canvases |->
                         Cardinality({d \in 0..c : selected[d] # None})]
        IN  /\ page = "ready"
            /\ workers = [w \in WorkerIds |->
                             [NoWorker EXCEPT !.phase =
                                 IF w <= number[1] THEN "running" ELSE "none"]]
            /\ commWorkersId = [c \in Canvases |->
                                   IF selected[c] = None THEN 0 ELSE number[c]]
            /\ scenes = [c \in Canvases |-> [sensorId |-> selected[c], scene |-> None]]
            /\ menu = [c \in Canvases |-> FALSE]
            /\ lockingMode = FALSE
            /\ lockedSkeletons = None
            /\ lockBtnToggle = FALSE
            /\ automaticSkeletonTimeoutVar = 0
            /\ intervals = {}
            /\ numOfSkeletonsRequired = Default
            /\ drawn = [c \in Canvases |-> 0]
            /\ dead = [c \in Canvases |-> FALSE]
            /\ sent = None
            /\ clicks = 0

Ready == page = "ready" /\ Clicks

-----------------------------------------------------------------------------
(* Selecting sensors *)

\* RemoveCommWorker, on a click that opens the menu of a canvas or closes it.
RemoveCommWorker(c) ==
    /\ Ready
    /\ menu' = [d \in Canvases |-> d = c /\ ~menu[c]]
    /\ IF commWorkersId[c] = 0 THEN UNCHANGED workers
       ELSE StopCommWorker(commWorkersId[c])
    /\ UNCHANGED <<page, commWorkersId, scenes, lockingMode, lockedSkeletons,
                   lockBtnToggle, automaticSkeletonTimeoutVar, intervals,
                   numOfSkeletonsRequired, drawn, dead, sent>>

SensorSelectionHandler(c, sensor) ==
    /\ Ready /\ menu[c]
    /\ menu' = [d \in Canvases |-> FALSE]
    /\ \E w \in WorkerIds :
          /\ StartCommWorker(w)
          /\ commWorkersId' = [commWorkersId EXCEPT ![c] = w]
    /\ scenes' = [scenes EXCEPT ![c].sensorId = sensor]
    /\ UNCHANGED <<page, lockingMode, lockedSkeletons, lockBtnToggle,
                   automaticSkeletonTimeoutVar, intervals, numOfSkeletonsRequired,
                   drawn, dead, sent>>

-----------------------------------------------------------------------------
(* Messages of the workers *)

FullSkeleton == 20
\* Mutant: only the first scene's skeleton is looked at.
FirstOnly(a, b) == a >= FullSkeleton
BothFull(a, b) == a >= FullSkeleton /\ b >= FullSkeleton

\* Both scenes begin with a skeleton that has its joints.
PairSeen(shown) ==
    /\ \A c \in Canvases : shown[c].scene # None /\ shown[c].scene.skeletons # <<>>
    /\ BothFull(shown[0].scene.skeletons[1], shown[1].scene.skeletons[1])

PairLocked(shown) ==
    [c \in Canvases |-> Append(lockedSkeletons[c], shown[c].scene.skeletons[1])]

\* A scene is kept for every canvas its sensor is selected for; an empty answer
\* takes the scenes of both.
Shown(data) ==
    [c \in Canvases |->
        CASE data = None -> [scenes[c] EXCEPT !.scene = None]
          [] data # None /\ data.sensor = scenes[c].sensorId ->
                [scenes[c] EXCEPT !.scene = data]
          [] OTHER -> scenes[c]]

Locks(data) == lockingMode /\ data # None /\ PairSeen(Shown(data))

NetworkHandler(w) ==
    /\ workers[w].mail # <<>>
    /\ workers' = [workers EXCEPT ![w].mail = Tail(@)]
    /\ LET data == Head(workers[w].mail) IN
       IF data = Garbled THEN UNCHANGED <<scenes, lockedSkeletons>>  \* it throws
       ELSE /\ scenes' = Shown(data)
            /\ IF Locks(data)
               THEN /\ Len(lockedSkeletons[0]) < MaxPairs
                    /\ lockedSkeletons' = PairLocked(Shown(data))
               ELSE UNCHANGED lockedSkeletons
    /\ UNCHANGED <<page, commWorkersId, menu, lockingMode, lockBtnToggle,
                   automaticSkeletonTimeoutVar, intervals, numOfSkeletonsRequired,
                   drawn, dead, sent, clicks>>

-----------------------------------------------------------------------------
(* Locking *)

\* A text that parseInt refuses changes nothing.
SkeletonRequiredHandler(number) ==
    /\ Ready
    /\ numOfSkeletonsRequired' = number
    /\ UNCHANGED <<page, commWorkersId, menu, scenes, lockingMode, lockedSkeletons,
                   lockBtnToggle, automaticSkeletonTimeoutVar, intervals, drawn, dead,
                   sent, workers>>

\* Mutant: the interval before is not cleared.
NeverCleared == intervals
Cleared == intervals \ {automaticSkeletonTimeoutVar}

\* setInterval gives a number no other interval has.
LockBtnOn ==
    /\ ~lockBtnToggle
    /\ lockBtnToggle' = TRUE
    /\ lockingMode' = TRUE
    /\ lockedSkeletons' = [c \in Canvases |-> <<>>]
    /\ automaticSkeletonTimeoutVar' = CHOOSE t \in Timers : t \notin Cleared
    /\ intervals' = Cleared \cup {automaticSkeletonTimeoutVar'}

LockBtnOff ==
    /\ lockBtnToggle
    /\ lockBtnToggle' = FALSE
    /\ lockingMode' = FALSE
    /\ intervals' = Cleared
    /\ UNCHANGED <<lockedSkeletons, automaticSkeletonTimeoutVar>>

LockBtnHandler ==
    /\ Ready
    /\ LockBtnOn \/ LockBtnOff
    /\ UNCHANGED <<page, commWorkersId, menu, scenes, numOfSkeletonsRequired, drawn,
                   dead, sent, workers>>

\* Mutant: an off-by-one in the comparison.
MoreThan(n, number) == number # NaN /\ n > number
Enough(n, number) == AtLeast(n, number)

\* An interval fires.
AutomaticSceneLockingHandler ==
    /\ intervals # {}
    /\ lockedSkeletons # None
    /\ Enough(Len(lockedSkeletons[0]), numOfSkeletonsRequired)
    /\ lockingMode' = FALSE
    /\ UNCHANGED <<page, commWorkersId, menu, scenes, lockedSkeletons, lockBtnToggle,
                   automaticSkeletonTimeoutVar, intervals, numOfSkeletonsRequired,
                   drawn, dead, sent, clicks, workers>>

-----------------------------------------------------------------------------
\* CalibrateBtnHandler.  It throws before it sends anything when no skeletons
\* were ever locked or a scene is missing.
CalibrateBtnHandler ==
    /\ Ready
    /\ lockedSkeletons # None
    /\ \A c \in Canvases : scenes[c].scene # None /\ lockedSkeletons[c] # <<>>
    /\ sent' = [required |-> numOfSkeletonsRequired,
                skeletons |-> [c \in Canvases |->
                                 Spliced(lockedSkeletons[c], numOfSkeletonsRequired)]]
    /\ UNCHANGED <<page, commWorkersId, menu, scenes, lockingMode, lockedSkeletons,
                   lockBtnToggle, automaticSkeletonTimeoutVar, intervals,
                   numOfSkeletonsRequired, drawn, dead, workers>>

-----------------------------------------------------------------------------
(* Drawing *)

\* Mutant: no skeleton of the frame before is removed.
KeepsAll(n) == n

\* Mutant: an off-by-one, the loop begins behind the first skeleton.
FirstStays(n) == (n + 1) \div 2

\* The loop removes children by their index while they move up, so every second
\* skeleton stays.
Remaining(n) == n \div 2

\* ReconstructFn in a frame of render.  A skeleton without its joints throws,
\* and the next frame is never asked for.
ReconstructFn(c) ==
    /\ ~dead[c]
    /\ LET scene == scenes[c].scene
           bodies == IF scene = None THEN <<>> ELSE scene.skeletons
           short == {i \in DOMAIN bodies : bodies[i] < FullSkeleton}
           added == IF short = {} THEN Len(bodies)
                    ELSE (CHOOSE i \in short : \A j \in short : i <= j) - 1
       IN  /\ drawn' = [drawn EXCEPT ![c] = Remaining(@) + added]
           /\ dead' = [dead EXCEPT ![c] = short # {}]
    /\ UNCHANGED <<page, commWorkersId, menu, scenes, lockingMode, lockedSkeletons,
                   lockBtnToggle, automaticSkeletonTimeoutVar, intervals,
                   numOfSkeletonsRequired, sent, clicks, workers>>

-----------------------------------------------------------------------------
User ==
    \/ \E c \in Canvases :
          \/ RemoveCommWorker(c)
          \/ \E sensor \in Sensors : SensorSelectionHandler(c, sensor)
    \/ \E number \in Inputs : SkeletonRequiredHandler(number)
    \/ LockBtnHandler \/ CalibrateBtnHandler

Works(w) == WorkerStep(w) /\ UNCHANGED pageVars

Next ==
    \/ Load \/ User \/ AutomaticSceneLockingHandler
    \/ \E w \in WorkerIds : Works(w) \/ NetworkHandler(w)
    \/ \E c \in Foreground : ReconstructFn(c)

Spec == Init /\ [][Next]_vars

\* The browser runs what is due: an interval again and again, and a frame of
\* every canvas of a page in the foreground.
FairSpec ==
    /\ Spec
    /\ WF_vars(AutomaticSceneLockingHandler)
    /\ \A c \in Foreground : WF_vars(ReconstructFn(c))

-----------------------------------------------------------------------------
(* Types.  A canvas never shows twice as many skeletons as the largest scene  *)
(* has, although what is drawn is never all removed (calibration.js:414-445). *)
Largest == CHOOSE n \in {Len(b) : b \in Bodies} : \A b \in Bodies : Len(b) <= n
PageTypeOK ==
    /\ WorkersOK
    /\ page \in {"ready", "broken"}
    /\ commWorkersId \in [Canvases -> WorkerIds \cup {0}]
    /\ \A c \in Canvases :
          /\ scenes[c].sensorId \in Sensors \cup {None}
          /\ scenes[c].scene \in Scenes \cup {None}
          /\ drawn[c] = 0 \/ drawn[c] < 2 * Largest
    /\ automaticSkeletonTimeoutVar \in Timers \cup {0}
    /\ numOfSkeletonsRequired \in Inputs \cup {Default}

(* What is sent to be calibrated is what the server can use: as many          *)
(* skeletons of one scene as of the other, all with their joints, and, if a   *)
(* natural number is required, no more than that (calibration.js:270-316,     *)
(* 383-389; MinorityViewportAlgo.cpp:220-223).                                *)
SentUsable ==
    sent # None =>
        /\ Len(sent.skeletons[0]) = Len(sent.skeletons[1])
        /\ \A c \in Canvases : \A i \in DOMAIN sent.skeletons[c] :
              sent.skeletons[c][i] >= FullSkeleton
        /\ sent.required \in Nat => Len(sent.skeletons[0]) <= sent.required

(* However often locking is started, stopped and completed, one interval at   *)
(* most watches it, exactly while the button is on (calibration.js:318-351).  *)
OneTimer == IF lockBtnToggle THEN intervals = {automaticSkeletonTimeoutVar}
            ELSE intervals = {}

(* Locking ends once there are as many pairs as required, also when the       *)
(* number is lowered meanwhile (calibration.js:353-366).                      *)
LockingEnds ==
    LET Complete == lockedSkeletons # None
                    /\ AtLeast(Len(lockedSkeletons[0]), numOfSkeletonsRequired)
    IN  (lockingMode /\ Complete) ~> (~lockingMode \/ ~Complete \/ page = "broken")

(* The canvas of a scene that is gone is cleared in the end, unless a         *)
(* skeleton without its joints has ended its drawing (calibration.js:412-445).*)
CanvasCleared ==
    \A c \in Foreground :
        <>[](scenes[c].scene = None) => []<>(drawn[c] = 0 \/ dead[c])
===============================================================================
