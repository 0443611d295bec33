--------------------------- MODULE CalibrationProofs ---------------------------
(***************************************************************************)
(* Theorems about the calibration of the scenes and the links and          *)
(* transformations a merge follows, for every set of ids, objects and      *)
(* sensors and every bound of the clock.                                   *)
(***************************************************************************)
EXTENDS Calibration, ViewportProofs

\* Nobody computes the order.
Settled == \A w \in Workers : pc[w] # "push"

\* Unless it is being computed, every scene of the order has a number, and the
\* one with the lowest number was linked as the first.
NumberInv ==
    Settled =>
        /\ \A s \in Range(ordered) : ordering[s] > 0
        /\ Len(ordered) > 1 =>
              \A s \in Range(ordered) : ordering[s] = 1 => left[s] = Null

\* So has every scene that was calibrated, in the order or not.
CalibratedInv ==
    Settled => \A s \in Live : calibrated[s] => ordering[s] > 0

-------------------------------------------------------------------------------
(***************************************************************************)
(* Types, with any number of workers.                                      *)
(***************************************************************************)
\* The matrices of a new scene, and of one deleted, are empty.
LEMMA CarryTypes == ASSUME CalibrationTypeOK, Carry PROVE CalibrationTypeOK'
<1>1. Garbage \in (Scenes \X Scenes) \cup {Garbage}
  OBVIOUS
<1>2. calibrated' \in [Scenes -> BOOLEAN]
  <2>1. calibrated \in [Scenes -> BOOLEAN]
    BY DEF CalibrationTypeOK
  <2>. QED
    BY <2>1 DEF Carry
<1>3. transform' \in [Scenes -> (Scenes \X Scenes) \cup {Garbage}]
  BY <1>1 DEF CalibrationTypeOK, Carry, New
<1>. QED
  BY <1>2, <1>3 DEF CalibrationTypeOK

\* A transform goes to a scene in the order, computed from two registered ones.
LEMMA CalibrateTypes ==
    ASSUME TypeInv, CalibrationTypeOK, NEW w \in Workers, NEW a \in Registered,
           NEW b \in Registered, NEW complete \in BOOLEAN, CalibrateScenes(w, a, b, complete)
    PROVE  CalibrationTypeOK'
<1>1. CASE UNCHANGED calibrationVars
  BY <1>1 DEF calibrationVars, CalibrationTypeOK
<1>2. CASE ~UNCHANGED calibrationVars
  <2>1. a \in Scenes /\ b \in Scenes /\ ordered \in Seq(Scenes)
    BY RegisteredScenes DEF TypeInv, TypeOK, ListTypeOK
  <2>2. PICK body \in {a, b}, ref \in {a, b} :
            /\ ordering[body] \in DOMAIN ordered /\ ordering[ref] \in DOMAIN ordered
            /\ transform' = [transform EXCEPT ![ordered[ordering[body]]] = <<body, ref>>]
            /\ calibrated' = [calibrated EXCEPT ![ordered[ordering[body]]] = TRUE,
                                                ![ordered[ordering[ref]]] = TRUE]
    <3>1. CASE ordering[a] < ordering[b]
      BY <1>2, <3>1 DEF CalibrateScenes
    <3>2. CASE ~(ordering[a] < ordering[b])
      BY <1>2, <3>2 DEF CalibrateScenes
    <3>. QED
      BY <3>1, <3>2
  <2>3. <<body, ref>> \in (Scenes \X Scenes) \cup {Garbage}
    BY <2>1, <2>2
  <2>4. transform' \in [Scenes -> (Scenes \X Scenes) \cup {Garbage}]
    BY <2>2, <2>3 DEF CalibrationTypeOK
  <2>5. calibrated' \in [Scenes -> BOOLEAN]
    BY <2>2 DEF CalibrationTypeOK
  <2>. QED
    BY <2>4, <2>5 DEF CalibrationTypeOK
<1>. QED
  BY <1>1, <1>2

\* To the registry and the order, a calibration or a merge is nothing or a failure.
LEMMA CalibrationSteps ==
    ASSUME CalibrationNext
    PROVE  \/ Next /\ Carry
           \/ /\ UNCHANGED calibrationVars
              /\ \E how \in {"undefined", "terminated"} : Fail(how)
           \/ /\ UNCHANGED vars
              /\ \E w \in Workers, a \in Registered, b \in Registered, complete \in BOOLEAN :
                    CalibrateScenes(w, a, b, complete)
<1>1. ASSUME NEW w \in Workers, NEW a \in Registered, NEW b \in Registered,
             NEW complete \in BOOLEAN, CalibrateScenes(w, a, b, complete)
      PROVE  \/ /\ UNCHANGED calibrationVars
                /\ \E how \in {"undefined", "terminated"} : Fail(how)
             \/ UNCHANGED vars
  BY <1>1 DEF CalibrateScenes
<1>2. ASSUME NEW w \in Workers, MergeFails(w)
      PROVE  /\ UNCHANGED calibrationVars
             /\ \E how \in {"undefined", "terminated"} : Fail(how)
  BY <1>2 DEF MergeFails
<1>. QED
  BY <1>1, <1>2 DEF CalibrationNext

\* Registry, order and calibration keep their types, with any number of workers.
THEOREM CalibrationTypeCorrect == CalibrationSpec => []CalibrationTypeOK
<1> DEFINE Inv == TypeInv /\ CalibrationTypeOK
<1>1. CalibrationInit => Inv
  <2> SUFFICES ASSUME CalibrationInit PROVE Inv
    OBVIOUS
  <2>1. CalibrationTypeOK
    BY DEF CalibrationInit, CalibrationTypeOK
  <2>. QED
    BY <2>1, ViewportInitTypes DEF CalibrationInit
<1>2. Inv /\ [CalibrationNext]_allVars => Inv'
  <2> SUFFICES ASSUME Inv, [CalibrationNext]_allVars PROVE Inv'
    OBVIOUS
  <2>1. CASE UNCHANGED allVars
    <3>1. UNCHANGED vars /\ UNCHANGED calibrationVars
      BY <2>1 DEF allVars
    <3>2. TypeInv'
      BY <3>1, ViewportStepTypes
    <3>. QED
      BY <3>1, <3>2 DEF CalibrationTypeOK, calibrationVars
  <2>2. CASE Next /\ Carry
    BY <2>2, ViewportStepTypes, CarryTypes
  <2>3. CASE UNCHANGED calibrationVars /\ \E how \in {"undefined", "terminated"} : Fail(how)
    <3>1. TypeInv'
      BY <2>3, FailKeepsTypes
    <3>. QED
      BY <2>3, <3>1 DEF CalibrationTypeOK, calibrationVars
  <2>4. CASE /\ UNCHANGED vars
             /\ \E w \in Workers, a \in Registered, b \in Registered, complete \in BOOLEAN :
                   CalibrateScenes(w, a, b, complete)
    BY <2>4, ViewportStepTypes, CalibrateTypes
  <2>. QED
    BY <2>1, <2>2, <2>3, <2>4, CalibrationSteps
<1>3. Inv => CalibrationTypeOK
  OBVIOUS
<1>. QED
  BY <1>1, <1>2, <1>3, PTL DEF CalibrationSpec

-------------------------------------------------------------------------------
(***************************************************************************)
(* Numbers and links, while requests do not overlap.                       *)
(***************************************************************************)
\* What is thinned out keeps its numbers and the first link.
LEMMA KeptNumbers ==
    ASSUME NEW w \in Workers, Alone(w), TypeInv, TypeInv', NumberInv, Kept(w)
    PROVE  NumberInv'
<1>1. /\ pc[w] # "push" /\ Thinned(ordered', ordered)
      /\ \A s \in Range(ordered) : ordering'[s] = ordering[s] /\ left'[s] = left[s]
  BY DEF Kept
<1>2. Settled
  BY <1>1 DEF Settled, Alone
<1>3. Range(ordered') \subseteq Range(ordered)
  BY <1>1, ThinnedRange
<1>4. \A s \in Range(ordered') : ordering'[s] > 0
  BY <1>1, <1>2, <1>3 DEF NumberInv
<1>5. ASSUME Len(ordered') > 1 PROVE Len(ordered) > 1
  <2>1. ordered \in Seq(Scenes) /\ ordered' \in Seq(Scenes)
    BY <1>5 DEF TypeInv, TypeOK
  <2>2. 1 \in DOMAIN ordered' /\ 2 \in DOMAIN ordered'
    BY <1>5, <2>1
  <2>3. PICK k \in DOMAIN ordered, l \in DOMAIN ordered : k < l
    BY <1>1, <2>2 DEF Thinned
  <2>. QED
    BY <2>1, <2>3
<1>. QED
  BY <1>1, <1>2, <1>3, <1>4, <1>5 DEF NumberInv

\* The steps of a request outside the computation of the order.
Outside(w) ==
    \/ BeginRegister(w) \/ Generate(w) \/ AddClient(w)
    \/ \E id \in Ids : BeginDeregister(w, id)
    \/ FindClient(w) /\ ~Fail("undefined")
    \/ PurgeScenes(w) \/ Delete(w) \/ Erase(w)
    \/ \E id \in Ids : BeginRegisterSensors(w, id) /\ ~Fail("undefined")
    \/ \E given \in SUBSET Sensors : InitialSensorsList(w, given)
    \/ GiveUpOrder(w)

\* Scenes that outlive such a step keep their numbers, in the order or not.
LEMMA OutsideNumbers ==
    ASSUME TypeInv, NEW w \in Workers, Outside(w)
    PROVE  \A s \in Live \cap Live' : ordering'[s] = ordering[s]
<1>1. CASE UNCHANGED ordering
  BY <1>1
<1>2. CASE Delete(w)
  <2>1. /\ Construct(UNION {Owned(c) : c \in alive \ alive'})
        /\ sensors' = [c \in Objects |-> IF c \in alive \ alive' THEN {} ELSE sensors[c]]
    BY <1>2 DEF Delete
  <2>2. ASSUME NEW s \in Live \cap Live'
        PROVE  s \in Scenes \ UNION {Owned(c) : c \in alive \ alive'}
    <3>1. s \in Scenes
      BY LiveIs
    <3>2. PICK c \in alive' : s \in {c} \X sensors'[c]
      BY <2>2 DEF Live, Owned
    <3>3. s[1] \in alive'
      BY <3>2
    <3>4. \A d \in alive \ alive' : s \notin Owned(d)
      BY <3>3 DEF Owned
    <3>. QED
      BY <3>1, <3>4
  <2>. QED
    BY <2>1, <2>2, ConstructKeeps
<1>3. ASSUME NEW given \in SUBSET Sensors, InitialSensorsList(w, given)
      PROVE  \A s \in Live \cap Live' : ordering'[s] = ordering[s]
  <2> DEFINE fresh == {target[w]} \X (given \ sensors[target[w]])
  <2>1. Construct(fresh)
    BY <1>3 DEF InitialSensorsList
  <2>2. \A s \in Live : s \in Scenes \ fresh
    BY LiveIs
  <2> HIDE DEF fresh
  <2>. QED
    BY <2>1, <2>2, ConstructKeeps
<1>. QED
  BY <1>1, <1>2, <1>3 DEF Outside, BeginRegister, Generate, AddClient, BeginDeregister,
     FindClient, PurgeScenes, Erase, BeginRegisterSensors, GiveUpOrder, sceneVars

\* A scene a step constructs, or deletes, is not calibrated.
LEMMA CarryCalibrated ==
    ASSUME TypeInv, TypeInv', Carry, CalibratedInv, Settled,
           \A s \in Live \cap Live' : ordering'[s] = ordering[s]
    PROVE  CalibratedInv'
<1>1. ASSUME NEW s \in Live', calibrated'[s] PROVE ordering'[s] > 0
  <2>1. s \in Scenes
    <3>1. PICK c \in alive' : s \in {c} \X sensors'[c]
      BY <1>1 DEF Live, Owned
    <3>2. alive' \subseteq Objects /\ sensors' \in [Objects -> SUBSET Sensors]
      BY DEF TypeInv, TypeOK, ListTypeOK
    <3>. QED
      BY <3>1, <3>2 DEF Scenes
  <2>2. s \in Live \cap Live' /\ calibrated[s]
    BY <1>1, <2>1 DEF Carry
  <2>. QED
    BY <2>2 DEF CalibratedInv
<1>. QED
  BY <1>1 DEF CalibratedInv

\* Linking ends the computation: every registered scene is in the order, and
\* its number is its last place.
LEMMA LinkNumbers ==
    ASSUME NEW w \in Workers, Alone(w), ViewportInv, LinkNeighbours(w)
    PROVE  /\ \A s \in Live' : ordering'[s] > 0
           /\ NumberInv'
<1> DEFINE linked == IF Len(ordered) > 1 THEN Range(ordered) ELSE {}
<1>1. /\ pc[w] = "push"
      /\ left' = [s \in Scenes |-> IF s \in linked THEN Previous[LastPlace(s)] ELSE left[s]]
      /\ UNCHANGED <<alive, sensors, ordering, ordered>>
  BY DEF LinkNeighbours, Link, Goto, clientVars
<1>2. Range(ordered') = Registered
  BY LinkOrder DEF ViewportInv
<1>3. Live = Registered /\ Live' = Live
  BY <1>1, LiveRegistered DEF ViewportInv, Live, Owned
<1>4. ordered \in Seq(Scenes)
  BY DEF ViewportInv, TypeInv, TypeOK
<1>5. ASSUME NEW s \in Range(ordered)
      PROVE  /\ ordering[s] = LastPlace(s) /\ LastPlace(s) \in DOMAIN ordered
             /\ ordered[LastPlace(s)] = s
  BY <1>1, <1>4, LastPlaceIs DEF ViewportInv, OrderInv, LinkInv
<1>6. \A s \in Range(ordered) : ordering[s] > 0
  BY <1>4, <1>5
<1>7. ASSUME NEW s \in Range(ordered), Len(ordered) > 1, ordering[s] = 1
      PROVE  left'[s] = Null
  <2>1. LastPlace(s) = 1 /\ 1 \in DOMAIN ordered /\ s \in Scenes
    BY <1>4, <1>5, <1>7
  <2>2. Previous[1] = Null
    BY <2>1 DEF Previous
  <2>3. s \in linked
    BY <1>7
  <2>. QED
    BY <1>1, <2>1, <2>2, <2>3
<1>. QED
  BY <1>1, <1>2, <1>3, <1>6, <1>7 DEF NumberInv

\* What every step of the requests and of the UDP thread does to the numbers.
LEMMA NumberStep ==
    ASSUME Serial, Serial', ViewportInv, ViewportInv', NumberInv, [Next]_vars
    PROVE  /\ NumberInv'
           /\ \/ ~Settled'
              \/ \A s \in Live' : ordering'[s] > 0
              \/ Settled /\ \A s \in Live \cap Live' : ordering'[s] = ordering[s]
<1>0. /\ TypeInv /\ TypeInv' /\ ListInv /\ OrderInv
      /\ pc \in [Workers -> WorkerPCs]
  BY DEF ViewportInv, TypeInv, TypeOK
<1> DEFINE Goal ==
        /\ NumberInv'
        /\ \/ ~Settled'
           \/ \A s \in Live' : ordering'[s] > 0
           \/ Settled /\ \A s \in Live \cap Live' : ordering'[s] = ordering[s]
<1>1. ASSUME UNCHANGED <<clientVars, sensors, ordering, left, right, orderVars, workerVars>>
      PROVE  Goal
  <2>1. UNCHANGED <<ordering, left, ordered, pc>>
    BY <1>1 DEF orderVars, workerVars
  <2>2. Settled' = Settled
    BY <2>1 DEF Settled
  <2>. QED
    BY <2>1, <2>2 DEF NumberInv
<1>2. CASE UNCHANGED vars
  BY <1>1, <1>2 DEF vars, sceneVars
<1>3. CASE LoadSkeleton \/ \E how : Fail(how)
  BY <1>1, <1>3, LoadKeeps
<1>4. CASE Stopped \/ Race
  BY <1>2, <1>3, <1>4 DEF Stopped, Race
<1>5. ASSUME NEW w \in Workers, Alone(w), Outside(w) PROVE Goal
  <2>1. Kept(w)
    BY <1>0, <1>5, OutsideKeeps DEF Outside
  <2>2. NumberInv'
    BY <1>0, <1>5, <2>1, KeptNumbers
  <2>3. Settled
    BY <1>5, <2>1 DEF Kept, Settled, Alone
  <2>. QED
    BY <1>0, <1>5, <2>2, <2>3, OutsideNumbers
<1>6. ASSUME NEW w \in Workers, Alone(w), RefreshScenesSet(w), ~Fail("undefined") PROVE Goal
  <2>1. /\ pc[w] = "idle" /\ ordered' = <<>> /\ UNCHANGED ordering
    BY <1>6 DEF RefreshScenesSet, sceneVars
  <2>2. Settled
    BY <1>6, <2>1 DEF Settled, Alone
  <2>3. Range(ordered') = {} /\ Len(ordered') = 0
    BY <2>1 DEF Range
  <2>. QED
    BY <2>1, <2>2, <2>3 DEF NumberInv
<1>7. ASSUME NEW w \in Workers, ResetOrdering(w) \/ PushOrdered(w) PROVE Goal
  <2>1. pc'[w] = "push"
    BY <1>0, <1>7 DEF ResetOrdering, PushOrdered, Goto
  <2>2. ~Settled'
    BY <2>1 DEF Settled
  <2>. QED
    BY <2>2 DEF NumberInv
<1>8. ASSUME NEW w \in Workers, Alone(w), LinkNeighbours(w) PROVE Goal
  BY <1>8, LinkNumbers
<1>9. ASSUME NEW w \in Workers, Begins(w) PROVE Goal
  <2>1. \/ Fail("undefined") \/ Outside(w)
        \/ RefreshScenesSet(w) /\ ~Fail("undefined")
    BY <1>9 DEF Begins, Outside
  <2>. QED
    BY <1>0, <1>3, <1>5, <1>6, <1>9, <2>1, StepAlone
<1>10. ASSUME NEW w \in Workers, Continues(w) PROVE Goal
  <2>1. \/ Fail("undefined") \/ Outside(w)
        \/ ResetOrdering(w) \/ PushOrdered(w) \/ LinkNeighbours(w)
    BY <1>10 DEF Continues, Outside, MeetDeleted
  <2>. QED
    BY <1>0, <1>3, <1>5, <1>7, <1>8, <1>10, <2>1, StepAlone
<1>. QED
  BY <1>2, <1>3, <1>4, <1>9, <1>10 DEF Next

CalibrationInv == ViewportInv /\ CalibrationTypeOK /\ NumberInv /\ CalibratedInv

\* A failure changes neither registry nor order.
LEMMA FailKeeps ==
    ASSUME ViewportInv, NEW how \in {"undefined", "terminated"}, Fail(how)
    PROVE  ViewportInv'
<1>1. TypeInv'
  BY FailKeepsTypes DEF ViewportInv
<1>2. ListInv'
  BY IdleList DEF ViewportInv, Fail, workerVars
<1>3. OrderInv'
  BY LoadKeeps, LoadFirst, LoadOrder DEF ViewportInv
<1>. QED
  BY <1>1, <1>2, <1>3 DEF ViewportInv

\* A step that leaves the calibration alone, and numbers, links and order too.
LEMMA SameNumbers ==
    ASSUME NumberInv, CalibratedInv,
           UNCHANGED <<alive, sensors, ordering, left, ordered, pc, calibrated>>
    PROVE  NumberInv' /\ CalibratedInv'
<1>1. Settled' = Settled /\ Live' = Live
  BY DEF Settled, Live, Owned
<1>. QED
  BY <1>1 DEF NumberInv, CalibratedInv

\* A calibration marks two scenes of the order, which have numbers.
LEMMA CalibrateNumbers ==
    ASSUME ViewportInv, CalibrationTypeOK, NumberInv, CalibratedInv,
           NEW w \in Workers, NEW a \in Registered, NEW b \in Registered,
           NEW complete \in BOOLEAN, CalibrateScenes(w, a, b, complete), UNCHANGED vars
    PROVE  NumberInv' /\ CalibratedInv'
<1>1. UNCHANGED <<alive, sensors, ordering, left, ordered, pc>>
  BY DEF vars, clientVars, sceneVars, orderVars, workerVars
<1>2. Settled' = Settled /\ Live' = Live
  BY <1>1 DEF Settled, Live, Owned
<1>3. NumberInv'
  BY <1>1, <1>2 DEF NumberInv
<1>4. CASE UNCHANGED calibrationVars
  BY <1>1, <1>4, SameNumbers DEF calibrationVars
<1>5. CASE ~UNCHANGED calibrationVars
  <2>3. PICK i \in DOMAIN ordered, j \in DOMAIN ordered :
            calibrated' = [calibrated EXCEPT ![ordered[i]] = TRUE, ![ordered[j]] = TRUE]
    <3>1. CASE ordering[a] < ordering[b]
      BY <1>5, <3>1 DEF CalibrateScenes
    <3>2. CASE ~(ordering[a] < ordering[b])
      BY <1>5, <3>2 DEF CalibrateScenes
    <3>. QED
      BY <3>1, <3>2
  <2>4. Settled => ordering[ordered[i]] > 0 /\ ordering[ordered[j]] > 0
    BY DEF NumberInv, Range
  <2>5. ASSUME Settled, NEW s \in Live, calibrated'[s] PROVE ordering[s] > 0
    <3>1. CASE s = ordered[i] \/ s = ordered[j]
      BY <2>4, <2>5, <3>1
    <3>2. CASE s # ordered[i] /\ s # ordered[j]
      <4>1. s \in Scenes
        BY LiveIs DEF ViewportInv
      <4>2. calibrated'[s] = calibrated[s]
        BY <2>3, <3>2, <4>1 DEF CalibrationTypeOK
      <4>. QED
        BY <2>5, <4>2 DEF CalibratedInv
    <3>. QED
      BY <3>1, <3>2
  <2>6. CalibratedInv'
    BY <1>1, <1>2, <2>5 DEF CalibratedInv
  <2>. QED
    BY <1>3, <2>6
<1>. QED
  BY <1>4, <1>5

\* The empty registry, without matrices, satisfies the invariant.
LEMMA CalibrationInitially == CalibrationInit => CalibrationInv
<1> SUFFICES ASSUME CalibrationInit PROVE CalibrationInv
  OBVIOUS
<1>1. /\ Init /\ ordered = <<>> /\ alive = {}
      /\ CalibrationTypeOK
  BY DEF CalibrationInit, Init, ListInit, CalibrationTypeOK
<1>2. ViewportInv
  BY <1>1, ViewportInitTypes, ListInitially, OrderInitially DEF ViewportInv
<1>3. Range(ordered) = {} /\ Len(ordered) = 0 /\ Live = {}
  BY <1>1 DEF Range, Live
<1>. QED
  BY <1>1, <1>2, <1>3 DEF CalibrationInv, NumberInv, CalibratedInv

\* Every step of a request, of the UDP thread or of a calibration preserves it.
LEMMA CalibrationStep ==
    ASSUME Serial, Serial', CalibrationInv, [CalibrationNext]_allVars
    PROVE  CalibrationInv'
<1>0. ViewportInv /\ TypeInv /\ CalibrationTypeOK /\ NumberInv /\ CalibratedInv
  BY DEF CalibrationInv, ViewportInv
<1>1. ASSUME [Next]_vars PROVE ViewportInv'
  BY <1>0, <1>1, ViewportStepTypes, ListStep, OrderStep DEF ViewportInv
<1>2. CASE UNCHANGED allVars
  <2>1. UNCHANGED vars /\ UNCHANGED calibrationVars
    BY <1>2 DEF allVars
  <2>2. UNCHANGED <<alive, sensors, ordering, left, ordered, pc, calibrated, transform>>
    BY <2>1 DEF vars, clientVars, sceneVars, orderVars, workerVars, calibrationVars
  <2>3. CalibrationTypeOK'
    BY <1>0, <2>2 DEF CalibrationTypeOK
  <2>. QED
    BY <1>0, <1>1, <2>1, <2>2, <2>3, SameNumbers DEF CalibrationInv
<1>3. CASE Next /\ Carry
  <2>1. ViewportInv' /\ TypeInv' /\ CalibrationTypeOK'
    BY <1>0, <1>1, <1>3, CarryTypes DEF ViewportInv
  <2>2. /\ NumberInv'
        /\ \/ ~Settled'
           \/ \A s \in Live' : ordering'[s] > 0
           \/ Settled /\ \A s \in Live \cap Live' : ordering'[s] = ordering[s]
    BY <1>0, <1>3, <2>1, NumberStep
  <2>3. CalibratedInv'
    <3>1. CASE ~Settled' \/ \A s \in Live' : ordering'[s] > 0
      BY <3>1 DEF CalibratedInv
    <3>2. CASE Settled /\ \A s \in Live \cap Live' : ordering'[s] = ordering[s]
      BY <1>0, <1>3, <2>1, <3>2, CarryCalibrated
    <3>. QED
      BY <2>2, <3>1, <3>2
  <2>. QED
    BY <2>1, <2>2, <2>3 DEF CalibrationInv
<1>4. ASSUME UNCHANGED calibrationVars, NEW how \in {"undefined", "terminated"}, Fail(how)
      PROVE  CalibrationInv'
  <2>1. ViewportInv'
    BY <1>0, <1>4, FailKeeps
  <2>2. UNCHANGED <<alive, sensors, ordering, left, ordered, pc, calibrated, transform>>
    BY <1>4 DEF Fail, clientVars, sceneVars, orderVars, workerVars, calibrationVars
  <2>3. CalibrationTypeOK'
    BY <1>0, <2>2 DEF CalibrationTypeOK
  <2>. QED
    BY <1>0, <2>1, <2>2, <2>3, SameNumbers DEF CalibrationInv
<1>5. ASSUME UNCHANGED vars, NEW w \in Workers, NEW a \in Registered, NEW b \in Registered,
             NEW complete \in BOOLEAN, CalibrateScenes(w, a, b, complete)
      PROVE  CalibrationInv'
  BY <1>0, <1>1, <1>5, CalibrateTypes, CalibrateNumbers DEF CalibrationInv
<1>. QED
  BY <1>2, <1>3, <1>4, <1>5, CalibrationSteps

\* While requests do not overlap, however many workers there are, every
\* registered or linked scene CalibrateScenes
\* (MinorityViewportAlgo.cpp:196-368) and MergeScenes work with is as it should be
\* in every state.
THEOREM CalibrationInvHolds == CalibrationSpec /\ []Serial => []CalibrationInv
<1>1. CalibrationInv /\ Serial /\ Serial' /\ [CalibrationNext]_allVars => CalibrationInv'
  BY CalibrationStep
<1>. QED
  BY <1>1, CalibrationInitially, PTL DEF CalibrationSpec

\* So long, a calibrated scene has a number, even after orders that gave
\* up or were redone.
THEOREM CalibratedHasNumberHolds ==
    CalibrationSpec /\ []Serial => []CalibratedHasNumber
<1>1. CalibrationInv => CalibratedHasNumber
  <2>1. Idle => Settled
    BY DEF Idle, Settled
  <2>. QED
    BY <2>1 DEF CalibrationInv, CalibratedInv, CalibratedHasNumber
<1>. QED
  BY <1>1, CalibrationInvHolds, PTL

\* So long, while an order of two or more scenes has no gap and every scene but
\* the first has a transform, its links lead from scene to scene to the first,
\* which has none, and MergeScenes can multiply all matrices.
THEOREM WholeOrderMergesHolds ==
    CalibrationSpec /\ []Serial => []WholeOrderMerges
<1>1. ASSUME CalibrationInv, Idle, Len(ordered) > 1,
             \A i \in DOMAIN ordered : ordering[ordered[i]] = i,
             \A i \in DOMAIN ordered : i > 1 => transform[ordered[i]] # Garbage
      PROVE  \A i \in DOMAIN ordered :
                /\ left[ordered[i]] = IF i = 1 THEN Null ELSE ordered[i - 1]
                /\ ~LeftDangles(i)
                /\ ~ChainBroken(i)
  <2>1. Settled /\ ordered \in Seq(Scenes)
    BY <1>1 DEF Idle, Settled, CalibrationInv, ViewportInv, TypeInv, TypeOK
  <2>2. ASSUME NEW i \in DOMAIN ordered, i = 1 PROVE left[ordered[i]] = Null
    BY <1>1, <2>1, <2>2 DEF CalibrationInv, NumberInv, Range
  <2>3. ASSUME NEW i \in DOMAIN ordered, i # 1
        PROVE  left[ordered[i]] = ordered[i - 1] /\ left[ordered[i]] \in Live
    <3>1. i - 1 \in DOMAIN ordered /\ i = i - 1 + 1
      BY <2>1, <2>3
    <3>2. ordered[i - 1] \in Range(ordered) /\ ordered[i] \in Range(ordered)
      BY <3>1 DEF Range
    <3>3. ordering[ordered[i]] = ordering[ordered[i - 1]] + 1
      BY <1>1, <3>1
    <3>4. left[ordered[i]] = ordered[i - 1]
      BY <1>1, <2>1, <3>2, <3>3 DEF CalibrationInv, ViewportInv, OrderInv, LinkInv, Settled
    <3>. QED
      BY <1>1, <3>2, <3>4 DEF CalibrationInv, ViewportInv, OrderInv, AliveInv
  <2>4. ASSUME NEW i \in DOMAIN ordered PROVE ~ChainBroken(i)
    <3>1. ASSUME NEW j \in 1..i PROVE ~(left[ordered[j]] # Null /\ transform[ordered[j]] = Garbage)
      <4>1. j \in DOMAIN ordered
        BY <2>1
      <4>2. j = 1 \/ j > 1
        BY <2>1
      <4>. QED
        BY <1>1, <2>2, <4>1, <4>2
    <3>. QED
      BY <3>1 DEF ChainBroken
  <2>5. \A i \in DOMAIN ordered : ~LeftDangles(i)
    BY <2>2, <2>3 DEF LeftDangles
  <2>. QED
    BY <2>2, <2>3, <2>4, <2>5
<1>2. CalibrationInv => WholeOrderMerges
  BY <1>1 DEF WholeOrderMerges
<1>. QED
  BY <1>2, CalibrationInvHolds, PTL
===============================================================================
