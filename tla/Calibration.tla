------------------------------ MODULE Calibration ------------------------------
(***************************************************************************)
(* Viewport with what the scenes' transformations add: CalibrateScenes,    *)
(* which computes them, and the part of MergeScenes that follows the links *)
(* between scenes and multiplies the transformations along them.           *)
(***************************************************************************)
EXTENDS Viewport

VARIABLES
    calibrated, \* _calibrated of every scene
    transform   \* RMatrix and TMatrix of every scene: the scene whose skeletons
                \* they take to the coordinates of a reference scene, and that
                \* reference; Garbage while the matrices are empty

calibrationVars == <<calibrated, transform>>
allVars == <<vars, calibrationVars>>

CalibrationTypeOK ==
    /\ calibrated \in [Scenes -> BOOLEAN]
    /\ transform \in [Scenes -> (Scenes \X Scenes) \cup {Garbage}]

CalibrationInit ==
    /\ Init
    /\ calibrated = [s \in Scenes |-> FALSE]
    /\ transform = [s \in Scenes |-> Garbage]

\* Mutant: the matrices of a scene start as a null pointer.
CarryNull ==
    LET kept == Live \cap Live'
    IN  /\ calibrated' = [s \in Scenes |-> s \in kept /\ calibrated[s]]
        /\ transform' = New(transform, Scenes \ kept, Null)

\* A scene keeps both as long as it lives and starts without.
Carry ==
    LET kept == Live \cap Live'
    IN  /\ calibrated' = [s \in Scenes |-> s \in kept /\ calibrated[s]]
        /\ transform' = New(transform, Scenes \ kept, Garbage)

(***************************************************************************)
(* CalibrateScenes: the page sends skeletons seen by scenes a and b with   *)
(* the ordering of each.  The lower order is the reference; the transform  *)
(* goes to the scene in the place of the higher one.  at() throws on an    *)
(* order that is no place, which nothing catches; without one complete     *)
(* pair of skeletons OpenCV is given empty matrices.                       *)
(***************************************************************************)
CalibrateScenes(w, a, b, complete) ==
    LET aIsRef == ordering[a] < ordering[b]
        ref    == IF aIsRef THEN a ELSE b
        body   == IF aIsRef THEN b ELSE a
    IN  /\ Running /\ pc[w] = "idle"
        /\ ordered # <<>>
        /\ IF ~complete
           THEN Fail("undefined") /\ UNCHANGED calibrationVars
           ELSE IF {ordering[a], ordering[b]} \subseteq DOMAIN ordered
           THEN LET bodyScene == ordered[ordering[body]]
                    refScene == ordered[ordering[ref]]
                IN  /\ transform' = [transform EXCEPT ![bodyScene] = <<body, ref>>]
                    /\ calibrated' = [calibrated EXCEPT ![bodyScene] = TRUE,
                                                        ![refScene] = TRUE]
                    /\ UNCHANGED vars
           ELSE Fail("terminated") /\ UNCHANGED calibrationVars

(***************************************************************************)
(* MergeScenes changes nothing here unless it fails.  For every calibrated *)
(* scene it multiplies the transformations of the scenes at and before it  *)
(* that have a left neighbour (OpenCV throws on one that was never         *)
(* computed), and then reads the scene's left neighbour.                   *)
(***************************************************************************)
ChainBroken(i) ==
    \E j \in 1..i : left[ordered[j]] # Null /\ transform[ordered[j]] = Garbage

LeftDangles(i) == left[ordered[i]] \notin Live \cup {Null}

MergeFails(w) ==
    /\ Running /\ pc[w] = "idle"
    /\ \E i \in DOMAIN ordered :
          /\ calibrated[ordered[i]]
          /\ \/ ChainBroken(i) /\ Fail("terminated")
             \/ LeftDangles(i) /\ Fail("undefined")
    /\ UNCHANGED calibrationVars

CalibrationNext ==
    \/ Next /\ Carry
    \/ \E w \in Workers, a, b \in Registered, complete \in BOOLEAN :
          a # b /\ CalibrateScenes(w, a, b, complete)
    \/ \E w \in Workers : MergeFails(w)

CalibrationSpec == CalibrationInit /\ [][CalibrationNext]_allVars

-------------------------------------------------------------------------------
\* While an order of two or more scenes has no gap and every scene but the first
\* has a transform, the merge can follow all links, which lead from scene to
\* scene to the first, and multiply all matrices.  An order of one scene is left
\* out: nothing links it, and its left pointer may be anything (see
\* FirstSceneHasNoLeft).
WholeOrderMerges ==
    /\ Running /\ Idle
    /\ Len(ordered) > 1
    /\ \A i \in DOMAIN ordered : ordering[ordered[i]] = i
    /\ \A i \in DOMAIN ordered : i > 1 => transform[ordered[i]] # Garbage
    => \A i \in DOMAIN ordered :
          /\ left[ordered[i]] = IF i = 1 THEN Null ELSE ordered[i - 1]
          /\ ~LeftDangles(i)
          /\ ~ChainBroken(i)

\* A scene is calibrated only through a place in the order: it has a number,
\* even after orders that gave up or were redone.
CalibratedHasNumber ==
    Running /\ Idle => \A s \in Live : calibrated[s] => ordering[s] > 0

\* "This is the first scene => no transformation required": MergeScenes tells
\* the reference scene by its left pointer, so the first ordered scene that it
\* looks at has none.
FirstSceneHasNoLeft ==
    Running /\ Idle /\ ordered # <<>> /\ calibrated[ordered[1]] =>
        left[ordered[1]] = Null

\* "Assign to the R and T to the B scene": the matrices a scene holds were
\* computed from that scene's own skeletons.
BodyGetsItsTransform ==
    Running => \A s \in Live : transform[s] # Garbage => transform[s][1] = s

\* "Rotation Matrix that rotate all vectors here to the prev scene": the
\* matrices of a scene with a left neighbour lead to that neighbour.
TransformLeadsToPrevious ==
    Running /\ Idle =>
        \A s \in Range(ordered) :
            transform[s] # Garbage /\ left[s] \in Live => transform[s][2] = left[s]
===============================================================================
