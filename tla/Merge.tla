--------------------------------- MODULE Merge ---------------------------------
(***************************************************************************)
(* MergeScenes and GetGlobalScene (Algorithms/MinorityViewportAlgo.cpp): a *)
(* worker fills the one global scene from the calibrated scenes, last to   *)
(* first, and answers with a copy of it, while the UDP thread and the      *)
(* refresh threads go on changing the local scenes.                        *)
(*                                                                         *)
(* The order is complete and stays as it is: scene i has scene i - 1 to    *)
(* its left and matrices that lead there (see Calibration for orders of    *)
(* which this is not true).  Operations of a scene are atomic, as Scene    *)
(* implements SceneMap.  Ids of skeletons are arbitrary, so the order in   *)
(* which a map of them is visited is, too.                                 *)
(***************************************************************************)
EXTENDS Integers, SequencesExt

CONSTANTS Workers,    \* HTTP workers that execute data requests
          N,          \* length of the order
          Keys,       \* ids sensors give the persons they track
          Persons,
          Aligned,    \* pairs of persons with a coordinate in common
          GlobalIds,  \* ids in the global scene: rand()%100 in the code
          None,
          Capacity    \* of a scene: 3 in the code

ASSUME MergeAssumption ==
    /\ N \in Nat \ {0, 1}
    /\ Capacity \in Nat
    /\ None \notin Persons
    /\ IsFiniteSet(Keys) /\ IsFiniteSet(GlobalIds)
    /\ Aligned \subseteq Persons \X Persons

Places == 1..N

(***************************************************************************)
(* A transformation x |-> R x + T that is made of the matrices of scenes:  *)
(* the rotation is the product of their R in the order listed, the         *)
(* translation the sum of their T, each behind a product of R.             *)
(***************************************************************************)
Identity == [rotation |-> <<>>, shifts |-> {}]

\* Combi_R = Combi_R * R; Combi_T = Combi_T + T.
Times(m, j) == [rotation |-> Append(m.rotation, j),
                shifts   |-> m.shifts \cup {<< <<>>, j>>}]

\* Mutant: the scene's own matrices are left out of the combination.
CombinedBefore(i) == FoldLeft(Times, Identity, [k \in 1..i-2 |-> i - k])

\* The loop from scene i back to the first one, which has no left neighbour.
Combined(i) == FoldLeft(Times, Identity, [k \in 1..i-1 |-> i + 1 - k])

\* What leads from scene i to the first one: first to scene i - 1, then on.
Onward(m, j) == [rotation |-> Append(m.rotation, j),
                 shifts   |-> m.shifts \cup {<<m.rotation, j>>}]

ToFirst(i) == FoldLeft(Onward, Identity, [k \in 1..i-1 |-> k + 1])

\* A skeleton in the global scene: whose it is, which scene it came from, the
\* transformation it went through, and whether it is marked as shared.
Shown == [person: Persons, place: Places, moved: {Combined(i) : i \in Places},
          shared: BOOLEAN]

Local == INSTANCE SkeletonMap WITH Skeletons <- Persons
Global == INSTANCE SkeletonMap WITH Keys <- GlobalIds, Skeletons <- Shown

VARIABLES
    seen,       \* what each local scene stores
    merged,     \* what the global scene stores
    calibrated, \* the scenes up to this place are calibrated
    pc,         \* where each worker is in its request
    place,      \* *orderedSceneItr
    current,    \* currentSceneSkeletons that are still to be handled
    leftward,   \* leftFrameSkeletons
    id,         \* randomSkeletonId
    shared,     \* bodyFrameSkeleton of a match whose left skeleton is removed
    answer,     \* the skeletons of the latest answer
    since       \* history: which scene stored whom since the request began;
                \* whether no skeleton was stored meanwhile and none twice before

workerVars == <<pc, place, current, leftward, id, shared>>
vars == <<seen, merged, calibrated, workerVars, answer, since>>

TypeOK ==
    /\ seen \in [Places -> Local!Contents]
    /\ merged \in [GlobalIds -> Shown \cup {None}]
    /\ calibrated \in 0..N
    /\ pc \in [Workers -> {"idle", "current", "left", "person", "show", "answer"}]
    /\ place \in [Workers -> 0..N]
    /\ current \in [Workers -> Local!Contents]
    /\ leftward \in [Workers -> Local!Contents]
    /\ id \in [Workers -> GlobalIds \cup {None}]
    /\ shared \in [Workers -> Keys \cup {None}]
    /\ answer \in [Workers -> [GlobalIds -> Shown \cup {None}]]
    /\ since \in [Workers -> [by: SUBSET (Places \X Persons), quiet: BOOLEAN]]

\* CalibrateScenes marks two scenes at a time, so one alone is never calibrated.
Init ==
    /\ seen = [i \in Places |-> Local!Empty]
    /\ merged = Global!Empty
    /\ calibrated \in {0} \cup 2..N
    /\ pc = [w \in Workers |-> "idle"]
    /\ place = [w \in Workers |-> 0]
    /\ current = [w \in Workers |-> Local!Empty]
    /\ leftward = [w \in Workers |-> Local!Empty]
    /\ id = [w \in Workers |-> None]
    /\ shared = [w \in Workers |-> None]
    /\ answer = [w \in Workers |-> Global!Empty]
    /\ since = [w \in Workers |-> [by |-> {}, quiet |-> TRUE]]

-------------------------------------------------------------------------------
Stores(m) == {x \in Places \X Persons : \E k \in Keys : m[x[1]][k] = x[2]}

NobodyTwice ==
    \A i \in Places, k, l \in Keys :
        seen[i][k] # None /\ seen[i][k] = seen[i][l] => k = l

(***************************************************************************)
(* The other threads.  A person a sensor lost and found again has a new    *)
(* id, while the scene keeps the old entry until the next refresh.         *)
(***************************************************************************)
UpdateLocal(i, k, p) ==
    /\ seen' = [seen EXCEPT ![i] = Local!With(Local!Without(@, k), k, p)]
    /\ since' = [w \in Workers |->
           IF pc[w] = "idle" THEN since[w]
           ELSE [by |-> since[w].by \cup Stores(seen'), quiet |-> FALSE]]
    /\ UNCHANGED <<merged, calibrated, workerVars, answer>>

ClearLocal(i) ==
    /\ seen' = [seen EXCEPT ![i] = Local!Empty]
    /\ UNCHANGED <<merged, calibrated, workerVars, answer, since>>

-------------------------------------------------------------------------------
Goto(w, from, to) ==
    /\ pc[w] = from
    /\ pc' = [pc EXCEPT ![w] = to]

\* Mutant: the global scene keeps what the merge before put there.
BeginWithoutClear(w) ==
    /\ Goto(w, "idle", IF calibrated = 0 THEN "answer" ELSE "current")
    /\ place' = [place EXCEPT ![w] = calibrated]
    /\ since' = [since EXCEPT ![w] = [by |-> Stores(seen), quiet |-> NobodyTwice]]
    /\ answer' = [answer EXCEPT ![w] = Global!Empty]
    /\ UNCHANGED <<seen, merged, calibrated, current, leftward, id, shared>>

\* The global scene is cleared, then the reverse loop skips the scenes that are
\* not calibrated.
BeginMerge(w) ==
    /\ Goto(w, "idle", IF calibrated = 0 THEN "answer" ELSE "current")
    /\ merged' = Global!Empty
    /\ place' = [place EXCEPT ![w] = calibrated]
    /\ since' = [since EXCEPT ![w] = [by |-> Stores(seen), quiet |-> NobodyTwice]]
    /\ answer' = [answer EXCEPT ![w] = Global!Empty]
    /\ UNCHANGED <<seen, calibrated, current, leftward, id, shared>>

CopyCurrent(w) ==
    /\ Goto(w, "current", IF place[w] = 1 THEN "person" ELSE "left")
    /\ current' = [current EXCEPT ![w] = seen[place[w]]]
    /\ \E r \in GlobalIds : id' = [id EXCEPT ![w] = r]
    /\ UNCHANGED <<seen, merged, calibrated, place, leftward, shared, answer, since>>

CopyLeft(w) ==
    /\ Goto(w, "left", "person")
    /\ leftward' = [leftward EXCEPT ![w] = seen[place[w] - 1]]
    /\ UNCHANGED <<seen, merged, calibrated, place, current, id, shared, answer, since>>

\* What the global scene's Update makes of the worker's skeleton k.
Show(w, k, mark) ==
    /\ merged' = Global!With(Global!Without(merged, id[w]), id[w],
                    [person |-> current[w][k], place |-> place[w],
                     moved |-> Combined(place[w]), shared |-> mark])
    /\ current' = [current EXCEPT ![w] = Local!Without(@, k)]

\* In the first scene, or when the left scene sees nobody, all are shown.
ShowAlone(w, k) ==
    /\ Goto(w, "person", "person")
    /\ current[w][k] # None
    /\ leftward[w] = Local!Empty
    /\ Show(w, k, FALSE)
    /\ UNCHANGED <<seen, calibrated, place, leftward, id, shared, answer, since>>

\* Mutant: every skeleton of the left scene matches.
NearAll(p, q) == TRUE

\* diff_x < threshold || diff_y < threshold || diff_z < threshold: so are two
\* views of one person, and two persons that agree in one coordinate.
Near(p, q) == p = q \/ <<p, q>> \in Aligned

Candidates(w, k) ==
    {j \in Keys : leftward[w][j] # None /\ Near(current[w][k], leftward[w][j])}

\* A skeleton that matches none of the left scene is not shown.
DropUnmatched(w, k) ==
    /\ Goto(w, "person", "person")
    /\ current[w][k] # None
    /\ leftward[w] # Local!Empty
    /\ Candidates(w, k) = {}
    /\ current' = [current EXCEPT ![w] = Local!Without(@, k)]
    /\ UNCHANGED <<seen, merged, calibrated, place, leftward, id, shared, answer, since>>

\* Mutant: the left scene keeps its skeleton.
KeepLeft(w, k) ==
    /\ Goto(w, "person", "show")
    /\ current[w][k] # None
    /\ Candidates(w, k) # {}
    /\ shared' = [shared EXCEPT ![w] = k]
    /\ UNCHANGED <<seen, merged, calibrated, place, current, leftward, id, answer, since>>

\* Mutant: the person, not the id, is kept for the call of Update.
MarkOnly(w, k) ==
    /\ Goto(w, "person", "show")
    /\ current[w][k] # None
    /\ \E j \in Candidates(w, k) :
          seen' = [seen EXCEPT ![place[w] - 1] = Local!Without(@, j)]
    /\ shared' = [shared EXCEPT ![w] = current[w][k]]
    /\ UNCHANGED <<merged, calibrated, place, current, leftward, id, answer, since>>

\* The first match is removed from the left scene, which other threads share,
\* under the id it had in the copy ...
RemoveLeft(w, k) ==
    /\ Goto(w, "person", "show")
    /\ current[w][k] # None
    /\ \E j \in Candidates(w, k) :
          seen' = [seen EXCEPT ![place[w] - 1] = Local!Without(@, j)]
    /\ shared' = [shared EXCEPT ![w] = k]
    /\ UNCHANGED <<merged, calibrated, place, current, leftward, id, answer, since>>

\* ... and the skeleton is shown instead.
ShowShared(w) ==
    /\ Goto(w, "show", "person")
    /\ Show(w, shared[w], TRUE)
    /\ shared' = [shared EXCEPT ![w] = None]
    /\ UNCHANGED <<seen, calibrated, place, leftward, id, answer, since>>

\* Mutant: the loop over a scene ends when the scene, not the copy, is empty.
AwaitEmpty(w) ==
    /\ current[w] = Local!Empty
    /\ Goto(w, "person", IF seen[place[w]] # Local!Empty THEN "current"
                         ELSE IF place[w] = 1 THEN "answer" ELSE "current")
    /\ place' = [place EXCEPT ![w] = IF seen[@] # Local!Empty THEN @ ELSE @ - 1]
    /\ leftward' = [leftward EXCEPT ![w] = Local!Empty]
    /\ id' = [id EXCEPT ![w] = None]
    /\ UNCHANGED <<seen, merged, calibrated, current, shared, answer, since>>

NextPlace(w) ==
    /\ current[w] = Local!Empty
    /\ Goto(w, "person", IF place[w] = 1 THEN "answer" ELSE "current")
    /\ place' = [place EXCEPT ![w] = @ - 1]
    /\ leftward' = [leftward EXCEPT ![w] = Local!Empty]
    /\ id' = [id EXCEPT ![w] = None]
    /\ UNCHANGED <<seen, merged, calibrated, current, shared, answer, since>>

\* ToJSON copies the global scene as it is now.
Answer(w) ==
    /\ Goto(w, "answer", "idle")
    /\ answer' = [answer EXCEPT ![w] = merged]
    /\ UNCHANGED <<seen, merged, calibrated, place, current, leftward, id, shared, since>>

Continues(w) ==
    \/ CopyCurrent(w) \/ CopyLeft(w) \/ NextPlace(w) \/ ShowShared(w) \/ Answer(w)
    \/ \E k \in Keys : ShowAlone(w, k) \/ DropUnmatched(w, k) \/ RemoveLeft(w, k)

Next ==
    \/ \E i \in Places, k \in Keys, p \in Persons : UpdateLocal(i, k, p)
    \/ \E i \in Places : ClearLocal(i)
    \/ \E w \in Workers : BeginMerge(w) \/ Continues(w)

Spec == Init /\ [][Next]_vars

\* A worker executes its request to the end.
FairSpec == Spec /\ \A w \in Workers : WF_vars(Continues(w))

-------------------------------------------------------------------------------
Entries(m) == {g \in GlobalIds : m[g] # None}

\* Answers speak of the request that just ended: the invariants look at workers
\* that are idle after it, and at what they answered.
Answered(w, g) == pc[w] = "idle" /\ g \in Entries(answer[w])

\* The merged view shows nobody whom no sensor has seen since the request
\* began: what earlier requests left in the global scene never comes back.
NothingStale ==
    \A w \in Workers, g \in GlobalIds :
        Answered(w, g) =>
            <<answer[w][g].place, answer[w][g].person>> \in since[w].by

\* Nobody is shown twice if no datagram arrives meanwhile and no scene still has
\* an older entry of somebody: the person two sensors see is removed from the
\* left scene before that one is shown.
ShownOnce ==
    \A w \in Workers, g, h \in GlobalIds :
        Answered(w, g) /\ Answered(w, h) /\ since[w].quiet
        /\ answer[w][g].person = answer[w][h].person => g = h

\* The page paints shared skeletons in another colour: two sensors saw him.
SharedSeenTwice ==
    \A w \in Workers, g \in GlobalIds :
        Answered(w, g) /\ answer[w][g].shared =>
            <<answer[w][g].place - 1, answer[w][g].person>> \in since[w].by

\* The global scene has the coordinates of the first scene: what is shown went
\* through a transformation that leads from its scene to the first one.
LedToFirst ==
    \A w \in Workers, g \in GlobalIds :
        Answered(w, g) => answer[w][g].moved = ToFirst(answer[w][g].place)

\* Every data request is answered, however fast the sensors send: the loops run
\* over copies.
MergesEnd == \A w \in Workers : pc[w] # "idle" ~> pc[w] = "idle"
===============================================================================
