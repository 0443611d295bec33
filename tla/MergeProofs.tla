------------------------------ MODULE MergeProofs ------------------------------
(***************************************************************************)
(* Theorems about the merge of the scenes of a complete order, for every   *)
(* number of scenes, ids, persons and ids in the global scene, and every   *)
(* capacity.                                                               *)
(*                                                                         *)
(* The types are kept by any number of workers.  What an answer says is    *)
(* proved of any number of workers whose requests do not overlap: two that *)
(* merge at a time clear and fill the same global scene.                   *)
(***************************************************************************)
EXTENDS Merge, TLAPS

InScene == {"current", "left", "person", "show"}

\* Where a worker is in the loops tells which of its locals it may use.
Along(w) ==
    /\ pc[w] \in InScene => place[w] \in Places
    /\ pc[w] \in InScene \ {"current"} => id[w] \in GlobalIds
    /\ pc[w] = "left" => place[w] # 1
    /\ leftward[w] # Local!Empty => pc[w] \in {"person", "show"} /\ place[w] # 1
    /\ pc[w] = "show" =>
          /\ shared[w] \in Keys
          /\ current[w][shared[w]] # None
          /\ leftward[w] # Local!Empty

TypeInv == TypeOK /\ \A w \in Workers : Along(w)

-------------------------------------------------------------------------------
\* An emptied map, and one with an entry erased.
LEMMA EmptyLocal ==
    /\ Local!Empty \in Local!Contents
    /\ \A k \in Keys : Local!Empty[k] = None
BY DEF Local!Empty, Local!Contents

\* What Remove makes of a local scene.
LEMMA WithoutLocal ==
    ASSUME NEW m \in Local!Contents, NEW k \in Keys
    PROVE  /\ Local!Without(m, k) \in Local!Contents
           /\ \A l \in Keys : Local!Without(m, k)[l] = IF l = k THEN None ELSE m[l]
BY DEF Local!Without, Local!Contents

\* What Update makes of a local scene: the person is there under the id, or the
\* scene is full and he is not.
LEMMA UpdatedLocal ==
    ASSUME NEW m \in Local!Contents, NEW k \in Keys, NEW p \in Persons
    PROVE  Local!With(Local!Without(m, k), k, p) \in Local!Contents
<1>1. Local!Without(m, k) \in Local!Contents
  BY WithoutLocal
<1>. QED
  BY <1>1 DEF Local!With, Local!Contents

\* A map that is not the empty one stores somebody.
LEMMA NonemptyLocal ==
    ASSUME NEW m \in Local!Contents, m # Local!Empty
    PROVE  \E k \in Keys : m[k] # None
BY DEF Local!Empty, Local!Contents

\* The emptied global scene.
LEMMA EmptyGlobal ==
    /\ Global!Empty \in [GlobalIds -> Shown \cup {None}]
    /\ \A g \in GlobalIds : Global!Empty[g] = None
BY DEF Global!Empty

\* What Update makes of the global scene: under the id is what was put there, or
\* nothing if the scene is full, and the rest stays.
LEMMA UpdatedGlobal ==
    ASSUME NEW m \in [GlobalIds -> Shown \cup {None}], NEW g \in GlobalIds, NEW s \in Shown,
           NEW n, n = Global!With(Global!Without(m, g), g, s)
    PROVE  /\ n \in [GlobalIds -> Shown \cup {None}]
           /\ n[g] \in {s, None}
           /\ \A h \in GlobalIds : h # g => n[h] = m[h]
<1> DEFINE M == Global!Without(m, g)
<1>1. /\ M \in [GlobalIds -> Shown \cup {None}]
      /\ M[g] = None
      /\ \A h \in GlobalIds : h # g => M[h] = m[h]
  BY DEF Global!Without
<1> HIDE DEF M
<1>2. n = M \/ n = [M EXCEPT ![g] = s]
  <2>1. n = Global!With(M, g, s)
    BY DEF M
  <2>. QED
    BY <2>1, Zenon DEF Global!With
<1>. QED
  BY <1>1, <1>2

-------------------------------------------------------------------------------
\* Whatever the scenes store, the history of a request is of places and persons.
LEMMA StoresType == \A m : Stores(m) \subseteq Places \X Persons
BY DEF Stores

\* Init establishes the types.
THEOREM MergeInitTypes == Init => TypeInv
<1> SUFFICES ASSUME Init PROVE TypeInv
  OBVIOUS
<1>1. N \in Nat
  BY MergeAssumption
<1>2. TypeOK
  BY <1>1, EmptyLocal, EmptyGlobal DEF Init, TypeOK
<1>3. \A w \in Workers : Along(w)
  BY DEF Init, Along, InScene
<1>. QED
  BY <1>2, <1>3 DEF TypeInv

\* Show is what both ways of showing a skeleton have in common.
LEMMA ShowTypes ==
    ASSUME TypeOK, NEW w \in Workers, NEW k \in Keys, NEW mark \in BOOLEAN,
           current[w][k] # None, place[w] \in Places, id[w] \in GlobalIds,
           Show(w, k, mark)
    PROVE  /\ merged' \in [GlobalIds -> Shown \cup {None}]
           /\ current' \in [Workers -> Local!Contents]
           /\ \A v \in Workers \ {w} : current'[v] = current[v]
           /\ \A l \in Keys : current'[w][l] = IF l = k THEN None ELSE current[w][l]
           /\ \A g \in GlobalIds \ {id[w]} : merged'[g] = merged[g]
           /\ merged'[id[w]] # None =>
                 /\ merged'[id[w]].person = current[w][k]
                 /\ merged'[id[w]].place = place[w]
                 /\ merged'[id[w]].shared = mark
                 /\ merged'[id[w]].moved = Combined(place[w])
<1> DEFINE s == [person |-> current[w][k], place |-> place[w],
                 moved |-> Combined(place[w]), shared |-> mark]
<1>1. current[w] \in Local!Contents /\ current[w][k] \in Persons
  BY DEF TypeOK, Local!Contents
<1>2. s \in Shown
  BY <1>1 DEF Shown
<1>3. merged' = Global!With(Global!Without(merged, id[w]), id[w], s)
  BY DEF Show
<1>3a. s.person = current[w][k] /\ s.place = place[w] /\ s.shared = mark
       /\ s.moved = Combined(place[w])
  OBVIOUS
<1> HIDE DEF s
<1>4. /\ merged' \in [GlobalIds -> Shown \cup {None}]
      /\ merged'[id[w]] \in {s, None}
      /\ \A h \in GlobalIds : h # id[w] => merged'[h] = merged[h]
  <2>1. merged \in [GlobalIds -> Shown \cup {None}]
    BY DEF TypeOK
  <2>. QED
    BY <1>2, <1>3, <2>1, UpdatedGlobal
<1>5. /\ Local!Without(current[w], k) \in Local!Contents
      /\ \A l \in Keys : Local!Without(current[w], k)[l]
                           = IF l = k THEN None ELSE current[w][l]
  BY <1>1, WithoutLocal
<1>6. current' = [current EXCEPT ![w] = Local!Without(current[w], k)]
  BY DEF Show
<1>7. current \in [Workers -> Local!Contents]
  BY DEF TypeOK
<1>. QED
  BY <1>3a, <1>4, <1>5, <1>6, <1>7

\* The locals of the workers that do not step stay as they are.
Others(w) ==
    \A v \in Workers \ {w} :
        /\ pc'[v] = pc[v] /\ place'[v] = place[v] /\ id'[v] = id[v]
        /\ leftward'[v] = leftward[v] /\ shared'[v] = shared[v]
        /\ current'[v] = current[v]

\* A step of one worker leaves where the others are in their merges.
LEMMA OthersAlong ==
    ASSUME NEW w \in Workers, \A v \in Workers : Along(v), Others(w), Along(w)'
    PROVE  \A v \in Workers : Along(v)'
<1> SUFFICES ASSUME NEW v \in Workers PROVE Along(v)'
  OBVIOUS
<1>1. CASE v = w
  BY <1>1
<1>2. CASE v # w
  <2>1. Along(v)
    OBVIOUS
  <2>. QED
    BY <1>2, <2>1 DEF Others, Along
<1>. QED
  BY <1>1, <1>2

\* Every step of every thread keeps the types.
THEOREM MergeStepTypes == TypeInv /\ [Next]_vars => TypeInv'
<1> SUFFICES ASSUME TypeInv, [Next]_vars PROVE TypeInv'
  OBVIOUS
<1>0. /\ TypeOK
      /\ \A w \in Workers : Along(w)
      /\ N \in Nat \ {0, 1}
  BY MergeAssumption DEF TypeInv
<1>1. CASE UNCHANGED vars
  BY <1>0, <1>1 DEF TypeInv, TypeOK, vars, workerVars, Along
<1>2. ASSUME NEW i \in Places, NEW k \in Keys, NEW p \in Persons, UpdateLocal(i, k, p)
      PROVE  TypeInv'
  <2>1. seen' \in [Places -> Local!Contents]
    <3>1. seen[i] \in Local!Contents
      BY <1>0 DEF TypeOK
    <3>2. Local!With(Local!Without(seen[i], k), k, p) \in Local!Contents
      BY <3>1, UpdatedLocal
    <3>. QED
      BY <1>0, <1>2, <3>2 DEF UpdateLocal, TypeOK
  <2>2. since' \in [Workers -> [by: SUBSET (Places \X Persons), quiet: BOOLEAN]]
    <3>1. Stores(seen') \subseteq Places \X Persons
      BY StoresType
    <3>2. \A w \in Workers : since[w].by \cup Stores(seen') \in SUBSET (Places \X Persons)
      BY <1>0, <3>1 DEF TypeOK
    <3>. QED
      BY <1>0, <1>2, <3>2 DEF UpdateLocal, TypeOK
  <2>. QED
    BY <1>0, <1>2, <2>1, <2>2 DEF TypeInv, TypeOK, UpdateLocal, workerVars, Along
<1>3. ASSUME NEW i \in Places, ClearLocal(i) PROVE TypeInv'
  BY <1>0, <1>3, EmptyLocal DEF ClearLocal, TypeInv, TypeOK, workerVars, Along
<1>4. ASSUME NEW w \in Workers, BeginMerge(w) PROVE TypeInv'
  <2>1. since' \in [Workers -> [by: SUBSET (Places \X Persons), quiet: BOOLEAN]]
    <3>1. NobodyTwice \in BOOLEAN /\ Stores(seen) \in SUBSET (Places \X Persons)
      BY StoresType DEF NobodyTwice
    <3> DEFINE r == [by |-> Stores(seen), quiet |-> NobodyTwice]
    <3>2. r \in [by: SUBSET (Places \X Persons), quiet: BOOLEAN]
      BY <3>1
    <3>3. since' = [since EXCEPT ![w] = r]
      BY <1>4 DEF BeginMerge
    <3> HIDE DEF r
    <3>. QED
      BY <1>0, <3>2, <3>3 DEF TypeOK
  <2>2. TypeOK'
    BY <1>0, <1>4, <2>1, EmptyGlobal DEF BeginMerge, Goto, TypeOK
  <2>3. Along(w)'
    <3>1. /\ pc[w] = "idle" /\ leftward'[w] = leftward[w]
          /\ pc'[w] = IF calibrated = 0 THEN "answer" ELSE "current"
          /\ place'[w] = calibrated
          /\ calibrated \in 0..N
      BY <1>0, <1>4 DEF BeginMerge, Goto, TypeOK
    <3>2. leftward[w] = Local!Empty
      BY <1>0, <3>1 DEF Along
    <3>. QED
      BY <1>0, <3>1, <3>2 DEF Along, InScene, Places
  <2>4. Others(w)
    BY <1>0, <1>4 DEF BeginMerge, Goto, TypeOK, Others
  <2>. QED
    BY <1>0, <2>2, <2>3, <2>4, OthersAlong DEF TypeInv
<1>5. ASSUME NEW w \in Workers, CopyCurrent(w) PROVE TypeInv'
  <2>1. seen[place[w]] \in Local!Contents
    BY <1>0, <1>5 DEF CopyCurrent, Goto, TypeOK, Along, InScene
  <2>2. TypeOK'
    BY <1>0, <1>5, <2>1 DEF CopyCurrent, Goto, TypeOK
  <2>3. Along(w)'
    BY <1>0, <1>5 DEF CopyCurrent, Goto, TypeOK, Along, InScene
  <2>4. Others(w)
    BY <1>0, <1>5 DEF CopyCurrent, Goto, TypeOK, Others
  <2>. QED
    BY <1>0, <2>2, <2>3, <2>4, OthersAlong DEF TypeInv
<1>6. ASSUME NEW w \in Workers, CopyLeft(w) PROVE TypeInv'
  <2>1. seen[place[w] - 1] \in Local!Contents /\ place[w] # 1
    BY <1>0, <1>6 DEF CopyLeft, Goto, TypeOK, Along, InScene, Places
  <2>2. TypeOK'
    BY <1>0, <1>6, <2>1 DEF CopyLeft, Goto, TypeOK
  <2>3. Along(w)'
    BY <1>0, <1>6, <2>1 DEF CopyLeft, Goto, TypeOK, Along, InScene
  <2>4. Others(w)
    BY <1>0, <1>6 DEF CopyLeft, Goto, TypeOK, Others
  <2>. QED
    BY <1>0, <2>2, <2>3, <2>4, OthersAlong DEF TypeInv
<1>7. ASSUME NEW w \in Workers, NextPlace(w) PROVE TypeInv'
  <2>1. TypeOK'
    BY <1>0, <1>7, EmptyLocal DEF NextPlace, Goto, TypeOK, Along, InScene, Places
  <2>2. Along(w)'
    BY <1>0, <1>7 DEF NextPlace, Goto, TypeOK, Along, InScene, Places
  <2>3. Others(w)
    BY <1>0, <1>7 DEF NextPlace, Goto, TypeOK, Others
  <2>. QED
    BY <1>0, <2>1, <2>2, <2>3, OthersAlong DEF TypeInv
<1>8. ASSUME NEW w \in Workers, ShowShared(w) PROVE TypeInv'
  <2>1. /\ place[w] \in Places /\ id[w] \in GlobalIds
        /\ shared[w] \in Keys /\ current[w][shared[w]] # None
    BY <1>0, <1>8 DEF ShowShared, Goto, Along, InScene
  <2>2. /\ merged' \in [GlobalIds -> Shown \cup {None}]
        /\ current' \in [Workers -> Local!Contents]
        /\ \A v \in Workers \ {w} : current'[v] = current[v]
    BY <1>0, <1>8, <2>1, ShowTypes DEF ShowShared
  <2>3. TypeOK'
    BY <1>0, <1>8, <2>2 DEF ShowShared, Goto, TypeOK
  <2>4. Along(w)'
    BY <1>0, <1>8 DEF ShowShared, Goto, TypeOK, Along, InScene
  <2>5. Others(w)
    BY <1>0, <1>8, <2>2 DEF ShowShared, Goto, TypeOK, Others
  <2>. QED
    BY <1>0, <2>3, <2>4, <2>5, OthersAlong DEF TypeInv
<1>9. ASSUME NEW w \in Workers, Answer(w) PROVE TypeInv'
  <2>1. TypeOK'
    BY <1>0, <1>9 DEF Answer, Goto, TypeOK
  <2>2. Along(w)'
    BY <1>0, <1>9 DEF Answer, Goto, TypeOK, Along, InScene
  <2>3. Others(w)
    BY <1>0, <1>9 DEF Answer, Goto, TypeOK, Others
  <2>. QED
    BY <1>0, <2>1, <2>2, <2>3, OthersAlong DEF TypeInv
<1>10. ASSUME NEW w \in Workers, NEW k \in Keys, ShowAlone(w, k) PROVE TypeInv'
  <2>1. /\ place[w] \in Places /\ id[w] \in GlobalIds
        /\ current[w][k] # None
    BY <1>0, <1>10 DEF ShowAlone, Goto, Along, InScene
  <2>2. /\ merged' \in [GlobalIds -> Shown \cup {None}]
        /\ current' \in [Workers -> Local!Contents]
        /\ \A v \in Workers \ {w} : current'[v] = current[v]
    BY <1>0, <1>10, <2>1, ShowTypes DEF ShowAlone
  <2>3. TypeOK'
    BY <1>0, <1>10, <2>2 DEF ShowAlone, Goto, TypeOK
  <2>4. Along(w)'
    BY <1>0, <1>10 DEF ShowAlone, Goto, TypeOK, Along, InScene
  <2>5. Others(w)
    BY <1>0, <1>10, <2>2 DEF ShowAlone, Goto, TypeOK, Others
  <2>. QED
    BY <1>0, <2>3, <2>4, <2>5, OthersAlong DEF TypeInv
<1>11. ASSUME NEW w \in Workers, NEW k \in Keys, DropUnmatched(w, k) PROVE TypeInv'
  <2>1. Local!Without(current[w], k) \in Local!Contents
    BY <1>0, WithoutLocal DEF TypeOK
  <2>2. TypeOK'
    BY <1>0, <1>11, <2>1 DEF DropUnmatched, Goto, TypeOK
  <2>3. Along(w)'
    BY <1>0, <1>11 DEF DropUnmatched, Goto, TypeOK, Along, InScene
  <2>4. Others(w)
    BY <1>0, <1>11 DEF DropUnmatched, Goto, TypeOK, Others
  <2>. QED
    BY <1>0, <2>2, <2>3, <2>4, OthersAlong DEF TypeInv
<1>12. ASSUME NEW w \in Workers, NEW k \in Keys, RemoveLeft(w, k) PROVE TypeInv'
  <2>1. PICK j \in Candidates(w, k) :
            seen' = [seen EXCEPT ![place[w] - 1] = Local!Without(@, j)]
    BY <1>12 DEF RemoveLeft
  <2>2. j \in Keys /\ leftward[w][j] # None
    BY DEF Candidates
  <2>3. leftward[w] # Local!Empty
    BY <2>2, EmptyLocal
  <2>4. place[w] - 1 \in Places
    BY <1>0, <1>12, <2>3 DEF RemoveLeft, Goto, Along, InScene, Places
  <2>5. Local!Without(seen[place[w] - 1], j) \in Local!Contents
    BY <1>0, <2>2, <2>4, WithoutLocal DEF TypeOK
  <2>6. seen' \in [Places -> Local!Contents]
    BY <1>0, <2>1, <2>4, <2>5 DEF TypeOK
  <2>7. TypeOK'
    BY <1>0, <1>12, <2>6 DEF RemoveLeft, Goto, TypeOK
  <2>8. Along(w)'
    BY <1>0, <1>12, <2>3 DEF RemoveLeft, Goto, TypeOK, Along, InScene
  <2>9. Others(w)
    BY <1>0, <1>12 DEF RemoveLeft, Goto, TypeOK, Others
  <2>. QED
    BY <1>0, <2>7, <2>8, <2>9, OthersAlong DEF TypeInv
<1>. QED
  BY <1>1, <1>2, <1>3, <1>4, <1>5, <1>6, <1>7, <1>8, <1>9, <1>10, <1>11, <1>12
  DEF Next, Continues

\* The type invariant of Merge, with any number of workers.
THEOREM MergeTypeCorrect == Spec => []TypeOK
<1>1. TypeInv => TypeOK
  BY DEF TypeInv
<1>. QED
  BY <1>1, MergeInitTypes, MergeStepTypes, PTL DEF Spec

-------------------------------------------------------------------------------
\* Requests do not overlap, however many workers there are.
Serial == \A v, w \in Workers : pc[v] # "idle" /\ pc[w] # "idle" => v = w

\* So a worker rests while another one moves, with the answer it gave.
LEMMA OthersRest ==
    ASSUME Serial, Serial', TypeOK, NEW w \in Workers, NEW v \in Workers, v # w,
           BeginMerge(v) \/ Continues(v)
    PROVE  /\ pc[w] = "idle" /\ pc'[w] = "idle"
           /\ answer'[w] = answer[w] /\ since'[w] = since[w]
<1>0. /\ pc \in [Workers -> {"idle", "current", "left", "person", "show", "answer"}]
      /\ answer \in [Workers -> [GlobalIds -> Shown \cup {None}]]
      /\ since \in [Workers -> [by: SUBSET (Places \X Persons), quiet: BOOLEAN]]
  BY DEF TypeOK
<1>1. PICK from, to : /\ from # "idle" \/ to # "idle"
                      /\ Goto(v, from, to)
                      /\ answer'[w] = answer[w] /\ since'[w] = since[w]
  <2>1. CASE BeginMerge(v)
    BY <1>0, <2>1 DEF BeginMerge
  <2>2. CASE CopyCurrent(v) \/ CopyLeft(v) \/ NextPlace(v) \/ ShowShared(v) \/ Answer(v)
    BY <1>0, <2>2 DEF CopyCurrent, CopyLeft, NextPlace, ShowShared, Answer
  <2>3. CASE \E k \in Keys : ShowAlone(v, k) \/ DropUnmatched(v, k) \/ RemoveLeft(v, k)
    BY <1>0, <2>3 DEF ShowAlone, DropUnmatched, RemoveLeft
  <2>. QED
    BY <2>1, <2>2, <2>3 DEF Continues
<1>2. pc[v] = from /\ pc'[v] = to /\ pc'[w] = pc[w]
  BY <1>0, <1>1 DEF Goto
<1>. QED
  BY <1>1, <1>2 DEF Serial

\* What a request has in hand was seen since it began: what scenes store, what
\* the worker copied, and what it put into the global scene; so was what it
\* answered with.
Sourced(w) ==
    /\ pc[w] # "idle" =>
        /\ Stores(seen) \subseteq since[w].by
        /\ pc[w] \in InScene \ {"current"} =>
              \A k \in Keys : current[w][k] # None =>
                  <<place[w], current[w][k]>> \in since[w].by
        /\ \A j \in Keys : leftward[w][j] # None =>
              <<place[w] - 1, leftward[w][j]>> \in since[w].by
        /\ \A g \in GlobalIds : merged[g] # None =>
              <<merged[g].place, merged[g].person>> \in since[w].by
    /\ pc[w] = "idle" =>
          \A g \in GlobalIds : answer[w][g] # None =>
              <<answer[w][g].place, answer[w][g].person>> \in since[w].by

\* Whom a scene stores, and what follows when scenes store less.
LEMMA StoredByScene ==
    ASSUME NEW m \in [Places -> Local!Contents], NEW i \in Places, NEW k \in Keys,
           m[i][k] # None
    PROVE  <<i, m[i][k]>> \in Stores(m)
<1>1. m[i][k] \in Persons
  BY DEF Local!Contents
<1> DEFINE x == <<i, m[i][k]>>
<1>2. x \in Places \X Persons /\ x[1] = i /\ x[2] = m[i][k]
  BY <1>1
<1>. QED
  BY <1>2 DEF Stores

Fewer(m, n) == \A i \in Places, k \in Keys : n[i][k] \in {m[i][k], None}

\* Whoever is stored in a scene with less was stored before.
LEMMA FewerStored ==
    ASSUME NEW m, NEW n, Fewer(m, n)
    PROVE  Stores(n) \subseteq Stores(m)
BY MergeAssumption DEF Fewer, Stores

\* Clearing a scene and removing a match leave fewer.
LEMMA ClearedFewer ==
    ASSUME TypeOK, NEW i \in Places, ClearLocal(i)
    PROVE  Fewer(seen, seen')
BY EmptyLocal DEF TypeOK, ClearLocal, Fewer

\* A match is removed from the copied left scene's original, and nothing appears.
LEMMA RemovedFewer ==
    ASSUME TypeInv, NEW w \in Workers, NEW k \in Keys, RemoveLeft(w, k)
    PROVE  \E j \in Keys :
              /\ leftward[w][j] # None
              /\ Near(current[w][k], leftward[w][j])
              /\ place[w] \in Places /\ place[w] - 1 \in Places
              /\ seen'[place[w] - 1][j] = None
              /\ Fewer(seen, seen')
<1>0. TypeOK /\ Along(w)
  BY DEF TypeInv
<1>1. PICK j \in Candidates(w, k) :
          seen' = [seen EXCEPT ![place[w] - 1] = Local!Without(@, j)]
  BY DEF RemoveLeft
<1>2. j \in Keys /\ leftward[w][j] # None /\ Near(current[w][k], leftward[w][j])
  BY DEF Candidates
<1>3. place[w] \in Places /\ place[w] - 1 \in Places
  <2>1. leftward[w] # Local!Empty
    BY <1>2, EmptyLocal
  <2>2. pc[w] = "person"
    BY DEF RemoveLeft, Goto
  <2>3. place[w] \in Places /\ place[w] # 1
    BY <1>0, <2>1, <2>2 DEF Along, InScene
  <2>. QED
    BY <2>3, MergeAssumption DEF Places
<1>4. seen \in [Places -> Local!Contents] /\ seen[place[w] - 1] \in Local!Contents
  BY <1>0, <1>3 DEF TypeOK
<1>5. \A l \in Keys : Local!Without(seen[place[w] - 1], j)[l]
                      = IF l = j THEN None ELSE seen[place[w] - 1][l]
  BY <1>2, <1>4, WithoutLocal
<1>6. Fewer(seen, seen') /\ seen'[place[w] - 1][j] = None
  BY <1>1, <1>2, <1>3, <1>4, <1>5 DEF Fewer
<1>. QED
  BY <1>2, <1>3, <1>6

\* The global scene of the worker that merges takes its entries from what it copied.
LEMMA ShowSourced ==
    ASSUME TypeInv, NEW w \in Workers, Sourced(w), NEW k \in Keys, NEW mark \in BOOLEAN,
           pc[w] \in {"person", "show"}, pc'[w] = "person", current[w][k] # None,
           Show(w, k, mark),
           UNCHANGED <<seen, place, leftward, since>>
    PROVE  Sourced(w)'
<1>1. TypeOK /\ place[w] \in Places /\ id[w] \in GlobalIds
  BY DEF TypeInv, Along, InScene
<1>2. /\ \A l \in Keys : current'[w][l] = IF l = k THEN None ELSE current[w][l]
      /\ \A g \in GlobalIds \ {id[w]} : merged'[g] = merged[g]
      /\ merged'[id[w]] # None =>
            /\ merged'[id[w]].person = current[w][k]
            /\ merged'[id[w]].place = place[w]
            /\ merged'[id[w]].shared = mark
  BY <1>1, ShowTypes
<1>3. \A g \in GlobalIds : merged'[g] # None =>
          <<merged'[g].place, merged'[g].person>> \in since[w].by
  BY <1>2 DEF Sourced, InScene
<1>4. \A l \in Keys : current'[w][l] # None => <<place[w], current'[w][l]>> \in since[w].by
  BY <1>2 DEF Sourced, InScene
<1>5. /\ place'[w] = place[w] /\ leftward'[w] = leftward[w]
      /\ since'[w] = since[w] /\ Stores(seen') = Stores(seen)
  BY DEF Stores
<1>6. pc[w] # "idle" /\ pc'[w] # "idle"
  OBVIOUS
<1>. QED
  BY <1>3, <1>4, <1>5, <1>6 DEF Sourced

\* Every step of a worker, and every one of another thread, keeps what is
\* in hand to what was seen since the request began.
LEMMA SourcedStep ==
    ASSUME Serial, Serial', TypeInv, TypeInv', NEW w \in Workers, Sourced(w), [Next]_vars
    PROVE  Sourced(w)'
<1>0. TypeOK /\ TypeOK' /\ Along(w)
  BY DEF TypeInv
<1>1. CASE UNCHANGED vars
  BY <1>1 DEF vars, workerVars, Sourced, Stores
<1>2. ASSUME NEW i \in Places, NEW k \in Keys, NEW p \in Persons, UpdateLocal(i, k, p)
      PROVE  Sourced(w)'
  <2>1. since'[w] = IF pc[w] = "idle" THEN since[w]
                    ELSE [by |-> since[w].by \cup Stores(seen'), quiet |-> FALSE]
    BY <1>2 DEF UpdateLocal
  <2>2. pc[w] = "idle" => since'[w] = since[w]
    BY <2>1
  <2>3. pc[w] # "idle" => since[w].by \subseteq since'[w].by /\ Stores(seen') \subseteq since'[w].by
    BY <2>1
  <2>4. UNCHANGED <<merged, workerVars, answer>>
    BY <1>2 DEF UpdateLocal
  <2>. QED
    BY <2>2, <2>3, <2>4 DEF Sourced, workerVars
<1>3. ASSUME NEW i \in Places, ClearLocal(i) PROVE Sourced(w)'
  <2>1. Stores(seen') \subseteq Stores(seen)
    BY <1>0, <1>3, ClearedFewer, FewerStored
  <2>2. UNCHANGED <<merged, workerVars, answer, since>>
    BY <1>3 DEF ClearLocal
  <2>. QED
    BY <2>1, <2>2 DEF Sourced, workerVars
<1>4. CASE BeginMerge(w)
  <2>1. pc[w] = "idle" /\ pc'[w] \in {"current", "answer"}
    BY <1>0, <1>4 DEF BeginMerge, Goto, TypeOK
  <2>2. leftward'[w] = Local!Empty
    BY <1>0, <1>4, <2>1 DEF BeginMerge, Along
  <2>3. since'[w].by = Stores(seen)
    BY <1>0, <1>4 DEF BeginMerge, TypeOK
  <2>4. \A g \in GlobalIds : merged'[g] = None
    BY <1>4, EmptyGlobal DEF BeginMerge
  <2>5. Stores(seen') = Stores(seen)
    BY <1>4 DEF BeginMerge, Stores
  <2>. QED
    BY <2>1, <2>2, <2>3, <2>4, <2>5, EmptyLocal DEF Sourced, InScene
<1>5. CASE CopyCurrent(w)
  <2>1. pc[w] = "current" /\ pc'[w] \in {"person", "left"} /\ place[w] \in Places
    BY <1>0, <1>5 DEF CopyCurrent, Goto, TypeOK, Along, InScene
  <2>2. current'[w] = seen[place[w]]
    BY <1>0, <1>5 DEF CopyCurrent, TypeOK
  <2>3. \A k \in Keys : current'[w][k] # None =>
            <<place[w], current'[w][k]>> \in Stores(seen)
    BY <1>0, <2>1, <2>2, StoredByScene DEF TypeOK
  <2>4. UNCHANGED <<seen, merged, place, leftward, answer, since>>
    BY <1>5 DEF CopyCurrent
  <2>5. Stores(seen') = Stores(seen)
    BY <2>4 DEF Stores
  <2>. QED
    BY <2>1, <2>3, <2>4, <2>5 DEF Sourced
<1>6. CASE CopyLeft(w)
  <2>1. pc[w] = "left" /\ pc'[w] = "person" /\ place[w] - 1 \in Places
    BY <1>0, <1>6, MergeAssumption DEF CopyLeft, Goto, TypeOK, Along, InScene, Places
  <2>2. leftward'[w] = seen[place[w] - 1]
    BY <1>0, <1>6 DEF CopyLeft, TypeOK
  <2>3. \A k \in Keys : leftward'[w][k] # None =>
            <<place[w] - 1, leftward'[w][k]>> \in Stores(seen)
    BY <1>0, <2>1, <2>2, StoredByScene DEF TypeOK
  <2>4. UNCHANGED <<seen, merged, place, current, answer, since>>
    BY <1>6 DEF CopyLeft
  <2>5. Stores(seen') = Stores(seen)
    BY <2>4 DEF Stores
  <2>. QED
    BY <2>1, <2>3, <2>4, <2>5 DEF Sourced, InScene
<1>7. CASE NextPlace(w)
  <2>1. pc[w] = "person" /\ pc'[w] \in {"answer", "current"}
    BY <1>0, <1>7 DEF NextPlace, Goto, TypeOK
  <2>2. leftward'[w] = Local!Empty
    BY <1>0, <1>7 DEF NextPlace, TypeOK
  <2>3. UNCHANGED <<seen, merged, answer, since>>
    BY <1>7 DEF NextPlace
  <2>4. Stores(seen') = Stores(seen)
    BY <2>3 DEF Stores
  <2>. QED
    BY <2>1, <2>2, <2>3, <2>4, EmptyLocal DEF Sourced, InScene
<1>8. CASE ShowShared(w)
  <2>1. shared[w] \in Keys /\ current[w][shared[w]] # None /\ pc[w] = "show"
        /\ pc'[w] = "person" /\ Show(w, shared[w], TRUE)
        /\ UNCHANGED <<seen, place, leftward, since>>
    BY <1>0, <1>8 DEF ShowShared, Goto, Along, TypeOK
  <2>. QED
    BY <2>1, ShowSourced
<1>9. CASE Answer(w)
  <2>1. pc[w] = "answer" /\ pc'[w] = "idle"
    BY <1>0, <1>9 DEF Answer, Goto, TypeOK
  <2>2. answer'[w] = merged /\ since'[w] = since[w]
    BY <1>0, <1>9 DEF Answer, TypeOK
  <2>. QED
    BY <2>1, <2>2 DEF Sourced
<1>10. ASSUME NEW k \in Keys, ShowAlone(w, k) PROVE Sourced(w)'
  <2>1. current[w][k] # None /\ pc[w] = "person" /\ pc'[w] = "person"
        /\ Show(w, k, FALSE) /\ UNCHANGED <<seen, place, leftward, since>>
    BY <1>0, <1>10 DEF ShowAlone, Goto, TypeOK
  <2>. QED
    BY <2>1, ShowSourced
<1>11. ASSUME NEW k \in Keys, DropUnmatched(w, k) PROVE Sourced(w)'
  <2>1. pc[w] = "person" /\ pc'[w] = "person"
    BY <1>0, <1>11 DEF DropUnmatched, Goto, TypeOK
  <2>2. \A l \in Keys : current'[w][l] \in {current[w][l], None}
    BY <1>0, <1>11, WithoutLocal DEF DropUnmatched, TypeOK
  <2>3. UNCHANGED <<seen, merged, place, leftward, answer, since>>
    BY <1>11 DEF DropUnmatched
  <2>4. Stores(seen') = Stores(seen)
    BY <2>3 DEF Stores
  <2>. QED
    BY <2>1, <2>2, <2>3, <2>4 DEF Sourced, InScene
<1>12. ASSUME NEW k \in Keys, RemoveLeft(w, k) PROVE Sourced(w)'
  <2>1. pc[w] = "person" /\ pc'[w] = "show"
    BY <1>0, <1>12 DEF RemoveLeft, Goto, TypeOK
  <2>2. Fewer(seen, seen')
    BY <1>12, RemovedFewer
  <2>3. Stores(seen') \subseteq Stores(seen)
    BY <2>2, FewerStored
  <2>4. UNCHANGED <<merged, place, current, leftward, answer, since>>
    BY <1>12 DEF RemoveLeft
  <2>. QED
    BY <2>1, <2>3, <2>4 DEF Sourced, InScene
<1>13. ASSUME NEW v \in Workers, v # w, BeginMerge(v) \/ Continues(v) PROVE Sourced(w)'
  <2>1. /\ pc[w] = "idle" /\ pc'[w] = "idle"
        /\ answer'[w] = answer[w] /\ since'[w] = since[w]
    BY <1>0, <1>13, OthersRest
  <2>. QED
    BY <2>1 DEF Sourced
<1>14. CASE BeginMerge(w) \/ Continues(w)
  BY <1>4, <1>5, <1>6, <1>7, <1>8, <1>9, <1>10, <1>11, <1>12, <1>14 DEF Continues
<1>. QED
  <2>1. [Next]_vars
    OBVIOUS
  <2>. QED
    BY <2>1, <1>1, <1>2, <1>3, <1>13, <1>14 DEF Next

\* Nothing is sourced before the first request.
LEMMA SourcedInit == ASSUME Init, NEW w \in Workers PROVE Sourced(w)
BY EmptyGlobal DEF Init, Sourced

\* While requests do not overlap, an answer shows nobody whom no sensor has seen since its
\* request began: what earlier requests left in the global scene never comes back.
THEOREM NothingStaleHolds == Spec /\ []Serial => []NothingStale
<1> DEFINE Inv == TypeInv /\ \A w \in Workers : Sourced(w)
<1>1. Init => Inv
  BY MergeInitTypes, SourcedInit
<1>2. Inv /\ Serial /\ Serial' /\ [Next]_vars => Inv'
  BY MergeStepTypes, SourcedStep
<1>3. Inv => NothingStale
  BY DEF NothingStale, Answered, Entries, Sourced
<1>. QED
  BY <1>1, <1>2, <1>3, PTL DEF Spec

-------------------------------------------------------------------------------
\* No two persons stand in line.
Apart == \A x \in Aligned : x[1] = x[2]

\* A match is, and an entry marked as shared was, a person the left scene saw, too.
Matched(w) ==
    /\ pc[w] = "show" =>
          <<place[w] - 1, current[w][shared[w]]>> \in since[w].by
    /\ pc[w] # "idle" =>
          \A g \in GlobalIds : merged[g] # None /\ merged[g].shared =>
              <<merged[g].place - 1, merged[g].person>> \in since[w].by
    /\ pc[w] = "idle" =>
          \A g \in GlobalIds : answer[w][g] # None /\ answer[w][g].shared =>
              <<answer[w][g].place - 1, answer[w][g].person>> \in since[w].by

\* An entry made of a match is of somebody both scenes saw; one that is made of
\* no match is not marked.
LEMMA ShowMatched ==
    ASSUME TypeInv, NEW w \in Workers, Matched(w), NEW k \in Keys, NEW mark \in BOOLEAN,
           pc[w] \in {"person", "show"}, pc'[w] = "person", current[w][k] # None,
           mark => pc[w] = "show" /\ k = shared[w],
           Show(w, k, mark),
           UNCHANGED <<place, since>>
    PROVE  Matched(w)'
<1>1. TypeOK /\ place[w] \in Places /\ id[w] \in GlobalIds
  BY DEF TypeInv, Along, InScene
<1>2. /\ \A g \in GlobalIds \ {id[w]} : merged'[g] = merged[g]
      /\ merged'[id[w]] # None =>
            /\ merged'[id[w]].person = current[w][k]
            /\ merged'[id[w]].place = place[w]
            /\ merged'[id[w]].shared = mark
  BY <1>1, ShowTypes
<1>3. ASSUME NEW g \in GlobalIds, merged'[g] # None, merged'[g].shared
      PROVE  <<merged'[g].place - 1, merged'[g].person>> \in since[w].by
  <2>1. CASE g = id[w]
    BY <1>2, <1>3, <2>1 DEF Matched
  <2>2. CASE g # id[w]
    <3>1. merged'[g] = merged[g]
      BY <1>2, <2>2
    <3>. QED
      BY <1>3, <3>1 DEF Matched
  <2>. QED
    BY <2>1, <2>2
<1>4. since'[w] = since[w]
  OBVIOUS
<1>. QED
  BY <1>3, <1>4 DEF Matched

\* Every step keeps matches to persons that both scenes saw.
LEMMA MatchedStep ==
    ASSUME Serial, Serial', Apart, TypeInv, NEW w \in Workers, Sourced(w), Matched(w),
           [Next]_vars
    PROVE  Matched(w)'
<1>0. TypeOK /\ Along(w)
  BY DEF TypeInv
<1>1. CASE UNCHANGED vars
  BY <1>1 DEF vars, workerVars, Matched
<1>2. ASSUME NEW i \in Places, NEW k \in Keys, NEW p \in Persons, UpdateLocal(i, k, p)
      PROVE  Matched(w)'
  <2>1. since'[w] = IF pc[w] = "idle" THEN since[w]
                    ELSE [by |-> since[w].by \cup Stores(seen'), quiet |-> FALSE]
    BY <1>2 DEF UpdateLocal
  <2>2. since[w].by \subseteq since'[w].by
    BY <2>1
  <2>3. UNCHANGED <<merged, workerVars, answer>>
    BY <1>2 DEF UpdateLocal
  <2>. QED
    BY <2>2, <2>3 DEF Matched, workerVars
<1>3. ASSUME NEW i \in Places, ClearLocal(i) PROVE Matched(w)'
  BY <1>3 DEF ClearLocal, Matched, workerVars
<1>4. CASE BeginMerge(w)
  <2>1. pc'[w] \in {"current", "answer"}
    BY <1>0, <1>4 DEF BeginMerge, Goto, TypeOK
  <2>2. \A g \in GlobalIds : merged'[g] = None
    BY <1>4, EmptyGlobal DEF BeginMerge
  <2>. QED
    BY <2>1, <2>2 DEF Matched
<1>5. CASE CopyCurrent(w)
  <2>1. pc[w] = "current" /\ pc'[w] \in {"person", "left"}
    BY <1>0, <1>5 DEF CopyCurrent, Goto, TypeOK
  <2>. QED
    BY <1>5, <2>1 DEF Matched, CopyCurrent
<1>6. CASE CopyLeft(w)
  <2>1. pc[w] = "left" /\ pc'[w] = "person"
    BY <1>0, <1>6 DEF CopyLeft, Goto, TypeOK
  <2>. QED
    BY <1>6, <2>1 DEF Matched, CopyLeft
<1>7. CASE NextPlace(w)
  <2>1. pc[w] = "person" /\ pc'[w] \in {"answer", "current"}
    BY <1>0, <1>7 DEF NextPlace, Goto, TypeOK
  <2>. QED
    BY <1>7, <2>1 DEF Matched, NextPlace
<1>8. CASE ShowShared(w)
  <2>1. shared[w] \in Keys /\ current[w][shared[w]] # None /\ pc[w] = "show"
        /\ pc'[w] = "person" /\ Show(w, shared[w], TRUE)
        /\ UNCHANGED <<place, since>>
    BY <1>0, <1>8 DEF ShowShared, Goto, Along, TypeOK
  <2>. QED
    BY <2>1, ShowMatched
<1>9. CASE Answer(w)
  <2>1. pc[w] = "answer" /\ pc'[w] = "idle"
    BY <1>0, <1>9 DEF Answer, Goto, TypeOK
  <2>2. answer'[w] = merged /\ since'[w] = since[w]
    BY <1>0, <1>9 DEF Answer, TypeOK
  <2>. QED
    BY <2>1, <2>2 DEF Matched
<1>10. ASSUME NEW k \in Keys, ShowAlone(w, k) PROVE Matched(w)'
  <2>1. current[w][k] # None /\ pc[w] = "person" /\ pc'[w] = "person"
        /\ Show(w, k, FALSE) /\ UNCHANGED <<place, since>>
    BY <1>0, <1>10 DEF ShowAlone, Goto, TypeOK
  <2>. QED
    BY <2>1, ShowMatched
<1>11. ASSUME NEW k \in Keys, DropUnmatched(w, k) PROVE Matched(w)'
  <2>1. pc[w] = "person" /\ pc'[w] = "person"
    BY <1>0, <1>11 DEF DropUnmatched, Goto, TypeOK
  <2>. QED
    BY <1>11, <2>1 DEF Matched, DropUnmatched
<1>12. ASSUME NEW k \in Keys, RemoveLeft(w, k) PROVE Matched(w)'
  <2>1. pc[w] = "person" /\ pc'[w] = "show" /\ shared'[w] = k
    BY <1>0, <1>12 DEF RemoveLeft, Goto, TypeOK
  <2>2. PICK j \in Keys : leftward[w][j] # None /\ Near(current[w][k], leftward[w][j])
    BY <1>12, RemovedFewer
  <2>3. leftward[w][j] = current[w][k]
    BY <2>2 DEF Near, Apart
  <2>4. <<place[w] - 1, current[w][k]>> \in since[w].by
    BY <2>1, <2>2, <2>3 DEF Sourced
  <2>5. UNCHANGED <<merged, place, current, leftward, answer, since>>
    BY <1>12 DEF RemoveLeft
  <2>. QED
    BY <2>1, <2>4, <2>5 DEF Matched
<1>13. ASSUME NEW v \in Workers, v # w, BeginMerge(v) \/ Continues(v) PROVE Matched(w)'
  <2>1. /\ pc[w] = "idle" /\ pc'[w] = "idle"
        /\ answer'[w] = answer[w] /\ since'[w] = since[w]
    BY <1>0, <1>13, OthersRest
  <2>. QED
    BY <2>1 DEF Matched
<1>14. CASE BeginMerge(w) \/ Continues(w)
  BY <1>4, <1>5, <1>6, <1>7, <1>8, <1>9, <1>10, <1>11, <1>12, <1>14 DEF Continues
<1>. QED
  <2>1. [Next]_vars
    OBVIOUS
  <2>. QED
    BY <2>1, <1>1, <1>2, <1>3, <1>13, <1>14 DEF Next

\* Nothing is matched before the first request.
LEMMA MatchedInit == ASSUME Init, NEW w \in Workers PROVE Matched(w)
BY EmptyGlobal DEF Init, Matched

\* While requests do not overlap and no two persons are in line, whom an answer marks
\* as shared was seen by the left scene, too.
THEOREM SharedSeenTwiceHolds == ASSUME Apart PROVE Spec /\ []Serial => []SharedSeenTwice
<1> DEFINE Inv == TypeInv /\ \A w \in Workers : Sourced(w) /\ Matched(w)
<1>1. Init => Inv
  BY MergeInitTypes, SourcedInit, MatchedInit
<1>2. Inv /\ Serial /\ Serial' /\ [Next]_vars => Inv'
  BY MergeStepTypes, SourcedStep, MatchedStep
<1>3. Inv => SharedSeenTwice
  BY DEF SharedSeenTwice, Answered, Entries, Matched
<1>. QED
  BY <1>1, <1>2, <1>3, PTL DEF Spec

-------------------------------------------------------------------------------
\* Nothing is shared by two entries of a scene, and nobody by two neighbours.
Once(m) ==
    \A g, h \in GlobalIds : m[g] # None /\ m[h] # None =>
        /\ m[g].place = m[h].place => g = h
        /\ m[g].place = m[h].place + 1 => m[g].person # m[h].person

\* While nothing is stored: whom a scene's part of the merge showed, the scene
\* to its left no longer stores, so its part will not show him; and each part
\* has all its entries under one id.
Disjoint(w) ==
    /\ pc[w] # "idle" /\ since[w].quiet =>
        /\ NobodyTwice
        /\ \A j, l \in Keys :
              leftward[w][j] # None /\ leftward[w][j] = leftward[w][l] => j = l
        /\ pc[w] \in {"person", "show"} /\ place[w] # 1 =>
              \A j \in Keys : seen[place[w] - 1][j] \in {leftward[w][j], None}
        /\ pc[w] = "show" =>
              \A j \in Keys : seen[place[w] - 1][j] # current[w][shared[w]]
        /\ \A g \in GlobalIds : merged[g] # None =>
              /\ merged[g].place # 1 =>
                    \A j \in Keys : seen[merged[g].place - 1][j] # merged[g].person
              /\ pc[w] \in InScene \ {"current"} /\ merged[g].place = place[w] + 1 =>
                    \A k \in Keys : current[w][k] # merged[g].person
              /\ \/ merged[g].place > place[w]
                 \/ /\ merged[g].place = place[w]
                    /\ pc[w] \in {"person", "show"}
                    /\ g = id[w]
        /\ Once(merged)
    /\ pc[w] = "idle" /\ since[w].quiet => Once(answer[w])

\* Scenes that store less still store nobody twice.
LEMMA FewerOnce ==
    ASSUME NobodyTwice, Fewer(seen, seen')
    PROVE  NobodyTwice'
BY DEF NobodyTwice, Fewer

\* A place left of a place.
LEMMA PlaceLeft ==
    ASSUME NEW i \in Places, i # 1
    PROVE  i - 1 \in Places
BY MergeAssumption DEF Places

\* An entry of somebody the left scene does not store keeps the parts disjoint.
LEMMA ShowDisjoint ==
    ASSUME TypeInv, NEW w \in Workers, Disjoint(w), NEW k \in Keys, NEW mark \in BOOLEAN,
           pc[w] \in {"person", "show"}, pc'[w] = "person", current[w][k] # None,
           since[w].quiet /\ place[w] # 1 =>
               \A j \in Keys : seen[place[w] - 1][j] # current[w][k],
           Show(w, k, mark),
           UNCHANGED <<seen, place, leftward, id, since>>
    PROVE  Disjoint(w)'
<1>1. /\ TypeOK /\ place[w] \in Places /\ id[w] \in GlobalIds
      /\ current[w][k] \in Persons
  BY DEF TypeInv, TypeOK, Along, InScene, Local!Contents
<1>2. /\ merged' \in [GlobalIds -> Shown \cup {None}]
      /\ \A l \in Keys : current'[w][l] = IF l = k THEN None ELSE current[w][l]
      /\ \A g \in GlobalIds \ {id[w]} : merged'[g] = merged[g]
      /\ merged'[id[w]] # None =>
            /\ merged'[id[w]].person = current[w][k]
            /\ merged'[id[w]].place = place[w]
            /\ merged'[id[w]].shared = mark
  BY <1>1, ShowTypes
<1>3. SUFFICES ASSUME since[w].quiet PROVE Disjoint(w)'
  BY DEF Disjoint
<1>4. /\ NobodyTwice
      /\ \A j, l \in Keys :
            leftward[w][j] # None /\ leftward[w][j] = leftward[w][l] => j = l
      /\ place[w] # 1 => \A j \in Keys : seen[place[w] - 1][j] \in {leftward[w][j], None}
      /\ \A g \in GlobalIds : merged[g] # None =>
            /\ merged[g].place # 1 =>
                  \A j \in Keys : seen[merged[g].place - 1][j] # merged[g].person
            /\ merged[g].place = place[w] + 1 =>
                  \A l \in Keys : current[w][l] # merged[g].person
            /\ merged[g].place > place[w] \/ g = id[w]
      /\ Once(merged)
  BY <1>3 DEF Disjoint, InScene
<1>5. \A g \in GlobalIds : merged'[g] # None =>
          \/ g # id[w] /\ merged'[g] = merged[g] /\ merged[g].place > place[w]
             /\ merged[g] \in Shown
          \/ g = id[w] /\ merged'[g].person = current[w][k] /\ merged'[g].place = place[w]
  BY <1>1, <1>2, <1>4 DEF TypeOK
<1>6. ASSUME NEW g \in GlobalIds, merged'[g] # None, merged'[g].place # 1
      PROVE  \A j \in Keys : seen[merged'[g].place - 1][j] # merged'[g].person
  BY <1>3, <1>4, <1>5, <1>6
<1>7. ASSUME NEW g \in GlobalIds, merged'[g] # None, merged'[g].place = place[w] + 1
      PROVE  \A l \in Keys : current'[w][l] # merged'[g].person
  <2>1. g # id[w] /\ merged'[g] = merged[g] /\ merged[g] \in Shown
    BY <1>1, <1>5, <1>7 DEF Places
  <2>2. merged[g].person # None
    BY <2>1, MergeAssumption DEF Shown
  <2>. QED
    BY <1>2, <1>4, <1>7, <2>1, <2>2
<1>8. Once(merged')
  <2> SUFFICES ASSUME NEW g \in GlobalIds, NEW h \in GlobalIds,
                      merged'[g] # None, merged'[h] # None
               PROVE  /\ merged'[g].place = merged'[h].place => g = h
                      /\ merged'[g].place = merged'[h].place + 1 =>
                            merged'[g].person # merged'[h].person
    BY Zenon DEF Once
  <2>0. place[w] \in Int
    BY <1>1 DEF Places
  <2>1. CASE g # id[w] /\ h # id[w]
    <3>1. merged'[g] = merged[g] /\ merged'[h] = merged[h]
      BY <1>5, <2>1
    <3>. QED
      BY <1>4, <3>1 DEF Once
  <2>2. CASE g = id[w] /\ h # id[w]
    <3>1. merged'[h] = merged[h] /\ merged[h].place > place[w] /\ merged[h].place \in Int
      BY <1>5, <2>2 DEF Shown, Places
    <3>. QED
      BY <1>5, <2>0, <2>2, <3>1
  <2>3. CASE g # id[w] /\ h = id[w]
    <3>1. merged'[g] = merged[g] /\ merged[g].place > place[w] /\ merged[g].place \in Int
      BY <1>5, <2>3 DEF Shown, Places
    <3>2. merged'[h].person = current[w][k] /\ merged'[h].place = place[w]
      BY <1>5, <2>3
    <3>. QED
      BY <1>4, <2>0, <2>3, <3>1, <3>2
  <2>4. CASE g = h
    BY <1>5, <2>0, <2>4 DEF Shown, Places
  <2>. QED
    BY <2>1, <2>2, <2>3, <2>4
<1>9. \A g \in GlobalIds : merged'[g] # None =>
          \/ merged'[g].place > place[w]
          \/ merged'[g].place = place[w] /\ g = id[w]
  BY <1>5
<1>10. /\ NobodyTwice' /\ Once(merged)' /\ pc[w] # "idle"
       /\ place'[w] = place[w] /\ id'[w] = id[w] /\ leftward'[w] = leftward[w]
       /\ seen' = seen
  BY <1>4, <1>8 DEF NobodyTwice, Once
<1>. QED
  BY <1>4, <1>6, <1>7, <1>9, <1>10 DEF Disjoint

\* Every step keeps the parts of the merge disjoint.
LEMMA DisjointStep ==
    ASSUME Serial, Serial', Apart, TypeInv, NEW w \in Workers, Disjoint(w), [Next]_vars
    PROVE  Disjoint(w)'
<1>0. TypeOK /\ Along(w)
  BY DEF TypeInv
<1>1. CASE UNCHANGED vars
  BY <1>1 DEF vars, workerVars, Disjoint, NobodyTwice, Once
<1>2. ASSUME NEW i \in Places, NEW k \in Keys, NEW p \in Persons, UpdateLocal(i, k, p)
      PROVE  Disjoint(w)'
  <2>1. since'[w] = IF pc[w] = "idle" THEN since[w]
                    ELSE [by |-> since[w].by \cup Stores(seen'), quiet |-> FALSE]
    BY <1>2 DEF UpdateLocal
  <2>2. UNCHANGED <<merged, workerVars, answer>>
    BY <1>2 DEF UpdateLocal
  <2>3. CASE pc[w] = "idle"
    BY <2>1, <2>2, <2>3 DEF Disjoint, workerVars, Once
  <2>4. CASE pc[w] # "idle"
    <3>1. since'[w].quiet = FALSE
      BY <2>1, <2>4
    <3>. QED
      BY <3>1 DEF Disjoint
  <2>. QED
    BY <2>3, <2>4
<1>3. ASSUME NEW i \in Places, ClearLocal(i) PROVE Disjoint(w)'
  <2>1. Fewer(seen, seen')
    BY <1>0, <1>3, ClearedFewer
  <2>2. UNCHANGED <<merged, workerVars, answer, since>>
    BY <1>3 DEF ClearLocal
  <2>3. UNCHANGED <<merged, pc, place, id, current, leftward, shared, answer, since>>
    BY <2>2 DEF workerVars
  <2>4. \A a \in Places, j \in Keys : \A p :
            p # None /\ seen[a][j] # p => seen'[a][j] # p
    BY <2>1 DEF Fewer
  <2>5. CASE pc[w] = "idle"
    BY <2>3, <2>5 DEF Disjoint, Once
  <2>6. CASE pc[w] # "idle"
    <3> SUFFICES ASSUME since[w].quiet PROVE Disjoint(w)'
      BY <2>3, <2>6 DEF Disjoint
    <3>1. NobodyTwice'
      BY <2>1, <2>6, FewerOnce DEF Disjoint
    <3>2. pc[w] \in {"person", "show"} /\ place[w] # 1 =>
              \A j \in Keys : seen'[place[w] - 1][j] \in {leftward[w][j], None}
      BY <1>0, <2>1, <2>6, PlaceLeft DEF Disjoint, Fewer, Along, InScene
    <3>3. pc[w] = "show" =>
              \A j \in Keys : seen'[place[w] - 1][j] # current[w][shared[w]]
      <4> SUFFICES ASSUME pc[w] = "show", NEW j \in Keys
                   PROVE  seen'[place[w] - 1][j] # current[w][shared[w]]
        OBVIOUS
      <4>1. place[w] - 1 \in Places /\ current[w][shared[w]] # None
        BY <1>0, PlaceLeft DEF Along, InScene
      <4>2. seen[place[w] - 1][j] # current[w][shared[w]]
        BY <2>6 DEF Disjoint
      <4>. QED
        BY <2>4, <4>1, <4>2
    <3>4. ASSUME NEW g \in GlobalIds, merged[g] # None, merged[g].place # 1
          PROVE  \A j \in Keys : seen'[merged[g].place - 1][j] # merged[g].person
      <4>1. merged[g].place \in Places /\ merged[g].person \in Persons
        BY <1>0, <3>4 DEF TypeOK, Shown
      <4>2. merged[g].person # None /\ merged[g].place - 1 \in Places
        BY <3>4, <4>1, PlaceLeft, MergeAssumption
      <4>. QED
        BY <2>4, <2>6, <3>4, <4>2, SMTT(30) DEF Disjoint
    <3>5. Once(merged)' <=> Once(merged)
      BY <2>3 DEF Once
    <3>. QED
      BY <2>3, <2>6, <3>1, <3>2, <3>3, <3>4, <3>5 DEF Disjoint
  <2>. QED
    BY <2>5, <2>6
<1>4. CASE BeginMerge(w)
  <2>1. pc[w] = "idle" /\ pc'[w] \in {"current", "answer"}
    BY <1>0, <1>4 DEF BeginMerge, Goto, TypeOK
  <2>2. leftward'[w] = Local!Empty
    BY <1>0, <1>4, <2>1 DEF BeginMerge, Along
  <2>3. since'[w].quiet = NobodyTwice
    BY <1>0, <1>4 DEF BeginMerge, TypeOK
  <2>4. \A g \in GlobalIds : merged'[g] = None
    BY <1>4, EmptyGlobal DEF BeginMerge
  <2>5. NobodyTwice' = NobodyTwice /\ Once(merged)'
    BY <1>4, <2>4 DEF BeginMerge, NobodyTwice, Once
  <2>. QED
    BY <2>1, <2>2, <2>3, <2>4, <2>5, EmptyLocal DEF Disjoint, InScene
<1>5. CASE CopyCurrent(w)
  <2>1. pc[w] = "current" /\ place[w] \in Places
        /\ pc'[w] = IF place[w] = 1 THEN "person" ELSE "left"
    BY <1>0, <1>5 DEF CopyCurrent, Goto, TypeOK, Along, InScene
  <2>2. current'[w] = seen[place[w]]
    BY <1>0, <1>5 DEF CopyCurrent, TypeOK
  <2>3. UNCHANGED <<seen, merged, place, leftward, answer, since>>
    BY <1>5 DEF CopyCurrent
  <2>4. SUFFICES ASSUME since[w].quiet PROVE Disjoint(w)'
    BY <2>1, <2>3 DEF Disjoint
  <2>5. ASSUME NEW g \in GlobalIds, merged[g] # None, merged[g].place = place[w] + 1
        PROVE  \A k \in Keys : current'[w][k] # merged[g].person
    <3>1. merged[g].place # 1 /\ merged[g].place - 1 = place[w]
      BY <2>1, <2>5 DEF Places
    <3>. QED
      BY <2>1, <2>2, <2>4, <2>5, <3>1 DEF Disjoint
  <2>6. NobodyTwice' = NobodyTwice /\ Once(merged)' = Once(merged)
    BY <2>3 DEF NobodyTwice, Once
  <2>7. Disjoint(w) /\ pc[w] # "idle" /\ pc'[w] # "idle" /\ pc'[w] # "show"
        /\ (pc'[w] \in {"person", "show"} => place[w] = 1)
    BY <2>1
  <2>. QED
    BY <2>1, <2>3, <2>4, <2>5, <2>6, <2>7 DEF Disjoint
<1>6. CASE CopyLeft(w)
  <2>1. pc[w] = "left" /\ pc'[w] = "person" /\ place[w] - 1 \in Places
    BY <1>0, <1>6, PlaceLeft DEF CopyLeft, Goto, TypeOK, Along, InScene
  <2>2. leftward'[w] = seen[place[w] - 1]
    BY <1>0, <1>6 DEF CopyLeft, TypeOK
  <2>3. UNCHANGED <<seen, merged, place, current, answer, since>>
    BY <1>6 DEF CopyLeft
  <2>4. SUFFICES ASSUME since[w].quiet PROVE Disjoint(w)'
    BY <2>1, <2>3 DEF Disjoint
  <2>5. NobodyTwice
    BY <2>1, <2>4 DEF Disjoint
  <2>6. \A j, l \in Keys :
            leftward'[w][j] # None /\ leftward'[w][j] = leftward'[w][l] => j = l
    BY <2>1, <2>2, <2>5 DEF NobodyTwice
  <2>7. NobodyTwice' = NobodyTwice /\ Once(merged)' = Once(merged)
    BY <2>3 DEF NobodyTwice, Once
  <2>. QED
    BY <2>1, <2>2, <2>3, <2>4, <2>6, <2>7 DEF Disjoint, InScene
<1>7. CASE NextPlace(w)
  <2>1. pc[w] = "person" /\ pc'[w] \in {"answer", "current"} /\ place[w] \in Places
        /\ place'[w] = place[w] - 1
    BY <1>0, <1>7 DEF NextPlace, Goto, TypeOK, Along, InScene
  <2>2. leftward'[w] = Local!Empty
    BY <1>0, <1>7 DEF NextPlace, TypeOK
  <2>3. UNCHANGED <<seen, merged, answer, since>>
    BY <1>7 DEF NextPlace
  <2>4. SUFFICES ASSUME since[w].quiet PROVE Disjoint(w)'
    BY <2>1, <2>3 DEF Disjoint
  <2>5. ASSUME NEW g \in GlobalIds, merged[g] # None
        PROVE  merged[g].place > place'[w]
    <3>1. merged[g].place \in Int /\ place[w] \in Int
      BY <1>0, <2>1, <2>5 DEF TypeOK, Shown, Places
    <3>2. merged[g].place >= place[w]
      BY <2>1, <2>4, <2>5, <3>1 DEF Disjoint
    <3>. QED
      BY <2>1, <3>1, <3>2
  <2>6. NobodyTwice' = NobodyTwice /\ Once(merged)' = Once(merged)
    BY <2>3 DEF NobodyTwice, Once
  <2>. QED
    BY <2>1, <2>2, <2>3, <2>4, <2>5, <2>6, EmptyLocal DEF Disjoint, InScene
<1>8. CASE ShowShared(w)
  <2>1. shared[w] \in Keys /\ current[w][shared[w]] # None /\ pc[w] = "show"
        /\ pc'[w] = "person" /\ Show(w, shared[w], TRUE)
        /\ UNCHANGED <<seen, place, leftward, id, since>>
    BY <1>0, <1>8 DEF ShowShared, Goto, Along, TypeOK
  <2>2. since[w].quiet => \A j \in Keys : seen[place[w] - 1][j] # current[w][shared[w]]
    BY <2>1 DEF Disjoint
  <2>. QED
    BY <2>1, <2>2, ShowDisjoint
<1>9. CASE Answer(w)
  <2>1. pc[w] = "answer" /\ pc'[w] = "idle"
    BY <1>0, <1>9 DEF Answer, Goto, TypeOK
  <2>2. answer'[w] = merged /\ since'[w] = since[w]
    BY <1>0, <1>9 DEF Answer, TypeOK
  <2>3. since[w].quiet => Once(merged)
    BY <2>1 DEF Disjoint
  <2>4. Once(merged) => Once(answer'[w])
    BY <2>2
  <2>5. Once(answer[w])' <=> Once(answer'[w])
    BY DEF Once
  <2>. QED
    BY <2>1, <2>2, <2>3, <2>4, <2>5 DEF Disjoint
<1>10. ASSUME NEW k \in Keys, ShowAlone(w, k) PROVE Disjoint(w)'
  <2>1. current[w][k] # None /\ pc[w] = "person" /\ pc'[w] = "person"
        /\ leftward[w] = Local!Empty
        /\ Show(w, k, FALSE) /\ UNCHANGED <<seen, place, leftward, id, since>>
    BY <1>0, <1>10 DEF ShowAlone, Goto, TypeOK
  <2>2. since[w].quiet /\ place[w] # 1 =>
            \A j \in Keys : seen[place[w] - 1][j] # current[w][k]
    BY <2>1, EmptyLocal DEF Disjoint
  <2>. QED
    BY <2>1, <2>2, ShowDisjoint
<1>11. ASSUME NEW k \in Keys, DropUnmatched(w, k) PROVE Disjoint(w)'
  <2>1. pc[w] = "person" /\ pc'[w] = "person"
    BY <1>0, <1>11 DEF DropUnmatched, Goto, TypeOK
  <2>2. \A l \in Keys : current'[w][l] \in {current[w][l], None}
    BY <1>0, <1>11, WithoutLocal DEF DropUnmatched, TypeOK
  <2>3. UNCHANGED <<seen, merged, place, leftward, id, answer, since>>
    BY <1>11 DEF DropUnmatched
  <2>4. SUFFICES ASSUME since[w].quiet PROVE Disjoint(w)'
    BY <2>1, <2>3 DEF Disjoint
  <2>5. ASSUME NEW g \in GlobalIds, merged[g] # None, merged[g].place = place[w] + 1
        PROVE  \A l \in Keys : current'[w][l] # merged[g].person
    <3>1. merged[g].person # None
      BY <1>0, <2>5, MergeAssumption DEF TypeOK, Shown
    <3>. QED
      BY <2>1, <2>2, <2>4, <2>5, <3>1 DEF Disjoint, InScene
  <2>6. NobodyTwice' = NobodyTwice /\ Once(merged)' = Once(merged)
    BY <2>3 DEF NobodyTwice, Once
  <2>. QED
    BY <2>1, <2>3, <2>4, <2>5, <2>6 DEF Disjoint, InScene
<1>12. ASSUME NEW k \in Keys, RemoveLeft(w, k) PROVE Disjoint(w)'
  <2>1. pc[w] = "person" /\ pc'[w] = "show" /\ shared'[w] = k /\ current[w][k] # None
    BY <1>0, <1>12 DEF RemoveLeft, Goto, TypeOK
  <2>2. PICK j \in Keys :
            /\ leftward[w][j] # None
            /\ Near(current[w][k], leftward[w][j])
            /\ place[w] \in Places /\ place[w] - 1 \in Places
            /\ seen'[place[w] - 1][j] = None
            /\ Fewer(seen, seen')
    BY <1>12, RemovedFewer
  <2>3. leftward[w][j] = current[w][k]
    BY <2>2 DEF Near, Apart
  <2>4. UNCHANGED <<merged, place, current, leftward, id, answer, since>>
    BY <1>12 DEF RemoveLeft
  <2>5. SUFFICES ASSUME since[w].quiet PROVE Disjoint(w)'
    BY <2>1, <2>4 DEF Disjoint
  <2>6. place[w] # 1
    BY <2>2, MergeAssumption DEF Places
  <2>7. NobodyTwice' /\ (Once(merged)' = Once(merged))
    BY <2>1, <2>2, <2>4, <2>5, FewerOnce DEF Disjoint, Once
  <2>8. \A l \in Keys : seen'[place[w] - 1][l] \in {leftward[w][l], None}
    BY <2>1, <2>2, <2>5, <2>6 DEF Disjoint, Fewer
  <2>9. \A l \in Keys : seen'[place[w] - 1][l] # current[w][k]
    <3>1. \A l \in Keys : leftward[w][l] = leftward[w][j] => l = j
      BY <2>1, <2>2, <2>5 DEF Disjoint
    <3>2. current[w][k] # None
      BY <2>1
    <3>3. ASSUME NEW l \in Keys, seen'[place[w] - 1][l] = current[w][k] PROVE FALSE
      <4>1. leftward[w][l] = leftward[w][j]
        BY <2>3, <2>8, <3>2, <3>3
      <4>2. l = j
        BY <3>1, <4>1
      <4>. QED
        BY <2>2, <3>2, <3>3, <4>2
    <3>. QED
      BY <3>3
  <2>10. ASSUME NEW g \in GlobalIds, merged[g] # None, merged[g].place # 1
         PROVE  \A l \in Keys : seen'[merged[g].place - 1][l] # merged[g].person
    <3>1. merged[g].place \in Places /\ merged[g].person \in Persons
      BY <1>0, <2>10 DEF TypeOK, Shown
    <3>2. merged[g].person # None /\ merged[g].place - 1 \in Places
      BY <2>10, <3>1, PlaceLeft, MergeAssumption
    <3>3. \A l \in Keys : seen[merged[g].place - 1][l] # merged[g].person
      BY <2>1, <2>5, <2>10 DEF Disjoint
    <3>. QED
      BY <2>2, <3>2, <3>3 DEF Fewer
  <2>11. ASSUME NEW g \in GlobalIds, merged[g] # None
         PROVE  /\ merged[g].place = place[w] + 1 =>
                      \A l \in Keys : current[w][l] # merged[g].person
                /\ \/ merged[g].place > place[w]
                   \/ merged[g].place = place[w] /\ g = id[w]
    BY <2>1, <2>5, <2>11 DEF Disjoint, InScene
  <2>12. \A i, l \in Keys :
            leftward[w][i] # None /\ leftward[w][i] = leftward[w][l] => i = l
    BY <2>1, <2>5 DEF Disjoint
  <2>13. Once(merged)
    BY <2>1, <2>5 DEF Disjoint
  <2>. QED
    BY <2>1, <2>4, <2>5, <2>7, <2>8, <2>9, <2>10, <2>11, <2>12, <2>13 DEF Disjoint
<1>13. ASSUME NEW v \in Workers, v # w, BeginMerge(v) \/ Continues(v) PROVE Disjoint(w)'
  <2>1. /\ pc[w] = "idle" /\ pc'[w] = "idle"
        /\ answer'[w] = answer[w] /\ since'[w] = since[w]
    BY <1>0, <1>13, OthersRest
  <2>. QED
    BY <2>1 DEF Disjoint, Once
<1>14. CASE BeginMerge(w) \/ Continues(w)
  BY <1>4, <1>5, <1>6, <1>7, <1>8, <1>9, <1>10, <1>11, <1>12, <1>14 DEF Continues
<1>. QED
  <2>1. [Next]_vars
    OBVIOUS
  <2>. QED
    BY <2>1, <1>1, <1>2, <1>3, <1>13, <1>14 DEF Next

\* Nobody is shown before the first request.
LEMMA DisjointInit == ASSUME Init, NEW w \in Workers PROVE Disjoint(w)
BY EmptyGlobal DEF Init, Disjoint, Once

\* ShownOnce as far as it goes in an order of any length: of one scene and the
\* scene next to it, an answer does not show the same person twice.
NeighboursShowOnce ==
    \A w \in Workers, g, h \in GlobalIds :
        /\ Answered(w, g) /\ Answered(w, h) /\ since[w].quiet
        /\ answer[w][g].person = answer[w][h].person
        /\ answer[w][g].place - answer[w][h].place \in -1..1
        => g = h

DisjointInv == TypeInv /\ \A w \in Workers : Disjoint(w)

\* What Once says of an answer, both ways round.
LEMMA OnceMeans ==
    ASSUME DisjointInv PROVE NeighboursShowOnce
<1> SUFFICES ASSUME NEW w \in Workers, NEW g \in GlobalIds, NEW h \in GlobalIds,
                    Answered(w, g), Answered(w, h), since[w].quiet,
                    answer[w][g].person = answer[w][h].person,
                    answer[w][g].place - answer[w][h].place \in -1..1
             PROVE  g = h
  BY DEF NeighboursShowOnce
<1>1. answer[w][g] # None /\ answer[w][h] # None /\ pc[w] = "idle"
  BY DEF Answered, Entries
<1>2. answer[w][g].place \in Int /\ answer[w][h].place \in Int
  BY <1>1 DEF DisjointInv, TypeInv, TypeOK, Shown, Places
<1>3. Once(answer[w])
  BY <1>1 DEF DisjointInv, Disjoint
<1>4. \/ answer[w][g].place = answer[w][h].place
      \/ answer[w][g].place = answer[w][h].place + 1
      \/ answer[w][h].place = answer[w][g].place + 1
  BY <1>2
<1>. QED
  BY <1>1, <1>3, <1>4 DEF Once

\* The disjointness of neighbours' parts, in every state.
LEMMA DisjointHolds == ASSUME Apart PROVE Spec /\ []Serial => []DisjointInv
<1>1. Init => DisjointInv
  BY MergeInitTypes, DisjointInit DEF DisjointInv
<1>2. DisjointInv /\ Serial /\ Serial' /\ [Next]_vars => DisjointInv'
  BY MergeStepTypes, DisjointStep DEF DisjointInv
<1>. QED
  BY <1>1, <1>2, PTL DEF Spec

\* While requests do not overlap and no two persons are in line, the parts of an
\* answer that come from neighbouring scenes never show the same person.
THEOREM NeighboursOnce == ASSUME Apart PROVE Spec /\ []Serial => []NeighboursShowOnce
<1>1. DisjointInv => NeighboursShowOnce
  BY OnceMeans
<1>. QED
  BY <1>1, DisjointHolds, PTL

\* In an order of two scenes these are all there are: nobody is shown twice.
THEOREM ShownOnceHolds == ASSUME Apart, N = 2 PROVE Spec /\ []Serial => []ShownOnce
<1>1. ASSUME DisjointInv PROVE ShownOnce
  <2> SUFFICES ASSUME NEW w \in Workers, NEW g \in GlobalIds, NEW h \in GlobalIds,
                      Answered(w, g), Answered(w, h), since[w].quiet,
                      answer[w][g].person = answer[w][h].person
               PROVE  g = h
    BY DEF ShownOnce
  <2>1. answer[w][g] # None /\ answer[w][h] # None
    BY DEF Answered, Entries
  <2>2. answer[w][g].place \in 1..2 /\ answer[w][h].place \in 1..2
    BY <1>1, <2>1 DEF DisjointInv, TypeInv, TypeOK, Shown, Places
  <2>3. answer[w][g].place - answer[w][h].place \in -1..1
    BY <2>2
  <2>4. NeighboursShowOnce
    BY <1>1, OnceMeans
  <2>. QED
    BY <2>3, <2>4 DEF NeighboursShowOnce
<1>. QED
  BY <1>1, DisjointHolds, PTL

-------------------------------------------------------------------------------
(***************************************************************************)
(* Which transformation the shown skeletons went through, for every number *)
(* of scenes.  The loop's fold over none, one and two scenes is what leads *)
(* there, or not, from the first three places.                             *)
(***************************************************************************)

\* The folds begin with the greatest index.
LEMMA MaxOne == Max({1}) = 1 /\ Max({1, 2}) = 2 /\ Max({2}) = 2
BY DEF Max

\* The fold over no scene is the identity: the first scene is not moved.
LEMMA FoldNone ==
  ASSUME NEW s, DOMAIN s = {}
  PROVE  FoldLeft(Times, Identity, s) = Identity /\ FoldLeft(Onward, Identity, s) = Identity
<1> DEFINE F(t, g) == IF t = {} THEN Identity ELSE Times(g[t \ {Max(t)}], s[Max(t)])
           E(t, g) == IF t = {} THEN Identity ELSE Onward(g[t \ {Max(t)}], s[Max(t)])
           G == [t \in SUBSET {} |-> Identity]
           H == CHOOSE g : g = [t \in SUBSET {} |-> F(t, g)]
           K == CHOOSE g : g = [t \in SUBSET {} |-> E(t, g)]
<1>1. G = [t \in SUBSET {} |-> F(t, G)] /\ G = [t \in SUBSET {} |-> E(t, G)]
  <2>1. \A t \in SUBSET {} : t = {}
    OBVIOUS
  <2>. QED
    BY <2>1
<1>2. H = [t \in SUBSET {} |-> F(t, H)] /\ K = [t \in SUBSET {} |-> E(t, K)]
  BY <1>1
<1>3. FoldLeft(Times, Identity, s) = H[{}]
  BY DEF FoldLeft, MapThenFoldSet
<1>4. FoldLeft(Onward, Identity, s) = K[{}]
  BY DEF FoldLeft, MapThenFoldSet
<1>. QED
  <2> HIDE DEF H, K
  <2>. QED
  BY <1>2, <1>3, <1>4

\* The fold over one scene is that scene's matrix alone.
LEMMA FoldOne ==
  ASSUME NEW s, DOMAIN s = {1}
  PROVE  /\ FoldLeft(Times, Identity, s) = Times(Identity, s[1])
         /\ FoldLeft(Onward, Identity, s) = Onward(Identity, s[1])
<1> DEFINE F(t, g) == IF t = {} THEN Identity ELSE Times(g[t \ {Max(t)}], s[Max(t)])
           E(t, g) == IF t = {} THEN Identity ELSE Onward(g[t \ {Max(t)}], s[Max(t)])
           G == [t \in SUBSET {1} |-> IF t = {} THEN Identity ELSE Times(Identity, s[1])]
           J == [t \in SUBSET {1} |-> IF t = {} THEN Identity ELSE Onward(Identity, s[1])]
           H == CHOOSE g : g = [t \in SUBSET {1} |-> F(t, g)]
           K == CHOOSE g : g = [t \in SUBSET {1} |-> E(t, g)]
<1>0. /\ \A t \in SUBSET {1} : t = {} \/ t = {1}
      /\ {1} \ {1} = {} /\ {1} # {}
  OBVIOUS
<1>1. G = [t \in SUBSET {1} |-> F(t, G)] /\ J = [t \in SUBSET {1} |-> E(t, J)]
  <2>1. G[{}] = Identity /\ J[{}] = Identity
    OBVIOUS
  <2>2. ASSUME NEW t \in SUBSET {1} PROVE G[t] = F(t, G) /\ J[t] = E(t, J)
    <3>1. CASE t = {}
      BY <2>1, <3>1
    <3>2. CASE t = {1}
      <4>1. Max(t) = 1 /\ t \ {Max(t)} = {} /\ t # {}
        BY <1>0, <3>2, MaxOne
      <4>2. F(t, G) = Times(Identity, s[1]) /\ E(t, J) = Onward(Identity, s[1])
        <5> HIDE DEF G, J
        <5>. QED
          BY <2>1, <4>1
      <4>3. G[t] = Times(Identity, s[1]) /\ J[t] = Onward(Identity, s[1])
        BY <4>1
      <4>. QED
        BY <4>2, <4>3
    <3>. QED
      BY <1>0, <3>1, <3>2
  <2>. QED
    BY <2>2
<1>2. H = [t \in SUBSET {1} |-> F(t, H)] /\ K = [t \in SUBSET {1} |-> E(t, K)]
  BY <1>1
<1>3. FoldLeft(Times, Identity, s) = H[{1}]
  BY DEF FoldLeft, MapThenFoldSet
<1>4. FoldLeft(Onward, Identity, s) = K[{1}]
  BY DEF FoldLeft, MapThenFoldSet
<1>5. H[{}] = Identity /\ K[{}] = Identity
  <2> HIDE DEF H, K
  <2>. QED
  BY <1>2
<1>6. H[{1}] = Times(Identity, s[1]) /\ K[{1}] = Onward(Identity, s[1])
  <2> HIDE DEF H, K
  <2>1. H[{1}] = F({1}, H) /\ K[{1}] = E({1}, K)
    BY <1>2
  <2>. QED
    BY <1>0, <1>5, <2>1, MaxOne
<1>. QED
  BY <1>3, <1>4, <1>6

\* The fold over two scenes puts the second one's matrices behind the first's.
LEMMA FoldTwo ==
  ASSUME NEW s, DOMAIN s = {1, 2}
  PROVE  /\ FoldLeft(Times, Identity, s) = Times(Times(Identity, s[1]), s[2])
         /\ FoldLeft(Onward, Identity, s) = Onward(Onward(Identity, s[1]), s[2])
<1> DEFINE F(t, g) == IF t = {} THEN Identity ELSE Times(g[t \ {Max(t)}], s[Max(t)])
           E(t, g) == IF t = {} THEN Identity ELSE Onward(g[t \ {Max(t)}], s[Max(t)])
           G == [t \in SUBSET {1, 2} |->
                    IF t = {} THEN Identity
                    ELSE IF t = {1} THEN Times(Identity, s[1])
                    ELSE IF t = {2} THEN Times(Identity, s[2])
                    ELSE Times(Times(Identity, s[1]), s[2])]
           J == [t \in SUBSET {1, 2} |->
                    IF t = {} THEN Identity
                    ELSE IF t = {1} THEN Onward(Identity, s[1])
                    ELSE IF t = {2} THEN Onward(Identity, s[2])
                    ELSE Onward(Onward(Identity, s[1]), s[2])]
           H == CHOOSE g : g = [t \in SUBSET {1, 2} |-> F(t, g)]
           K == CHOOSE g : g = [t \in SUBSET {1, 2} |-> E(t, g)]
<1>0. /\ \A t \in SUBSET {1, 2} : t = {} \/ t = {1} \/ t = {2} \/ t = {1, 2}
      /\ {1} \ {1} = {} /\ {2} \ {2} = {} /\ {1, 2} \ {2} = {1}
      /\ {1} # {} /\ {2} # {} /\ {1, 2} # {}
      /\ {1} # {2} /\ {1, 2} # {1} /\ {1, 2} # {2}
      /\ {{}, {1}, {2}, {1, 2}} \subseteq SUBSET {1, 2}
  <2>1. \A t \in SUBSET {1, 2} : t = {} \/ t = {1} \/ t = {2} \/ t = {1, 2}
    OBVIOUS
  <2>2. {1} \ {1} = {} /\ {2} \ {2} = {} /\ {1, 2} \ {2} = {1}
    OBVIOUS
  <2>3. /\ {1} # {} /\ {2} # {} /\ {1, 2} # {}
        /\ {1} # {2} /\ {1, 2} # {1} /\ {1, 2} # {2}
    OBVIOUS
  <2>4. {{}, {1}, {2}, {1, 2}} \subseteq SUBSET {1, 2}
    OBVIOUS
  <2>. QED
    BY <2>1, <2>2, <2>3, <2>4
<1>1. G = [t \in SUBSET {1, 2} |-> F(t, G)] /\ J = [t \in SUBSET {1, 2} |-> E(t, J)]
  <2>1. /\ G[{}] = Identity /\ J[{}] = Identity
        /\ G[{1}] = Times(Identity, s[1]) /\ J[{1}] = Onward(Identity, s[1])
        /\ G[{2}] = Times(Identity, s[2]) /\ J[{2}] = Onward(Identity, s[2])
        /\ G[{1, 2}] = Times(Times(Identity, s[1]), s[2])
        /\ J[{1, 2}] = Onward(Onward(Identity, s[1]), s[2])
    <3>1. G[{}] = Identity /\ J[{}] = Identity
      BY <1>0
    <3>2. G[{1}] = Times(Identity, s[1]) /\ J[{1}] = Onward(Identity, s[1])
      BY <1>0
    <3>3. G[{2}] = Times(Identity, s[2]) /\ J[{2}] = Onward(Identity, s[2])
      BY <1>0
    <3>4. /\ G[{1, 2}] = Times(Times(Identity, s[1]), s[2])
          /\ J[{1, 2}] = Onward(Onward(Identity, s[1]), s[2])
      BY <1>0
    <3>. QED
      BY <3>1, <3>2, <3>3, <3>4
  <2>2. ASSUME NEW t \in SUBSET {1, 2} PROVE G[t] = F(t, G) /\ J[t] = E(t, J)
    <3> HIDE DEF G, J
    <3>1. CASE t = {}
      BY <2>1, <3>1
    <3>2. CASE t = {1}
      BY <1>0, <2>1, <3>2, MaxOne
    <3>3. CASE t = {2}
      BY <1>0, <2>1, <3>3, MaxOne
    <3>4. CASE t = {1, 2}
      BY <1>0, <2>1, <3>4, MaxOne
    <3>. QED
      BY <1>0, <3>1, <3>2, <3>3, <3>4
  <2>. QED
    BY <2>2
<1>2. H = [t \in SUBSET {1, 2} |-> F(t, H)] /\ K = [t \in SUBSET {1, 2} |-> E(t, K)]
  BY <1>1
<1>3. FoldLeft(Times, Identity, s) = H[{1, 2}]
  BY DEF FoldLeft, MapThenFoldSet
<1>4. FoldLeft(Onward, Identity, s) = K[{1, 2}]
  BY DEF FoldLeft, MapThenFoldSet
<1> HIDE DEF H, K
<1>5. H[{}] = Identity /\ K[{}] = Identity
  BY <1>0, <1>2
<1>6. H[{1}] = Times(Identity, s[1]) /\ K[{1}] = Onward(Identity, s[1])
  <2>1. H[{1}] = F({1}, H) /\ K[{1}] = E({1}, K)
    BY <1>0, <1>2
  <2>. QED
    BY <1>0, <1>5, <2>1, MaxOne
<1>7. /\ H[{1, 2}] = Times(Times(Identity, s[1]), s[2])
      /\ K[{1, 2}] = Onward(Onward(Identity, s[1]), s[2])
  <2>1. H[{1, 2}] = F({1, 2}, H) /\ K[{1, 2}] = E({1, 2}, K)
    BY <1>2
  <2>. QED
    BY <1>0, <1>6, <2>1, MaxOne
<1>. QED
  BY <1>3, <1>4, <1>7

\* What the loop multiplies leads to the first scene from itself and from its
\* neighbour.
LEMMA NeighbourLed == \A i \in 1..2 : Combined(i) = ToFirst(i)
<1>1. Combined(1) = ToFirst(1)
  <2>1. DOMAIN [k \in 1..1-1 |-> 1 + 1 - k] = {} /\ DOMAIN [k \in 1..1-1 |-> k + 1] = {}
    OBVIOUS
  <2>. QED
    BY <2>1, FoldNone DEF Combined, ToFirst
<1>2. Combined(2) = ToFirst(2)
  <2> DEFINE s == [k \in 1..2-1 |-> 2 + 1 - k]
             t == [k \in 1..2-1 |-> k + 1]
  <2>1. DOMAIN s = {1} /\ DOMAIN t = {1} /\ s[1] = 2 /\ t[1] = 2
    OBVIOUS
  <2>2. Times(Identity, 2) = Onward(Identity, 2)
    BY DEF Times, Onward, Identity
  <2>3. Combined(2) = FoldLeft(Times, Identity, s) /\ ToFirst(2) = FoldLeft(Onward, Identity, t)
    BY DEF Combined, ToFirst
  <2> HIDE DEF s, t
  <2>. QED
    BY <2>1, <2>2, <2>3, FoldOne
<1>. QED
  BY <1>1, <1>2

\* From the third scene the loop's product begins with the third's rotation,
\* while what leads to the first scene begins with the second's.
LEMMA ThirdAstray ==
    Combined(3).rotation[1] = 3 /\ ToFirst(3).rotation[1] = 2
<1> DEFINE s == [k \in 1..3-1 |-> 3 + 1 - k]
           t == [k \in 1..3-1 |-> k + 1]
<1>1. /\ DOMAIN s = {1, 2} /\ s[1] = 3 /\ s[2] = 2
      /\ DOMAIN t = {1, 2} /\ t[1] = 2 /\ t[2] = 3
  OBVIOUS
<1>2. Combined(3) = FoldLeft(Times, Identity, s) /\ ToFirst(3) = FoldLeft(Onward, Identity, t)
  BY DEF Combined, ToFirst
<1> HIDE DEF s, t
<1>3. Combined(3) = Times(Times(Identity, 3), 2) /\ ToFirst(3) = Onward(Onward(Identity, 2), 3)
  BY <1>1, <1>2, FoldTwo
<1>4. ASSUME NEW j \in Nat, NEW k \in Nat PROVE Append(Append(<<>>, j), k)[1] = j
  <2>1. /\ Append(<<>>, j) \in Seq(Nat)
        /\ Len(Append(<<>>, j)) = 1 /\ Append(<<>>, j)[1] = j
    OBVIOUS
  <2>. QED
    BY <2>1
<1>5. /\ Times(Times(Identity, 3), 2).rotation = Append(Append(<<>>, 3), 2)
      /\ Onward(Onward(Identity, 2), 3).rotation = Append(Append(<<>>, 2), 3)
  BY DEF Times, Onward, Identity
<1>. QED
  BY <1>3, <1>4, <1>5

\* Whatever is shown went through what the loop multiplied for its scene.
MovedByPlace ==
    /\ \A g \in GlobalIds : merged[g] # None => merged[g].moved = Combined(merged[g].place)
    /\ \A w \in Workers, g \in GlobalIds :
          answer[w][g] # None => answer[w][g].moved = Combined(answer[w][g].place)

\* Showing one skeleton keeps what is shown moved by its place.
LEMMA MovedShow ==
    ASSUME TypeOK, MovedByPlace, NEW w \in Workers, NEW k \in Keys, NEW mark \in BOOLEAN,
           current[w][k] # None, place[w] \in Places, id[w] \in GlobalIds,
           Show(w, k, mark), answer' = answer
    PROVE  MovedByPlace'
<1>1. /\ \A g \in GlobalIds \ {id[w]} : merged'[g] = merged[g]
      /\ merged'[id[w]] # None =>
            /\ merged'[id[w]].place = place[w]
            /\ merged'[id[w]].moved = Combined(place[w])
  BY ShowTypes
<1>2. ASSUME NEW g \in GlobalIds, merged'[g] # None
      PROVE  merged'[g].moved = Combined(merged'[g].place)
  <2>1. CASE g = id[w]
    BY <1>1, <1>2, <2>1
  <2>2. CASE g # id[w]
    <3>1. merged'[g] = merged[g]
      BY <1>1, <2>2
    <3>. QED
      BY <1>2, <3>1 DEF MovedByPlace
  <2>. QED
    BY <2>1, <2>2
<1>. QED
  BY <1>2 DEF MovedByPlace

\* Every step keeps what is shown moved by its place.
LEMMA MovedStep ==
    ASSUME TypeInv, MovedByPlace, [Next]_vars
    PROVE  MovedByPlace'
<1>0. TypeOK /\ \A w \in Workers : Along(w)
  BY DEF TypeInv
<1>1. CASE UNCHANGED <<merged, answer>>
  BY <1>1 DEF MovedByPlace
<1>2. ASSUME NEW w \in Workers, BeginMerge(w) PROVE MovedByPlace'
  <2>1. /\ \A g \in GlobalIds : merged'[g] = None
        /\ \A v \in Workers, g \in GlobalIds : answer'[v][g] \in {answer[v][g], None}
    BY <1>0, <1>2, EmptyGlobal DEF BeginMerge, TypeOK
  <2>. QED
    BY <2>1 DEF MovedByPlace
<1>3. ASSUME NEW w \in Workers, ShowShared(w) PROVE MovedByPlace'
  <2>1. /\ place[w] \in Places /\ id[w] \in GlobalIds
        /\ shared[w] \in Keys /\ current[w][shared[w]] # None
    BY <1>0, <1>3 DEF ShowShared, Goto, Along, InScene
  <2>. QED
    BY <1>0, <1>3, <2>1, MovedShow DEF ShowShared
<1>4. ASSUME NEW w \in Workers, NEW k \in Keys, ShowAlone(w, k) PROVE MovedByPlace'
  <2>1. place[w] \in Places /\ id[w] \in GlobalIds /\ current[w][k] # None
    BY <1>0, <1>4 DEF ShowAlone, Goto, Along, InScene
  <2>. QED
    BY <1>0, <1>4, <2>1, MovedShow DEF ShowAlone
<1>5. ASSUME NEW w \in Workers, Answer(w) PROVE MovedByPlace'
  <2>1. /\ merged' = merged
        /\ \A v \in Workers : answer'[v] \in {answer[v], merged}
    BY <1>0, <1>5 DEF Answer, TypeOK
  <2>. QED
    BY <2>1 DEF MovedByPlace
<1>6. ASSUME NEW w \in Workers, NEW k \in Keys,
             CopyCurrent(w) \/ CopyLeft(w) \/ NextPlace(w) \/ DropUnmatched(w, k)
             \/ RemoveLeft(w, k)
      PROVE  UNCHANGED <<merged, answer>>
  BY <1>6 DEF CopyCurrent, CopyLeft, NextPlace, DropUnmatched, RemoveLeft
<1>7. ASSUME NEW w \in Workers, CopyCurrent(w) \/ CopyLeft(w) \/ NextPlace(w)
      PROVE  UNCHANGED <<merged, answer>>
  BY <1>7 DEF CopyCurrent, CopyLeft, NextPlace
<1>8. (\E i \in Places, k \in Keys, p \in Persons : UpdateLocal(i, k, p))
      \/ (\E i \in Places : ClearLocal(i)) \/ UNCHANGED vars => UNCHANGED <<merged, answer>>
  BY DEF UpdateLocal, ClearLocal, vars
<1>. QED
  BY <1>1, <1>2, <1>3, <1>4, <1>5, <1>6, <1>7, <1>8 DEF Next, Continues

\* What answers show went through the matrices the loop multiplied for its
\* place; they lead to the first scene from the first two places, and from the
\* third they do not.
MovedAlongLinks ==
    \A w \in Workers, g \in GlobalIds :
        Answered(w, g) =>
            LET shown == answer[w][g]
            IN  /\ shown.moved = Combined(shown.place)
                /\ shown.place \in 1..2 => shown.moved = ToFirst(shown.place)
                /\ shown.place = 3 => shown.moved # ToFirst(shown.place)

\* So it is for any number of scenes, persons, ids and overlapping requests,
\* whatever datagrams and refreshes do meanwhile: whoever a client is shown from
\* the first two scenes is where the first sensor would see him, and whoever is
\* shown from the third was turned by its rotations in the wrong order.
THEOREM MovedAlongLinksHolds == Spec => []MovedAlongLinks
<1> DEFINE Inv == TypeInv /\ MovedByPlace
<1>1. Init => Inv
  BY MergeInitTypes, EmptyGlobal DEF Init, MovedByPlace
<1>2. Inv /\ [Next]_vars => Inv'
  BY MergeStepTypes, MovedStep
<1>3. Inv => MovedAlongLinks
  <2> SUFFICES ASSUME Inv, NEW w \in Workers, NEW g \in GlobalIds, Answered(w, g)
               PROVE  LET shown == answer[w][g]
                      IN  /\ shown.moved = Combined(shown.place)
                          /\ shown.place \in 1..2 => shown.moved = ToFirst(shown.place)
                          /\ shown.place = 3 => shown.moved # ToFirst(shown.place)
    BY DEF MovedAlongLinks
  <2>1. answer[w][g] # None
    BY DEF Answered, Entries
  <2>2. answer[w][g].moved = Combined(answer[w][g].place)
    BY <2>1 DEF MovedByPlace
  <2>. QED
    BY <2>2, NeighbourLed, ThirdAstray
<1>. QED
  BY <1>1, <1>2, <1>3, PTL DEF Spec
===============================================================================
