------------------------------ MODULE SceneProofs ------------------------------
(***************************************************************************)
(* Theorems about one scene, for every set of threads, ids and skeletons   *)
(* and every capacity.  The inductive invariant IInv adds to the checked   *)
(* invariants what they depend on: the arguments of a call in progress,    *)
(* the stamp every Update has seen or made before it waits for the lock,   *)
(* and that a local scene has one updater.                                 *)
(***************************************************************************)
EXTENDS Scene, FiniteSetTheorems, TLAPS

UpdatePCs == {"size", "stamp", "lockUpdate", "erase", "insert"}

\* A call in progress holds the arguments its remaining steps use.
ArgumentsHeld ==
    \A t \in Callers :
        /\ pc[t] \in UpdatePCs \cup {"lockRemove", "remove"} => key[t] \in Keys
        /\ pc[t] \in UpdatePCs => person[t] \in Skeletons

\* Whoever waits for the lock in Update, or holds it, does so after a stamp.
StampedFirst ==
    \A t \in Callers : pc[t] \in {"lockUpdate", "erase", "insert"} => first # 0

\* In a local scene only the UDP thread updates, and it stamps only once.
OneUpdater ==
    kind = "local" =>
        \A t \in Callers :
            /\ pc[t] \in UpdatePCs => t = Udp
            /\ pc[t] \in {"size", "stamp"} => first = 0

IInv ==
    /\ TypeOK
    /\ Exclusion
    /\ ArgumentsHeld
    /\ StampedFirst
    /\ ObservedBeforeStored
    /\ OneUpdater

\* Erasing keeps a content a content and stores nothing new.
LEMMA WithoutContents ==
    ASSUME NEW m \in Contents, NEW k \in Keys
    PROVE  /\ Without(m, k) \in Contents
           /\ Stored(Without(m, k)) \subseteq Stored(m)
BY DEF Contents, Without, Stored

\* Storing keeps a content a content and adds at most the id.
LEMMA WithContents ==
    ASSUME NEW m \in Contents, NEW k \in Keys, NEW s \in Skeletons
    PROVE  /\ With(m, k, s) \in Contents
           /\ Stored(With(m, k, s)) \subseteq Stored(m) \cup {k}
BY DEF Contents, With, Stored

\* The empty map is a content with nothing stored.
LEMMA EmptyContents == Empty \in Contents /\ Stored(Empty) = {}
BY DEF Contents, Empty, Stored

\* A map within the capacity stays within it when an id is erased ...
LEMMA WithoutWithinCapacity ==
    ASSUME NEW m \in Contents, NEW k \in Keys,
           Cardinality(Stored(m)) <= Capacity
    PROVE  Cardinality(Stored(Without(m, k))) <= Capacity
<1>1. IsFiniteSet(Stored(m))
  BY MapAssumption, FS_Subset DEF Stored
<1>2. /\ IsFiniteSet(Stored(Without(m, k)))
      /\ Cardinality(Stored(Without(m, k))) <= Cardinality(Stored(m))
  BY <1>1, WithoutContents, FS_Subset
<1>3. Cardinality(Stored(m)) \in Nat /\ Cardinality(Stored(Without(m, k))) \in Nat
  BY <1>1, <1>2, FS_CardinalityType
<1>. QED
  BY <1>2, <1>3, MapAssumption

\* ... and when one is inserted under the guard of Update.
LEMMA WithWithinCapacity ==
    ASSUME NEW m \in Contents, NEW k \in Keys, NEW s \in Skeletons,
           Cardinality(Stored(m)) <= Capacity
    PROVE  Cardinality(Stored(With(m, k, s))) <= Capacity
<1>1. IsFiniteSet(Stored(m))
  BY MapAssumption, FS_Subset DEF Stored
<1>2. CASE Cardinality(Stored(m)) < Capacity
  <2> DEFINE n == Cardinality(Stored(m))
             T == Stored(m) \cup {k}
  <2>1. IsFiniteSet(T) /\ (Cardinality(T) = n \/ Cardinality(T) = n + 1)
    BY <1>1, FS_AddElement
  <2>2. /\ IsFiniteSet(Stored(With(m, k, s)))
        /\ Cardinality(Stored(With(m, k, s))) <= Cardinality(T)
    BY <2>1, WithContents, FS_Subset
  <2>3. n \in Nat /\ Cardinality(Stored(With(m, k, s))) \in Nat
    BY <1>1, <2>2, FS_CardinalityType
  <2>. QED
    BY <1>2, <2>1, <2>2, <2>3, MapAssumption
<1>3. CASE ~(Cardinality(Stored(m)) < Capacity)
  BY <1>3 DEF With
<1>. QED
  BY <1>2, <1>3

\* The constructors establish the inductive invariant.
THEOREM InitIInv == Init => IInv
<1> SUFFICES ASSUME Init PROVE IInv
  OBVIOUS
<1>1. TypeOK
  BY EmptyContents DEF Init, TypeOK, CallerPCs, RefreshPCs
<1>2. Exclusion
  BY SceneAssumption DEF Init, Exclusion, LockedPCs, Threads, Callers
<1>3. ObservedBeforeStored
  BY EmptyContents DEF Init, ObservedBeforeStored
<1>4. ArgumentsHeld /\ StampedFirst /\ OneUpdater
  BY DEF Init, ArgumentsHeld, StampedFirst, OneUpdater, UpdatePCs
<1>. QED
  BY <1>1, <1>2, <1>3, <1>4 DEF IInv

\* Every access any thread makes to the scene preserves the inductive invariant.
THEOREM StepIInv == IInv /\ [Next]_vars => IInv'
<1> SUFFICES ASSUME IInv, [Next]_vars PROVE IInv'
  OBVIOUS
<1> USE SceneAssumption, MapAssumption
    DEF IInv, TypeOK, Exclusion, ArgumentsHeld, StampedFirst, OneUpdater,
        ObservedBeforeStored, UpdatePCs, LockedPCs, CallerPCs, RefreshPCs,
        Callers, Threads, Goto, Return, Acquire, Enter, RGoto,
        vars, sharedVars, callVars, refreshVars
<1>1. CASE UNCHANGED vars
  BY <1>1
<1>2. CASE FinishConstruction
  BY <1>2 DEF FinishConstruction
<1>3. ASSUME NEW t \in Callers, NEW k \in Keys, NEW s \in Skeletons, BeginUpdate(t, k, s)
      PROVE IInv'
  BY <1>3 DEF BeginUpdate, Updates
<1>4. ASSUME NEW t \in Callers, NEW k \in Keys, BeginRemove(t, k)
      PROVE IInv'
  BY <1>4 DEF BeginRemove
<1>5. ASSUME NEW t \in Callers, BeginManualClear(t) PROVE IInv'
  BY <1>5 DEF BeginManualClear
<1>6. ASSUME NEW t \in Callers, BeginGetSkeletons(t) PROVE IInv'
  BY <1>6 DEF BeginGetSkeletons
<1>7. ASSUME NEW t \in Callers, LockUpdate(t) PROVE IInv'
  BY <1>7 DEF LockUpdate
<1>8. ASSUME NEW t \in Callers, LockRemove(t) PROVE IInv'
  BY <1>8 DEF LockRemove
<1>9. ASSUME NEW t \in Callers, LockManualClear(t) PROVE IInv'
  BY <1>9 DEF LockManualClear
<1>10. ASSUME NEW t \in Callers, LockGetSkeletons(t) PROVE IInv'
  BY <1>10 DEF LockGetSkeletons
<1>11. ASSUME NEW t \in Callers, CheckSize(t) PROVE IInv'
  BY <1>11 DEF CheckSize
<1>12. ASSUME NEW t \in Callers, Stamp(t) PROVE IInv'
  BY <1>12 DEF Stamp
<1>13. ASSUME NEW t \in Callers, Erase(t) PROVE IInv'
  BY <1>13, WithoutContents DEF Erase
<1>14. ASSUME NEW t \in Callers, Insert(t) PROVE IInv'
  BY <1>14, WithContents DEF Insert
<1>15. ASSUME NEW t \in Callers, Remove(t) PROVE IInv'
  BY <1>15, WithoutContents DEF Remove
<1>16. ASSUME NEW t \in Callers, ManualClear(t) PROVE IInv'
  BY <1>16, EmptyContents DEF ManualClear
<1>17. ASSUME NEW t \in Callers, GetSkeletons(t) PROVE IInv'
  BY <1>17 DEF GetSkeletons
<1>18. CASE Poll
  BY <1>18 DEF Poll
<1>19. CASE Compare
  BY <1>19 DEF Compare
<1>20. CASE LockClear
  BY <1>20 DEF LockClear
<1>21. CASE Schedule
  BY <1>21 DEF Schedule
<1>22. CASE ClearAll
  BY <1>22, EmptyContents DEF ClearAll
<1>23. CASE Elapse
  BY <1>23 DEF Elapse
<1>24. CASE BeginDestruction
  BY <1>24 DEF BeginDestruction
<1>25. CASE Join
  BY <1>25 DEF Join
<1>. QED
  BY <1>1, <1>2, <1>3, <1>4, <1>5, <1>6, <1>7, <1>8, <1>9, <1>10, <1>11,
     <1>12, <1>13, <1>14, <1>15, <1>16, <1>17, <1>18, <1>19, <1>20, <1>21,
     <1>22, <1>23, <1>24, <1>25
  DEF Next, CallerBegins, CallerLocks, CallerSteps, RefreshSteps, Freed

\* So the inductive invariant holds in every reachable state.
THEOREM InvariantHolds == Spec => []IInv
BY InitIInv, StepIInv, PTL DEF Spec

-------------------------------------------------------------------------------
\* Every variable keeps its type.
THEOREM TypeCorrect == Spec => []TypeOK
<1>1. IInv => TypeOK
  BY DEF IInv
<1>. QED
  BY <1>1, InvariantHolds, PTL

\* The locked regions of Update, Remove, ManualClear, GetSkeletons and Clear
\* exclude each other, for any number of worker threads.
THEOREM MutualExclusion == Spec => []Exclusion
<1>1. IInv => Exclusion
  BY DEF IInv
<1>. QED
  BY <1>1, InvariantHolds, PTL

\* The unlocked test and stamp at the head of Update are harmless: no thread
\* finds a skeleton in a scene whose first observation is not recorded.
THEOREM NothingStoredUnobserved == Spec => []ObservedBeforeStored
<1>1. IInv => ObservedBeforeStored
  BY DEF IInv
<1>. QED
  BY <1>1, InvariantHolds, PTL

\* The size test of Update bounds the scene, whatever the interleaving.
THEOREM NeverOverCapacity == Spec => []Bounded
<1>1. Init => Bounded
  BY EmptyContents, FS_EmptySet, MapAssumption DEF Init, Bounded
<1>2. IInv /\ Bounded /\ [Next]_vars => Bounded'
  <2> SUFFICES ASSUME IInv, Bounded, [Next]_vars PROVE Bounded'
    OBVIOUS
  <2>1. skeletons \in Contents
    BY DEF IInv, TypeOK
  <2>2. CASE UNCHANGED skeletons
    BY <2>2 DEF Bounded
  <2>3. CASE skeletons' = Empty
    BY <2>3, EmptyContents, FS_EmptySet, MapAssumption DEF Bounded
  <2>4. ASSUME NEW t \in Callers, Erase(t) \/ Remove(t) PROVE Bounded'
    <3>1. key[t] \in Keys /\ skeletons' = Without(skeletons, key[t])
      BY <2>4 DEF IInv, ArgumentsHeld, UpdatePCs, Erase, Remove, Goto, Return
    <3>. QED
      BY <2>1, <3>1, WithoutWithinCapacity DEF Bounded
  <2>5. ASSUME NEW t \in Callers, Insert(t) PROVE Bounded'
    <3>1. /\ key[t] \in Keys
          /\ person[t] \in Skeletons
          /\ skeletons' = With(skeletons, key[t], person[t])
      BY <2>5 DEF IInv, ArgumentsHeld, UpdatePCs, Insert, Return
    <3>. QED
      BY <2>1, <3>1, WithWithinCapacity DEF Bounded
  <2>. QED
    BY <2>2, <2>3, <2>4, <2>5
    DEF Next, CallerBegins, CallerLocks, CallerSteps, RefreshSteps, vars,
        sharedVars, callVars, refreshVars, FinishConstruction, BeginUpdate,
        BeginRemove, BeginManualClear, BeginGetSkeletons, Enter, LockUpdate,
        LockRemove, LockManualClear, LockGetSkeletons, Acquire, CheckSize,
        Stamp, ManualClear, GetSkeletons, Poll, Compare, LockClear, Schedule,
        ClearAll, Elapse, BeginDestruction, Join, Freed
<1>. QED
  BY <1>1, <1>2, InvariantHolds, PTL DEF Spec

\* The recorded time of a sensor's first observation never moves.
THEOREM FirstObservationFixed == Spec => FirstObservationKept
<1>1. IInv /\ [Next]_vars => [kind = "local" /\ first # 0 => first' = first]_vars
  <2> SUFFICES ASSUME IInv, [Next]_vars, kind = "local", first # 0
               PROVE  first' = first
    OBVIOUS
  <2>1. ASSUME NEW t \in Callers, Stamp(t) PROVE FALSE
    BY <2>1 DEF IInv, OneUpdater, Stamp, Goto
  <2>. QED
    BY <2>1
    DEF Next, CallerBegins, CallerLocks, CallerSteps, RefreshSteps, vars,
        sharedVars, callVars, refreshVars, FinishConstruction, BeginUpdate,
        BeginRemove, BeginManualClear, BeginGetSkeletons, Enter, LockUpdate,
        LockRemove, LockManualClear, LockGetSkeletons, Acquire, CheckSize,
        Erase, Insert, Remove, ManualClear, GetSkeletons, RGoto, Poll, Compare,
        LockClear, Schedule, ClearAll, Elapse, BeginDestruction, Join, Freed
<1>. QED
  BY <1>1, InvariantHolds, PTL DEF Spec, FirstObservationKept

-------------------------------------------------------------------------------
\* The instance of SceneMap carries its own copies of the map operators.
LEMMA SameWithout == \A m, k : Map!Without(m, k) = Without(m, k)
BY DEF Map!Without, Without

\* The same for the guarded insertion.
LEMMA SameWith == \A m, k, s : Map!With(m, k, s) = With(m, k, s)
BY Zenon DEF Map!With, With, Map!Stored, Stored, Map!Cardinality, Cardinality

\* A step of the scene is a step of the atomic map, or no step of it: an Update
\* takes effect at its erase, every other call at its one locked access.
LEMMA StepMaps == IInv /\ [Next]_vars => [Map!MapNext]_(Map!mapVars)
<1> SUFFICES ASSUME IInv, [Next]_vars
             PROVE  Map!MapNext \/ UNCHANGED <<content, first # 0, copied>>
  BY DEF Map!mapVars
<1> USE SceneAssumption
    DEF IInv, TypeOK, Exclusion, LockedPCs, Callers, Threads, content, Goto,
        Return, Acquire, Enter, RGoto, vars, sharedVars, callVars, refreshVars
<1>1. CASE UNCHANGED vars
  BY <1>1
<1>2. ASSUME NEW t \in Callers, Erase(t) PROVE Map!MapNext
  <2>1. key[t] \in Keys /\ person[t] \in Skeletons /\ first # 0
    BY <1>2 DEF Erase, ArgumentsHeld, UpdatePCs, StampedFirst
  <2>2. content = skeletons /\ mutex' = t /\ pc'[t] = "insert"
    BY <1>2 DEF Erase
  <2>3. skeletons' = Without(skeletons, key[t]) /\ UNCHANGED <<key, person>>
    BY <1>2 DEF Erase
  <2>4. content' = With(Without(skeletons, key[t]), key[t], person[t])
    <3>1. content' = With(skeletons', key'[mutex'], person'[mutex'])
      BY <2>2
    <3>. QED
      BY <2>2, <2>3, <3>1, Zenon
  <2>5. content' = Map!With(Map!Without(content, key[t]), key[t], person[t])
    BY ONLY <2>2, <2>4, SameWith, SameWithout
  <2>6. Map!Put(key[t], person[t])
    BY <1>2, <2>1, <2>5 DEF Erase, Map!Put
  <2>. QED
    BY <2>1, <2>6 DEF Map!MapNext
<1>3. ASSUME NEW t \in Callers, Insert(t)
      PROVE  UNCHANGED <<content, first # 0, copied>>
  BY <1>3 DEF Insert
<1>4. ASSUME NEW t \in Callers, Remove(t) PROVE Map!MapNext
  <2>1. key[t] \in Keys
    BY <1>4 DEF Remove, ArgumentsHeld, UpdatePCs
  <2>2. content = skeletons /\ content' = Without(skeletons, key[t])
    BY <1>4 DEF Remove
  <2>. QED
    BY <1>4, <2>1, <2>2 DEF Remove, Map!MapNext, Map!Take, Map!Without, Without
<1>5. ASSUME NEW t \in Callers, ManualClear(t) PROVE Map!MapNext
  BY <1>5 DEF ManualClear, Map!MapNext, Map!Wipe, Map!Empty, Empty
<1>6. ASSUME NEW t \in Callers, GetSkeletons(t) PROVE Map!MapNext
  BY <1>6 DEF GetSkeletons, Map!MapNext, Map!Copy
<1>7. CASE ClearAll
  BY <1>7 DEF ClearAll, Map!MapNext, Map!Wipe, Map!Empty, Empty
<1>8. ASSUME NEW t \in Callers, Stamp(t) PROVE Map!MapNext
  BY <1>8 DEF Stamp, Map!MapNext, Map!Observe
<1>9. ASSUME NEW t \in Callers, CallerBegins(t) \/ CallerLocks(t) \/ CheckSize(t)
      PROVE  UNCHANGED <<content, first # 0, copied>>
  BY <1>9 DEF CallerBegins, BeginUpdate, BeginRemove, BeginManualClear,
     BeginGetSkeletons, CallerLocks, LockUpdate, LockRemove, LockManualClear,
     LockGetSkeletons, CheckSize
<1>10. CASE Poll \/ Compare \/ Schedule \/ LockClear \/ Elapse
  BY <1>10 DEF Poll, Compare, Schedule, LockClear, Elapse
<1>11. CASE FinishConstruction \/ BeginDestruction \/ Join \/ Freed
  BY <1>11 DEF FinishConstruction, BeginDestruction, Join, Freed
<1>. QED
  BY <1>1, <1>2, <1>3, <1>4, <1>5, <1>6, <1>7, <1>8, <1>9, <1>10, <1>11
  DEF Next, CallerSteps, RefreshSteps

\* Scene implements the atomic bounded map: whatever the interleaving, each
\* call takes effect in one step, and nothing is stored before an observation.
THEOREM SceneImplementsMap == Spec => ImplementsMap
<1>1. Init => Map!MapInit
  BY SceneAssumption
  DEF Init, Map!MapInit, content, Map!Empty, Empty, Callers, Threads
<1>. QED
  BY <1>1, StepMaps, InvariantHolds, PTL DEF Spec, ImplementsMap, Map!MapSpec
===============================================================================
