------------------------------- MODULE SceneMap -------------------------------
(***************************************************************************)
(* What a Scene (Data/Scene.cpp) promises the threads that share it: a map *)
(* from skeleton ids to skeletons that holds at most Capacity entries, on  *)
(* which each call takes effect in one indivisible step, and that stores   *)
(* nothing before the scene has recorded that it observed someone.         *)
(* Scene.tla is the detailed module that is shown to implement this one.   *)
(***************************************************************************)
EXTENDS SkeletonMap

VARIABLES content,   \* the skeletons stored, by id
          observed,  \* has the first observation been recorded
          copied     \* what the latest GetSkeletons returned

mapVars == <<content, observed, copied>>

MapInit ==
    /\ content = Empty
    /\ observed = FALSE
    /\ copied = Empty

Observe ==
    /\ observed' = TRUE
    /\ UNCHANGED <<content, copied>>

\* The old entry of the id goes first, so a full scene still takes a newer
\* skeleton under an id it holds, and drops one under an id it does not hold.
Put(k, s) ==
    /\ observed
    /\ content' = With(Without(content, k), k, s)
    /\ UNCHANGED <<observed, copied>>

Take(k) ==
    /\ content' = Without(content, k)
    /\ UNCHANGED <<observed, copied>>

Wipe ==
    /\ content' = Empty
    /\ UNCHANGED <<observed, copied>>

Copy ==
    /\ copied' = content
    /\ UNCHANGED <<content, observed>>

MapNext ==
    \/ Observe
    \/ \E k \in Keys, s \in Skeletons : Put(k, s)
    \/ \E k \in Keys : Take(k)
    \/ Wipe
    \/ Copy

MapSpec == MapInit /\ [][MapNext]_mapVars
===============================================================================
