------------------------------ MODULE SkeletonMap ------------------------------
(***************************************************************************)
(* The bounded std::map<unsigned short,Skeleton> of a Scene: a function    *)
(* from every possible id to the skeleton stored there, or None.           *)
(***************************************************************************)
EXTENDS FiniteSets, Integers

CONSTANTS Keys,      \* skeleton ids
          Skeletons, \* skeleton values
          None,      \* no skeleton, no thread
          Capacity   \* how many skeletons a scene stores (3 in the code)

ASSUME MapAssumption ==
    /\ IsFiniteSet(Keys)
    /\ None \notin Keys \cup Skeletons
    /\ Capacity \in Nat

Contents == [Keys -> Skeletons \cup {None}]

Empty == [k \in Keys |-> None]

Stored(m) == {k \in Keys : m[k] # None}

\* map::erase
Without(m, k) == [m EXCEPT ![k] = None]

\* Mutant: an off-by-one in the size test.
WithOneMore(m, k, s) ==
    IF Cardinality(Stored(m)) <= Capacity THEN [m EXCEPT ![k] = s] ELSE m

\* The guarded map::insert of Update, for an id that is not in the map.
With(m, k, s) ==
    IF Cardinality(Stored(m)) < Capacity THEN [m EXCEPT ![k] = s] ELSE m
===============================================================================
