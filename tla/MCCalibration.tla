----------------------------- MODULE MCCalibration -----------------------------
EXTENDS Calibration

Symmetry ==
    Permutations(Objects) \cup Permutations(Ids) \cup Permutations(Sensors)

\* The checked invariants and every guard only tell whether a scene has a
\* transform, not what it was computed from; and nothing follows a fault.
WithoutOrigin ==
    IF Running
    THEN <<vars, calibrated, {s \in Scenes : transform[s] = Garbage}>>
    ELSE <<fault>>

\* Scenes first observed in the same tick are the matter of MCViewport.
NoTies == \A s, t \in Live : first[s] = first[t] /\ first[s] # 0 => s = t

\* Four scenes of two clients, seen one after the other, are ordered before any
\* client leaves: the shortest way to a place that is not the scene's number.
FourOrderedScenes ==
    /\ Running
    /\ Cardinality(Registered) <= 4
    /\ Range(avail) # {} => ordered # <<>>
    /\ (upc # "recv" \/ \E w \in Workers : pc[w] \in {"check", "find"}) =>
          Cardinality(Registered) = 4
    /\ NoTies
    /\ \E w \in Workers : pc[w] = "find" => ordered # <<>>
===============================================================================
