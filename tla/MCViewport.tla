------------------------------ MODULE MCViewport -------------------------------
EXTENDS Viewport

Symmetry ==
    Permutations(Objects) \cup Permutations(Ids) \cup Permutations(Sensors)

\* Nothing follows a fault: all states after one are alike.
UntilFault == IF Running THEN <<vars>> ELSE <<fault>>
===============================================================================
