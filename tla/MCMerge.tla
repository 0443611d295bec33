-------------------------------- MODULE MCMerge --------------------------------
(* Merge for TLC: persons of whom no two, or all, stand in line.               *)
EXTENDS Merge, TLC

NoneAligned == {}
AllAligned == Persons \X Persons

Symmetry ==
    Permutations(Keys) \cup Permutations(Persons) \cup Permutations(GlobalIds)
===============================================================================
