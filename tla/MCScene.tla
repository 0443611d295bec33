-------------------------------- MODULE MCScene --------------------------------
(* Scene for TLC.  Liveness properties do not go with symmetry sets, and the   *)
(* theorems of SceneProofs cover what a larger instance could add.            *)
EXTENDS Scene
===============================================================================
