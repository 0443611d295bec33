-------------------------------- MODULE MCPage ---------------------------------
(* Small instances of CalibrationPage. *)
EXTENDS CalibrationPage

CONSTANTS s1, s2

\* Complete skeletons, alone and together, and one without joints.
MCBodies == {<<20>>, <<20, 20>>, <<20, 3>>, <<3>>}
MCAnswers == {[sensor |-> s1, skeletons |-> <<20, 20>>],
              [sensor |-> s2, skeletons |-> <<3>>],
              [sensor |-> s2, skeletons |-> <<20>>], None, Garbled}
MCInputs == {0, NaN}
===============================================================================
