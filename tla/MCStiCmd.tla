------------------------------ MODULE MCStiCmd ------------------------------
(* Model-checking instance of StiCmd: the strictest and the loosest        *)
(* firmware.                                                               *)
EXTENDS StiCmd

Strict == [early |-> FALSE, overtakes |-> FALSE]
Loose  == [early |-> TRUE, overtakes |-> TRUE]

MCHabits     == {Strict, Loose}
StrictHabits == {Strict}
=============================================================================
