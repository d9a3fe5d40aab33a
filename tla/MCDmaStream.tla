---------------------------- MODULE MCDmaStream ----------------------------
(* Model-checking instance of DmaStream: a ring small enough that the      *)
(* engine can go round it more than twice within the bound.                *)
EXTENDS DmaStream
=============================================================================
