----------------------------- MODULE MCFifoOut -----------------------------
(* Model-checking instance of FifoOut.                                     *)
EXTENDS FifoOut
=============================================================================
