----------------------------- MODULE MCStid135 -----------------------------
(***************************************************************************)
(* Two frontends of one STiD135, one failing transfer, one round of the    *)
(* wait for the demodulator and one DiSEqC byte.                           *)
(***************************************************************************)
EXTENDS Stid135
=============================================================================
