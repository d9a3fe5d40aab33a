----------------------------- MODULE MCCx24117 -----------------------------
(***************************************************************************)
(* Both demodulators; one command more than the first in init and one at   *)
(* the end of the loading, where the code has three and ten.               *)
(***************************************************************************)
EXTENDS Cx24117
=============================================================================
