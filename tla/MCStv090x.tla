----------------------------- MODULE MCStv090x -----------------------------
(***************************************************************************)
(* Both paths of the chip, with up to two frequencies in get_coldlock.     *)
(* The paths are treated alike.                                            *)
(***************************************************************************)
EXTENDS Stv090x, TLC

Symmetry == Permutations(Paths)
=============================================================================
