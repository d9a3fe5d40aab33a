----------------------------- MODULE MCStiData -----------------------------
(* Model-checking instance of StiData.                                     *)
EXTENDS StiData
=============================================================================
