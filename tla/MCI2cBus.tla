----------------------------- MODULE MCI2cBus -----------------------------
(* Model-checking instance of I2cBus: every length at which the number of  *)
(* chunks or the last chunk's size changes, alone and in pairs.            *)
EXTENDS I2cBus

Write(n) == [rd |-> FALSE, len |-> n]
Read(n)  == [rd |-> TRUE, len |-> n]

MCTransactions ==
  {<<Write(n)>> : n \in {0, 1, 6, 7, 13}}
  \cup {<<Read(n)>> : n \in {0, 4, 5, 9}}
  \cup {<<Write(w), Read(r)>> : w \in {1, 7}, r \in {1, 4, 8}}
=============================================================================
