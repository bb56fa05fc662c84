------------------------------ MODULE MCProcess ------------------------------
(* Process with small values for TLC.                                      *)
EXTENDS Process, TLC
MCTyped == {1, 1500}
=============================================================================
