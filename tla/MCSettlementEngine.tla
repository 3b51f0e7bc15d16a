------------------------- MODULE MCSettlementEngine -------------------------
(* Model-checking instance of SettlementEngine: two peers scanned one key  *)
(* per SCAN step, so a sweep takes two script calls and the second batch   *)
(* is reached only through the cursor loop.                                *)
EXTENDS SettlementEngine

MCAccrueAmounts  == {1, 2}
MCDepositAmounts == {1}
=============================================================================
