--------------------------- MODULE MCChargeLedger ---------------------------
(* Prices up to 14 cents, where the fee of 10% is rounded both ways, and a   *)
(* few fee percentages between the extremes.                                 *)
EXTENDS ChargeLedger

MCPrices == 1 .. 14

MCFeePcts == {0, 1, 7, 10, 25, 50, 99, 100}

MCFractions == {50, 67, 75, 99, 100}
=============================================================================
