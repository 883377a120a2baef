------------------------------ MODULE MCFanOut -------------------------------
(* TLC instance of FanOut.                                                 *)
EXTENDS FanOut, TLC

CONSTANTS b1, b2, b3

Ordered == {<<b1, b2>>, <<b1, b3>>, <<b2, b3>>} \cap (Branches \X Branches)
AsRequired == [v \in Variants |-> IF v = "streaming" THEN {} ELSE Ordered]
OneAfterTheOther == [v \in Variants |-> Ordered]
=============================================================================
