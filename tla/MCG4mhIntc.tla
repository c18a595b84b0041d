----------------------------- MODULE MCG4mhIntc -----------------------------
(* Two channels: 0 of INTC1 and, more urgent and bound to the core or not,  *)
(* 32 of INTC2, through the table and onto the only register bank.         *)
EXTENDS G4mhIntc, TLC

MCEip == 0 :> 1 @@ 32 :> 0
MCConfigs == [epl : BOOLEAN, ispc : BOOLEAN] \ {[epl |-> TRUE, ispc |-> TRUE]}
=============================================================================
