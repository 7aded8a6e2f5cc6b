----------------------------- MODULE MCStateGas -----------------------------
(***************************************************************************)
(* A small instance of StateGas: costs of a few units, so that charges are *)
(* paid partly from both pools and run out in both.                        *)
(***************************************************************************)
EXTENDS StateGas, TLC

CONSTANTS slot1, slot2, addr1, addr2

MCOriginal == (slot1 :> 0) @@ (slot2 :> 1)
MCGasLimits == {<<5, 0>>, <<6, 3>>}
=============================================================================
