-------------------------- MODULE MCInstructionSet --------------------------
(* Words of two bytes of three bits; inputs of different lengths. Memory keeps *)
(* its words of 32 bytes and pages of 4096.                                   *)
EXTENDS InstructionSet

MCInputs ==
    [input |-> <<1, 2, 3>>, code |-> <<4, 5, 6, 7, 1>>, ext_code |-> <<7, 6>>, return_data |-> <<2, 4, 6>>]

(* One revision for each schedule of costs.                                   *)
MCCostRevisions == {PETERSBURG, ISTANBUL, BERLIN, LONDON, AMSTERDAM}
=============================================================================
