------------------------------ MODULE Revision ------------------------------
(***************************************************************************)
(* The EVM revisions, in the order of the enumeration evmc_revision        *)
(* (evmc.h).  Every "rev >= EVMC_X" of the code is a comparison of these   *)
(* numbers.                                                                *)
(***************************************************************************)
EXTENDS Naturals

FRONTIER          == 0
HOMESTEAD         == 1
TANGERINE_WHISTLE == 2
SPURIOUS_DRAGON   == 3
BYZANTIUM         == 4
PETERSBURG        == 5
ISTANBUL          == 6
BERLIN            == 7
LONDON            == 8
PARIS             == 9
SHANGHAI          == 10
CANCUN            == 11
PRAGUE            == 12
OSAKA             == 13
AMSTERDAM         == 14

Revisions == FRONTIER..AMSTERDAM
=============================================================================
