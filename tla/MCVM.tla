-------------------------------- MODULE MCVM --------------------------------
EXTENDS VM

(* A small VM before Osaka, with all that may happen in it, for transactions   *)
(* of blocks with and without a timestamp of zero.                             *)
SmallSetup ==
    [capacity |-> 3, depth_limit |-> 2, osaka |-> FALSE, call_overhead |-> 1,
     gas_limits |-> {3}, system_gas |-> {2}, call_gas |-> {3}, fields |-> {"gas_refund"},
     contexts |-> {[of |-> "tx1", timestamp |-> 1], [of |-> "genesis", timestamp |-> 0]},
     options |-> {"advanced", "opcode.count"},
     returns |-> {"SUCCESS", "REVERT", "FAILURE"}]

(* The real sizes from Osaka on, MAX_TX_GAS_LIMIT (EIP-7825) and the gas of    *)
(* system calls: calls that pass on all they can.                              *)
DeepSetup ==
    [capacity |-> 1025, depth_limit |-> 1024, osaka |-> TRUE, call_overhead |-> 112,
     gas_limits |-> {MAX_TX_GAS_LIMIT}, system_gas |-> {SYSTEM_CALL_GAS},
     call_gas |-> {SYSTEM_CALL_GAS}, fields |-> {},
     contexts |-> {NoContext}, options |-> {"cgoto", "trace", "histogram", "o"},
     returns |-> {}]

(* All options, and calls as far as they make a difference to them.            *)
OptionsSetup ==
    [SmallSetup EXCEPT !.capacity = 2, !.depth_limit = 1, !.gas_limits = {1},
                       !.system_gas = {}, !.call_gas = {1},
                       !.fields = {},
                       !.options = @ \union DeepSetup.options]

MCExecutions == {SmallSetup, DeepSetup}
MCOptions == {OptionsSetup}
=============================================================================
