---------------------------- MODULE MCLightSync ------------------------------
(***************************************************************************)
(* An enclave, its relayer and a chain of four blocks, with and without    *)
(* fast sync; one call fails or the enclave is restarted once.  The        *)
(* relayer learns of new blocks only at the top of its loop, and where it  *)
(* starts with a fast sync, so the chain grows only there.  A fast sync    *)
(* loads the last finalised block or the one after it.                     *)
(***************************************************************************)
EXTENDS LightSync

Scenario ==
    /\ chain' /= chain =>
          relayer.pc = "loop" \/ (relayer.pc = "start" /\ fast)
    /\ enclave.can_load /\ ~enclave'.can_load /\ relayer.pc = "start" =>
          enclave'.block_number_next > Len(chain)
    /\ faults' + crashes' <= 1
==============================================================================
