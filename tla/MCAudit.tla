------------------------------ MODULE MCAudit ------------------------------
(***************************************************************************)
(* Instances of Audit for TLC: the spaces a miner may have, chosen so that  *)
(* the idle window, the service window or neither is the longer one.        *)
(***************************************************************************)
EXTENDS Audit, TLC

OneSpace == {[idle |-> 1, service |-> 0]}
MixedSpaces == {[idle |-> 1, service |-> 0], [idle |-> 0, service |-> 1],
                [idle |-> 0, service |-> 0]}

Symmetry == Permutations(Miners) \cup Permutations(Tees)
=============================================================================
