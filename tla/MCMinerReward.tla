--------------------------- MODULE MCMinerReward ---------------------------
(***************************************************************************)
(* An instance of MinerReward for TLC: two miners, a list of at most two    *)
(* orders or snapshots each, and a bound on the power recorded in all.      *)
(***************************************************************************)
EXTENDS MinerReward, TLC

CONSTANTS MaxPower    \* bound: power recorded in all eras

Symmetry == Permutations(Miners)
Few == power[0] <= 1 /\ MapThenSumSet(LAMBDA e : power[e], Eras) <= MaxPower
=============================================================================
