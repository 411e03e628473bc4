---------------------------- MODULE MCMinerStake ----------------------------
(***************************************************************************)
(* An instance of MinerStake for TLC: m2 stakes for itself, m1 lets m2 or   *)
(* the reservoir stake for it.  The two cases share no account, so they are *)
(* explored apart: m2 takes no part once the reservoir is used.  Behaviours *)
(* are followed to the first payment for a miner that was paid back before, *)
(* after which StakeReserved says nothing of the account.                   *)
(***************************************************************************)
EXTENDS MinerStake, TLC

CONSTANTS m1, m2

Shared == (m1 :> {m2, Pool}) @@ (m2 :> {m2})

Focus ==
  /\ overdrawn = {}
  /\ miner[m2] # NoMiner => /\ reservoir = [free |-> 0, borrow |-> 0, store |-> 0]
                            /\ event = NoEvent
=============================================================================
