---------------------------- MODULE MinerReward ----------------------------
(***************************************************************************)
(* The rewards of storage miners: completed challenges are recorded per     *)
(* era, an era's reward is shared by power when the miner asks for it, and  *)
(* a share is released half at once and half in daily parts (sminer pallet) *)
(* out of the pools of the cess-treasury pallet, which staking fills when   *)
(* an era ends.  Perbill is exact to one part in Accuracy.                  *)
(*                                                                          *)
(* The lists of snapshots and of orders are sets: their order is of no      *)
(* consequence, and a miner has one challenge at a time, opened by the      *)
(* block hook, so a block completes one challenge of it at most.            *)
(***************************************************************************)
EXTENDS Integers, FiniteSetsExt, Functions

CONSTANTS Miners,
          Powers,       \* powers of a miner at a completed challenge
          EraPayout,    \* miners' reward of an era
          Release,      \* RELEASE_NUMBER: parts, orders and snapshots of a miner
          OneDay,       \* blocks between two parts
          Accuracy,     \* denominator of Perbill
          MaxEra,       \* bound: eras
          MaxBlock      \* bound: blocks

ASSUME RewardAssumption ==
  /\ IsFiniteSet(Miners)
  /\ Powers \subseteq Nat \ {0}
  /\ {EraPayout, MaxEra, MaxBlock} \subseteq Nat
  /\ {Release, OneDay, Accuracy} \subseteq Nat \ {0}

VARIABLES now,        \* block number
          era,        \* Staking::current_era
          active,     \* the active era, whose end pays for current_era
          snaps,      \* CompleteMinerSnapShot, of snapshots not issued
          power,      \* CompleteSnapShot: total_power of an era
          round,      \* RoundReward: pot and what was granted of it
          reward,     \* RewardMap: total, issued, and the orders being released
          currency,   \* CurrencyReward
          reserve,    \* ReserveReward
          pot,        \* balance of the MinerReward account
          reservePot, \* balance of the ReserveReward account
          gone,       \* miners forced out
          drift       \* history: pool error left by forced exits

minerVars == <<snaps, power, round, reward, gone, drift>>
treasury == <<currency, reserve, pot, reservePot>>
vars == <<now, era, active, minerVars, treasury>>

Eras == 0..MaxEra
NoReward == [total |-> 0, issued |-> 0, orders |-> {}]

----------------------------------------------------------------------------
(* An era ends: first the next era is planned, then the end of the active   *)
(* era mints the miners' reward into the round of the planned one.          *)
new_era ==
  /\ active = era /\ era < MaxEra
  /\ era' = era + 1
  /\ UNCHANGED <<now, active, minerVars, treasury>>

add_miner_reward_pool(n) ==
  /\ round' = [round EXCEPT ![era].pot = @ + n]
  /\ currency' = currency + n

end_era ==
  /\ active < era
  /\ active' = era
  /\ pot' = pot + EraPayout
  /\ add_miner_reward_pool(EraPayout)
  /\ UNCHANGED <<now, era, snaps, power, reward, gone, drift, reserve, reservePot>>

----------------------------------------------------------------------------
(* Mutant: the power of an era counts each miner once.                      *)
RecordedPowerOnce(m, p) ==
  IF \E s \in snaps[m] : s.era = era THEN power[era] ELSE power[era] + p
RecordedPower(m, p) == power[era] + p

record_snap_shot(m, p) ==
  /\ m \notin gone
  /\ \A s \in snaps[m] : s.block # now
  /\ Cardinality(snaps[m]) < Release
  /\ snaps' = [snaps EXCEPT ![m] = @ \cup {[era |-> era, power |-> p, block |-> now]}]
  /\ power' = [power EXCEPT ![era] = RecordedPower(m, p)]
  /\ UNCHANGED <<now, era, active, round, reward, gone, drift, treasury>>

----------------------------------------------------------------------------
(* calculate_miner_reward: the snapshots of past eras become orders, unless *)
(* the list of orders is full, in which case they go to the reserve.        *)
Past(m) == {s \in snaps[m] : s.era < era}

Share(s) == (((s.power * Accuracy) \div power[s.era]) * round[s.era].pot) \div Accuracy

(* The era and the block of the snapshot tell the orders of a miner apart.  *)
Order(s) == [era |-> s.era, block |-> s.block, count |-> 0, atonce |-> FALSE,
             reward |-> Share(s), each |-> (Share(s) \div 2) \div Release, last |-> s.block]

Shares(S) == SumFunctionOnSet([s \in S |-> Share(s)], S)
Granted(m) == Shares(Past(m))
GrantedOf(m, e) == Shares({s \in Past(m) : s.era = e})

Full(m) == Cardinality(reward[m].orders) = Release
Calculated(m) ==
  IF Full(m) THEN reward[m]
  ELSE [reward[m] EXCEPT !.total = @ + Granted(m),
                         !.orders = @ \cup {Order(s) : s \in Past(m)}]

(* sub_reward asks the reserve for the whole amount when the pool is short. *)
Short(m) == Granted(m) > currency
CanCalculate(m) ==
  /\ \A s \in Past(m) : round[s.era].pot > 0
  /\ \A e \in Eras : round[e].paid + GrantedOf(m, e) <= round[e].pot
  /\ Full(m) \/ Cardinality(reward[m].orders) + Cardinality(Past(m)) <= Release
  /\ Full(m) => pot >= Granted(m)
  /\ Short(m) => /\ reserve + (IF Full(m) THEN Granted(m) ELSE 0) >= Granted(m)
                 /\ reservePot + (IF Full(m) THEN Granted(m) ELSE 0) >= Granted(m)

----------------------------------------------------------------------------
(* distribute_rewards: the parts of the days since the last time, up to the *)
(* number of parts, and half of the order the first time.                   *)
Days(o) == (now - o.last) \div OneDay
Parts(o) == Min({Days(o), Release - o.count})
Paid(o) == o.each * Parts(o) + (IF o.atonce THEN 0 ELSE o.reward \div 2)
PaidOrder(o) == [o EXCEPT !.count = @ + Parts(o), !.atonce = TRUE,
                          !.last = IF Parts(o) > 0 THEN now ELSE @]
Sent(r) == SumFunctionOnSet([o \in r.orders |-> Paid(o)], r.orders)
Distributed(r) ==
  [r EXCEPT !.issued = @ + Sent(r),
            !.orders = {o \in {PaidOrder(o) : o \in @} : o.count # Release}]

(* What a calculation followed by a distribution does to the pools.  More   *)
(* is the amount given back to the current pool.                            *)
Settle(m, more) ==
  LET c == Calculated(m)
      toReserve == IF Full(m) THEN Granted(m) ELSE 0
      fromReserve == IF Short(m) THEN Granted(m) ELSE 0
  IN  /\ CanCalculate(m)
      /\ pot - toReserve + fromReserve >= Sent(c)
      /\ round' = [e \in Eras |-> [round[e] EXCEPT !.paid = @ + GrantedOf(m, e)]]
      /\ currency' = currency + fromReserve - Granted(m) + more
      /\ reserve' = reserve + toReserve - fromReserve
      /\ reservePot' = reservePot + toReserve - fromReserve
      /\ pot' = pot - toReserve + fromReserve - Sent(c)

(* Mutant: a full list of orders still counts what went to the reserve.     *)
SettledTwice(m) ==
  Distributed([Calculated(m) EXCEPT !.total = @ + (IF Full(m) THEN Granted(m) ELSE 0)])
Settled(m) == Distributed(Calculated(m))

receive_reward(m) ==
  /\ m \notin gone
  /\ Settle(m, 0)
  /\ reward' = [reward EXCEPT ![m] = Settled(m)]
  /\ snaps' = [snaps EXCEPT ![m] = @ \ Past(m)]
  /\ UNCHANGED <<now, era, active, power, gone, drift>>

(* A forced exit pays what is due and gives the residue back to the pool,   *)
(* computed from the totals read before the payment.  A miner without a     *)
(* reward loses its snapshots.  A calculation that fails is not followed    *)
(* here: the exit fails with it.                                            *)
force_miner_exit(m) ==
  LET residue == reward[m].total - reward[m].issued
      left    == Settled(m).total - Settled(m).issued
  IN  /\ m \notin gone
      /\ \/ /\ reward[m].total = 0
            /\ UNCHANGED <<treasury, round, drift>>
         \/ /\ reward[m].total > 0
            /\ Settle(m, residue)
            /\ drift' = drift + residue - left
      /\ gone' = gone \cup {m}
      /\ snaps' = [snaps EXCEPT ![m] = {}]
      /\ reward' = [reward EXCEPT ![m] = NoReward]
      /\ UNCHANGED <<now, era, active, power>>

NewBlock ==
  /\ now < MaxBlock
  /\ now' = now + 1
  /\ UNCHANGED <<era, active, minerVars, treasury>>

Init ==
  /\ now = 0 /\ era = 0 /\ active = 0
  /\ snaps = [m \in Miners |-> {}]
  /\ power = [e \in Eras |-> 0]
  /\ round = [e \in Eras |-> [pot |-> 0, paid |-> 0]]
  /\ reward = [m \in Miners |-> NoReward]
  /\ currency = 0 /\ reserve = 0 /\ pot = 0 /\ reservePot = 0
  /\ gone = {} /\ drift = 0

Next ==
  \/ new_era
  \/ end_era
  \/ NewBlock
  \/ \E m \in Miners, p \in Powers : record_snap_shot(m, p)
  \/ \E m \in Miners : receive_reward(m)
  \/ \E m \in Miners : force_miner_exit(m)

Spec == Init /\ [][Next]_vars

----------------------------------------------------------------------------
Snapshots == [era : Eras, power : Nat \ {0}, block : Nat]
Orders == [era : Eras, block : Nat, count : Int, atonce : BOOLEAN,
           reward : Int, each : Int, last : Nat]

TypeOK ==
  /\ now \in Nat /\ era \in Eras /\ active \in Eras
  /\ snaps \in [Miners -> SUBSET Snapshots]
  /\ power \in [Eras -> Nat]
  /\ round \in [Eras -> [pot : Nat, paid : Int]]
  /\ reward \in [Miners -> [total : Int, issued : Int, orders : SUBSET Orders]]
  /\ {currency, reserve, pot, reservePot, drift} \subseteq Int
  /\ gone \subseteq Miners

Owed == [m \in Miners |-> reward[m].total - reward[m].issued]

(* The account of the miners' rewards holds exactly what the pool may still *)
(* grant and what was granted and not sent yet, up to the error of forced   *)
(* exits, which give back a residue computed before their own payment.      *)
PoolCovered ==
  /\ pot + drift = currency + SumFunctionOnSet(Owed, Miners)
  /\ reservePot = reserve

Claims(e) == [m \in Miners |-> GrantedOf(m, e)]

(* The shares of an era never exceed its reward, also those not asked for   *)
(* yet: sub_round_reward's check never refuses a miner that comes late.     *)
RoundNeverOverdrawn ==
  \A e \in 0..(era - 1) :
    round[e].paid + SumFunctionOnSet(Claims(e), Miners) <= round[e].pot
=============================================================================
