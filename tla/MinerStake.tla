----------------------------- MODULE MinerStake -----------------------------
(***************************************************************************)
(* The collateral of storage miners: the registration, collateral, debt,    *)
(* punishment, exit and withdrawal part of the sminer pallet, composed with *)
(* the reservoir that may stake for a miner.  Space is counted in TiB, time *)
(* as blocks left (or, for the age of a stake, blocks passed).              *)
(***************************************************************************)
EXTENDS Reservoir

CONSTANTS Sponsors,       \* the staking accounts a miner may choose
          Balance,        \* free balance of every account at the start
          BaseUnit,       \* BASE_UNIT: collateral per declared TiB
          Tibs,           \* TiB a call may declare
          MaxTib,         \* bound: TiB a miner declares
          NoRewardFine,   \* clear_punish without any reward yet
          ClearRates,     \* clear_punish per TiB (5 % and 15 % of BASE_UNIT)
          ServiceRate,    \* service_punish per TiB (5 % of BASE_UNIT)
          StakingLock,    \* StakingLockBlock
          LockTime,       \* 15 days, from miner_exit_prep to miner_exit
          Cooling         \* cooling blocks of a restoral target

ASSUME StakeAssumption ==
  /\ Sponsors \in [Miners -> SUBSET Accounts]
  /\ ClearRates \subseteq Nat /\ Tibs \subseteq Nat
  /\ {Balance, BaseUnit, MaxTib, NoRewardFine, ServiceRate, StakingLock} \subseteq Nat
  /\ {LockTime, Cooling} \subseteq Nat \ {0}

VARIABLES miner,      \* MinerItems, StakingStartBlock (age) and RewardMap (rewarded)
          lockLeft,   \* MinerLock, and the scheduled miner_exit while positive
          due,        \* ReturnStakingSchedule: blocks left and amount
          target,     \* RestoralTarget: -1 none, else blocks until withdrawal
          returned,   \* history: the collateral of the miner was given back
          overdrawn,  \* history: accounts that paid for a miner already given back
          unbooked,   \* history: debts paid from the pool account without a booking
          stray       \* history: miners locked by a call that named another miner

stakeVars == <<miner, lockLeft, due, target>>
history == <<returned, overdrawn, unbooked, stray>>
vars == <<reservoirVars, stakeVars, history>>

States == {"none", "not ready", "positive", "frozen", "lock", "exit", "offline"}
NoMiner == [state |-> "none", acct |-> Pool, coll |-> 0, debt |-> 0, tib |-> 0,
            age |-> -1, rewarded |-> FALSE]
NotDue == [left |-> 0, amount |-> 0]

calculate_limit_by_space(tib) == tib * BaseUnit

----------------------------------------------------------------------------
(* Registration.                                                            *)
Registered(a, n, tib, age) ==
  [state |-> "not ready", acct |-> a, coll |-> n, debt |-> 0, tib |-> tib,
   age |-> age, rewarded |-> FALSE]

regnstk(m, n, tib) ==
  /\ miner[m].state = "none"
  /\ n >= calculate_limit_by_space(tib)
  /\ Reserve(m, n)
  /\ miner' = [miner EXCEPT ![m] = Registered(m, n, tib, 0)]
  /\ UNCHANGED <<reservoir, books, event, lockLeft, due, target, history>>

regnstk_assign_staking(m, a, tib) ==
  LET need == tib * BaseUnit
      s    == staking(m, need)
  IN  /\ miner[m].state = "none"
      /\ \/ /\ a = Pool
            /\ check_qualification(m, need) /\ s.ok
            /\ SetBooks(m, s) /\ Reserve(Pool, need)
            /\ miner' = [miner EXCEPT ![m] = Registered(Pool, need, tib, 0)]
         \/ /\ a # Pool
            /\ miner' = [miner EXCEPT ![m] = Registered(a, 0, tib, -1)]
            /\ UNCHANGED <<money, books>>
      /\ UNCHANGED <<reservoir, event, lockLeft, due, target, history>>

Enough(i) == i.coll >= calculate_limit_by_space(i.tib)

register_pois_key(m) ==
  /\ miner[m].state = "not ready"
  /\ miner' = [miner EXCEPT ![m].state = IF Enough(miner[m]) THEN "positive" ELSE "frozen"]
  /\ UNCHANGED <<reservoirVars, lockLeft, due, target, history>>

increase_declaration_space(m, tib) ==
  LET more == [miner[m] EXCEPT !.tib = @ + tib]
  IN  /\ miner[m].state = "positive"
      /\ more.tib <= MaxTib
      /\ miner' = [miner EXCEPT ![m] =
                     [more EXCEPT !.state = IF Enough(more) THEN @ ELSE "frozen"]]
      /\ UNCHANGED <<reservoirVars, lockLeft, due, target, history>>

----------------------------------------------------------------------------
(* Collateral is added after the debt is paid.  The reservoir's account     *)
(* pays the debt of a miner it stakes for.                                  *)
Repaid(i, n) == IF i.debt > n THEN n ELSE i.debt

increase_collateral(s, m, n) ==
  LET i    == miner[m]
      pay  == Repaid(i, n)
      rest == n - pay
      more == [i EXCEPT !.coll = @ + rest, !.debt = @ - pay, !.age = 0]
      st   == staking(m, rest)
  IN  /\ i.state \notin {"none", "offline", "lock", "exit"}
      /\ i.acct \in {s, Pool}
      /\ i.acct = Pool => s = m /\ check_qualification(m, n) /\ st.ok
      /\ free[i.acct] >= n
      /\ free' = [free EXCEPT ![i.acct] = @ - n]
      /\ reserved' = [reserved EXCEPT ![i.acct] = @ + rest]
      /\ IF i.acct = Pool THEN SetBooks(m, st) ELSE UNCHANGED books
      /\ unbooked' = IF i.acct = Pool THEN unbooked + pay ELSE unbooked
      /\ miner' = [miner EXCEPT ![m] =
                     [more EXCEPT !.state = IF @ = "frozen" /\ Enough(more)
                                            THEN "positive" ELSE @]]
      /\ UNCHANGED <<reservoir, event, lockLeft, due, target, returned, overdrawn, stray>>

(* receive_reward, of which only the fact that a reward was granted matters *)
(* here.                                                                    *)
receive_reward(m) ==
  /\ miner[m].state \in {"positive", "exit"}
  /\ ~miner[m].rewarded
  /\ miner' = [miner EXCEPT ![m].rewarded = TRUE]
  /\ UNCHANGED <<reservoirVars, lockLeft, due, target, history>>

----------------------------------------------------------------------------
(* Punishment.  inCall: the caller is a call, which a failure undoes;       *)
(* otherwise it is the hook of the audit pallet, which ignores the error    *)
(* and keeps what was written.                                              *)
Gone(m, a, n) == IF returned[m] /\ n > 0 /\ reserved[a] > 0 THEN overdrawn \cup {a} ELSE overdrawn

(* Mutant: the collateral that was taken is left in the record.             *)
PunishedKept(i, n, tib) ==
  [i EXCEPT !.debt = IF i.coll > n THEN @ ELSE n,
            !.state = IF i.coll < calculate_limit_by_space(tib) THEN "frozen" ELSE @]

(* deposit_punish takes the amount, or all there is; what is left as a debt *)
(* is the whole amount.                                                     *)
Punished(i, n, tib) ==
  LET taken == IF i.coll > n THEN n ELSE i.coll
      coll  == i.coll - taken
  IN  [i EXCEPT !.coll = coll,
                !.debt = IF i.coll > n THEN @ ELSE n,
                !.state = IF coll < calculate_limit_by_space(tib) THEN "frozen" ELSE @]

deposit_punish(m, n, tib, inCall) ==
  LET i     == miner[m]
      taken == IF i.coll > n THEN n ELSE i.coll
      p     == punish(m, n)
      back  == Unreservable(i.acct, taken)
      ok    == i.acct = Pool => p.ok
      paid  == ok /\ free[i.acct] + back >= taken
  IN  /\ inCall => paid
      /\ IF i.acct = Pool THEN SetBooks(m, p) ELSE UNCHANGED books
      /\ free' = IF ok THEN [free EXCEPT ![i.acct] = @ + back - (IF paid THEN taken ELSE 0)]
                 ELSE free
      /\ reserved' = IF ok THEN [reserved EXCEPT ![i.acct] = @ - back] ELSE reserved
      /\ overdrawn' = IF ok THEN Gone(m, i.acct, taken) ELSE overdrawn
      /\ miner' = IF paid THEN [miner EXCEPT ![m] = Punished(i, n, tib)] ELSE miner
      /\ UNCHANGED <<reservoir, event, lockLeft, due, target, returned, unbooked, stray>>

(* A challenge of a miner outlives its stay in AllMiner, so that a miner    *)
(* that left by itself can still miss one.                                  *)
Challenged(m) == miner[m].state \in {"positive", "frozen", "lock", "exit"}
Powers(m) == 0..miner[m].tib

clear_punish(m) ==
  \E power, tib \in Powers(m), rate \in ClearRates :
    /\ Challenged(m)
    /\ deposit_punish(m, IF miner[m].rewarded THEN rate * power ELSE NoRewardFine, tib, FALSE)

service_punish(m) ==
  \E power, tib \in Powers(m) :
    /\ Challenged(m)
    /\ deposit_punish(m, ServiceRate * power, tib, TRUE)

----------------------------------------------------------------------------
(* Leaving.                                                                 *)
(* Mutant: the exit is scheduled for the staking account.                   *)
miner_exit_prepStaker(s, m) ==
  /\ lockLeft[m] < 0
  /\ miner[m].age > StakingLock
  /\ miner[s].state = "positive"
  /\ s = m \/ miner[s].acct = s
  /\ miner' = [miner EXCEPT ![s].state = "lock"]
  /\ lockLeft' = [lockLeft EXCEPT ![miner[m].acct] = LockTime]
  /\ stray' = IF s = m THEN stray \ {s} ELSE stray \cup {s}
  /\ UNCHANGED <<reservoirVars, due, target, returned, overdrawn, unbooked>>

(* The call names a miner and changes the record of its sender.             *)
miner_exit_prep(s, m) ==
  /\ lockLeft[m] < 0
  /\ miner[m].age > StakingLock
  /\ miner[s].state = "positive"
  /\ s = m \/ miner[s].acct = s
  /\ miner' = [miner EXCEPT ![s].state = "lock"]
  /\ lockLeft' = [lockLeft EXCEPT ![m] = LockTime]
  /\ stray' = IF s = m THEN stray \ {s} ELSE stray \cup {s}
  /\ UNCHANGED <<reservoirVars, due, target, returned, overdrawn, unbooked>>

(* A miner without any reward gets its collateral back at once; one with    *)
(* rewards is entered for the block its stake is free in, and never if that *)
(* block is not in the future.                                              *)
force_miner_exit(m) ==
  LET i  == miner[m]
      r  == redeem(m, i.coll)
      ok == IF i.rewarded THEN i.age >= 0 ELSE i.acct = Pool => r.ok
      wait == IF i.age < StakingLock THEN StakingLock - i.age ELSE 0
  IN  /\ Challenged(m)
      /\ IF ~i.rewarded /\ i.acct = Pool THEN SetBooks(m, r) ELSE UNCHANGED books
      /\ IF ~i.rewarded /\ ok
         THEN /\ Unreserve(i.acct, i.coll)
              /\ returned' = [returned EXCEPT ![m] = TRUE]
              /\ overdrawn' = Gone(m, i.acct, i.coll)
         ELSE UNCHANGED <<money, returned, overdrawn>>
      /\ due' = IF i.rewarded /\ ok /\ wait > 0
                THEN [due EXCEPT ![m] = [left |-> wait, amount |-> i.coll]] ELSE due
      /\ \/ ok /\ miner' = [miner EXCEPT ![m].state = "offline"]
               /\ target' = [target EXCEPT ![m] = Cooling]
         \/ ~ok /\ UNCHANGED <<miner, target>>
      /\ UNCHANGED <<reservoir, event, lockLeft, unbooked, stray>>

miner_withdraw(m) ==
  LET i == miner[m]
      r == redeem(m, i.coll)
  IN  /\ target[m] = 0
      /\ i.acct = Pool => r.ok
      /\ IF i.acct = Pool THEN SetBooks(m, r) ELSE UNCHANGED books
      /\ Unreserve(i.acct, i.coll)
      /\ returned' = [returned EXCEPT ![m] = TRUE]
      /\ overdrawn' = Gone(m, i.acct, i.coll)
      /\ UNCHANGED <<reservoir, event, stakeVars, unbooked, stray>>

(* A miner that left has no service data, or its last file is restored      *)
(* elsewhere: it need not wait for the cooling block.                       *)
restored(m) ==
  /\ target[m] > 0
  /\ target' = [target EXCEPT ![m] = 0]
  /\ UNCHANGED <<reservoirVars, miner, lockLeft, due, history>>

----------------------------------------------------------------------------
(* The next block: the scheduler runs miner_exit, the hook of sminer pays   *)
(* the collateral that is due, the hook of the reservoir ends its event.    *)
Exiting == {m \in Miners : lockLeft[m] = 1 /\ miner[m].state = "lock"}
Returning == {m \in Miners : due[m].left = 1}
DueTo(a) == [m \in Miners |-> IF m \in Returning /\ miner[m].acct = a
                              THEN due[m].amount ELSE 0]
ReturnedTo(a) == Min({reserved[a], SumFunctionOnSet(DueTo(a), Miners)})

Older(m) == IF miner[m].age < 0 \/ miner[m].age > StakingLock THEN miner[m].age
            ELSE miner[m].age + 1

next_block ==
  /\ miner' = [m \in Miners |->
       [miner[m] EXCEPT !.age = Older(m), !.state = IF m \in Exiting THEN "exit" ELSE @]]
  /\ lockLeft' = [m \in Miners |-> IF lockLeft[m] < 0 THEN -1 ELSE lockLeft[m] - 1]
  /\ target' = [m \in Miners |-> IF m \in Exiting THEN Cooling
                                 ELSE IF target[m] > 0 THEN target[m] - 1 ELSE target[m]]
  /\ due' = [m \in Miners |-> IF due[m].left > 1 THEN [due[m] EXCEPT !.left = @ - 1] ELSE NotDue]
  /\ free' = [a \in Accounts |-> free[a] + ReturnedTo(a)]
  /\ reserved' = [a \in Accounts |-> reserved[a] - ReturnedTo(a)]
  /\ LET r(m) == IF m \in Returning /\ miner[m].acct = Pool THEN redeem(m, due[m].amount)
                 ELSE [loan |-> loan[m], book |-> book[m]]
     IN  /\ loan' = [m \in Miners |-> AgedLoan(r(m).loan)]
         /\ book' = [m \in Miners |-> r(m).book]
  /\ returned' = [m \in Miners |-> returned[m] \/ m \in Returning]
  /\ overdrawn' = overdrawn \cup {miner[m].acct : m \in {x \in Returning : returned[x]}}
  /\ AgeEvent
  /\ UNCHANGED <<reservoir, unbooked, stray>>

----------------------------------------------------------------------------
Init ==
  /\ free = [a \in Accounts |-> IF a = Pool THEN 0 ELSE Balance]
  /\ reserved = [a \in Accounts |-> 0]
  /\ ReservoirInit
  /\ miner = [m \in Miners |-> NoMiner]
  /\ lockLeft = [m \in Miners |-> -1]
  /\ due = [m \in Miners |-> NotDue]
  /\ target = [m \in Miners |-> -1]
  /\ returned = [m \in Miners |-> FALSE]
  /\ overdrawn = {} /\ unbooked = 0 /\ stray = {}

Next ==
  \/ \E m \in Miners, n \in Coins, tib \in Tibs :
       m \in Sponsors[m] /\ regnstk(m, n, tib)
  \/ \E m \in Miners, tib \in Tibs : \E a \in Sponsors[m] \ {m} :
       regnstk_assign_staking(m, a, tib)
  \/ \E m \in Miners : register_pois_key(m)
  \/ \E m \in Miners, tib \in Tibs : increase_declaration_space(m, tib)
  \/ \E s, m \in Miners, n \in Coins : increase_collateral(s, m, n)
  \/ \E m \in Miners : receive_reward(m)
  \/ \E m \in Miners : clear_punish(m)
  \/ \E m \in Miners : service_punish(m)
  \/ \E s, m \in Miners : miner_exit_prep(s, m)
  \/ \E m \in Miners : force_miner_exit(m)
  \/ \E m \in Miners : miner_withdraw(m)
  \/ \E m \in Miners : restored(m)
  \/ next_block
  \/ ReservoirNext /\ UNCHANGED <<stakeVars, history>>

Spec == Init /\ [][Next]_vars

----------------------------------------------------------------------------
Infos == [state : States, acct : Accounts, coll : Nat, debt : Nat, tib : Nat,
          age : Nat \cup {-1}, rewarded : BOOLEAN]
TypeOK ==
  /\ free \in [Accounts -> Nat] /\ reserved \in [Accounts -> Nat]
  /\ reservoir \in [free : Nat, borrow : Nat, store : Nat]
  /\ loan \in [Miners -> Loans] /\ book \in [Miners -> Books]
  /\ event \in [on : BOOLEAN, quota : Nat, left : Nat]
  /\ miner \in [Miners -> Infos]
  /\ lockLeft \in [Miners -> Nat \cup {-1}]
  /\ due \in [Miners -> [left : Nat, amount : Nat]]
  /\ target \in [Miners -> Nat \cup {-1}]
  /\ returned \in [Miners -> BOOLEAN]
  /\ overdrawn \in SUBSET Accounts /\ unbooked \in Nat /\ stray \in SUBSET Miners

Staked(a) == [m \in Miners |-> IF miner[m].acct = a /\ ~returned[m] THEN miner[m].coll ELSE 0]

(* Backing of collateral: an account that stakes for miners has reserved at *)
(* least the collateral of all its miners that were not paid back yet, as   *)
(* long as it did not pay for one of them a second time (miner_withdraw     *)
(* keeps the record and can be repeated, and a punishment may follow it).   *)
StakeReserved ==
  \A a \in Miners \ overdrawn : reserved[a] >= SumFunctionOnSet(Staked(a), Miners)

Claims == [m \in Miners |->
  book[m].free + book[m].staking + loan[m].free + loan[m].staking]

(* Solvency of the reservoir: its account holds the free balance and what   *)
(* the passbooks and loans say, less the debts that increase_collateral     *)
(* paid from it without booking them to anyone.                             *)
ReservoirSolvent ==
  free[Pool] + reserved[Pool] + unbooked >=
    reservoir.free + SumFunctionOnSet(Claims, Miners)

(* A locked miner has its exit ahead, so that it does not wait for ever,    *)
(* unless it was locked by naming another miner in miner_exit_prep.         *)
LockLeads == \A m \in Miners \ stray : miner[m].state = "lock" => lockLeft[m] > 0
=============================================================================
