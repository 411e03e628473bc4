-------------------------- MODULE MinerStakeProofs --------------------------
(***************************************************************************)
(* Proofs about MinerStake, for any miners, sponsors, amounts and periods.  *)
(***************************************************************************)
EXTENDS MinerStakeTypes, SumTheorems

(* What falls due is typed.                                                 *)
LEMMA DueTyped ==
  ASSUME TypeOK
  PROVE  DueSummed
<1>1. \A a \in Accounts, m \in Miners : DueTo(a)[m] \in Nat
  BY DEF DueTo, TypeOK
<1> QED BY <1>1, ReservoirAssumption, SumNat DEF DueSummed

(* The inductive invariant.  A record that was never written has no         *)
(* collateral, and what is due to a miner that left is its collateral,      *)
(* which can no longer change.                                              *)
NoneYet == \A m \in Miners : miner[m].state = "none" => miner[m].coll = 0
DueIsStake == \A m \in Miners : due[m].left > 0 =>
                miner[m].state = "offline" /\ due[m].amount = miner[m].coll

StakeInv == TypeOK /\ NoneYet /\ DueIsStake /\ StakeReserved

(* The arithmetic of a fine: what is taken, and what cover is left.         *)
LEMMA TakenBound ==
  ASSUME NEW c \in Nat, NEW n \in Nat
  PROVE  (IF c > n THEN n ELSE c) \in Nat /\ (IF c > n THEN n ELSE c) <= c
OBVIOUS

LEMMA CoverMoves ==
  ASSUME NEW r \in Nat, NEW q \in Nat, NEW sum \in Nat, NEW c \in Nat, NEW d \in Nat,
         r >= sum, q - d >= r - c
  PROVE  q >= sum + d - c
OBVIOUS

LEMMA CoverKept ==
  ASSUME NEW r \in Nat, NEW c \in Nat, NEW d \in Nat, d <= c
  PROVE  r - d >= r - c
OBVIOUS

LEMMA CoverSame == \A r \in Nat : r - 0 >= r - 0
OBVIOUS

LEMMA CoverTaken == \A r, c, d \in Nat : (r - d) - (c - d) >= r - c
OBVIOUS

LEMMA CoverGiven ==
  \A r, c, d \in Nat : (r + d) - (c + d) >= r - c /\ (r + d) - 0 >= r - 0
OBVIOUS

LEMMA RestGrows ==
  \A u, z \in Int : \A a, b \in Nat : a <= b => u + z - a >= u + z - b
OBVIOUS

LEMMA SlackOf ==
  ASSUME NEW h \in Nat, NEW r \in Nat, NEW n \in Nat, h >= r + n
  PROVE  h - r \in Int /\ h - r >= n
OBVIOUS

LEMMA SlackMoves ==
  ASSUME NEW u \in Int, NEW v \in Int, NEW c \in Nat, NEW d \in Nat, NEW n \in Nat,
         v - d >= u - c, u >= n
  PROVE  n + d - c \in Int /\ v >= n + d - c
OBVIOUS

LEMMA SlackIs ==
  ASSUME NEW k \in Nat, NEW s \in Nat, NEW n \in Int, k - s \in Int, k - s >= n
  PROVE  k >= s + n
OBVIOUS

LEMMA Zero ==
  0 \in Nat /\ \A r \in Nat : r - 0 = r /\ r >= 0 /\ (r <= 0 => r = 0) /\ r + 0 = r /\ 0 + r = r
OBVIOUS

(* The part of one miner is at most the sum.                                *)
LEMMA StakedTyped ==
  ASSUME TypeOK, NEW a
  PROVE  /\ \A m \in Miners : Staked(a)[m] \in Nat
         /\ SumFunctionOnSet(Staked(a), Miners) \in Nat
         /\ \A m \in Miners : Staked(a)[m] <= SumFunctionOnSet(Staked(a), Miners)
<1>1. \A m \in Miners : Staked(a)[m] \in Nat
  BY MinerTyped DEF Staked
<1> QED BY <1>1, ReservoirAssumption, SumNat, SumElement

(* When the record of one miner changes, its part of the sum does.          *)
LEMMA StakedChange ==
  ASSUME TypeOK, TypeOK', NEW a, NEW m \in Miners,
         \A x \in Miners \ {m} : /\ miner'[x] = miner[x] /\ returned'[x] = returned[x]
  PROVE  SumFunctionOnSet(Staked(a)', Miners) =
           SumFunctionOnSet(Staked(a), Miners) + Staked(a)'[m] - Staked(a)[m]
<1> DEFINE f == Staked(a)
           g == Staked(a)'
<1>1. \A x \in Miners : f[x] \in Int
  BY StakedTyped
<1>2. \A x \in Miners : g[x] \in Int
  BY DEF TypeOK, Infos, Staked
<1>3. \A x \in Miners \ {m} : f[x] = g[x]
  BY DEF Staked
<1> HIDE DEF f, g
<1>4. SumFunctionOnSet(g, Miners) = SumFunctionOnSet(f, Miners) + g[m] - f[m]
  BY <1>1, <1>2, <1>3, ReservoirAssumption, SumChange
<1> QED BY <1>4 DEF f, g

(* A step that touches one miner keeps the cover when what is reserved falls *)
(* by no more than what the account has staked for that miner.              *)
LEMMA OneMiner ==
  ASSUME StakeInv, TypeOK', NEW m \in Miners, overdrawn \subseteq overdrawn',
         \A x \in Miners \ {m} : /\ miner'[x] = miner[x] /\ returned'[x] = returned[x],
         \A a \in Miners \ overdrawn' :
            reserved'[a] - Staked(a)'[m] >= reserved[a] - Staked(a)[m]
  PROVE  StakeReserved'
<1> SUFFICES ASSUME NEW a \in Miners, a \notin overdrawn'
             PROVE  reserved'[a] >= SumFunctionOnSet(Staked(a)', Miners)
  BY DEF StakeReserved
<1>1. TypeOK /\ reserved[a] >= SumFunctionOnSet(Staked(a), Miners)
  BY DEF StakeInv, StakeReserved
<1>2. SumFunctionOnSet(Staked(a)', Miners) =
        SumFunctionOnSet(Staked(a), Miners) + Staked(a)'[m] - Staked(a)[m]
  BY <1>1, StakedChange
<1>3. SumFunctionOnSet(Staked(a), Miners) \in Nat /\ Staked(a)[m] \in Nat
  BY <1>1, StakedTyped
<1>4. Staked(a)'[m] \in Nat
  BY DEF TypeOK, Infos, Staked
<1>5. reserved[a] \in Nat /\ reserved'[a] \in Nat
  BY <1>1 DEF TypeOK, Accounts
<1>6. reserved'[a] - Staked(a)'[m] >= reserved[a] - Staked(a)[m]
  OBVIOUS
<1>7. reserved'[a] >= SumFunctionOnSet(Staked(a), Miners) + Staked(a)'[m] - Staked(a)[m]
  BY <1>1, <1>3, <1>4, <1>5, <1>6, CoverMoves, Zenon
<1> QED BY <1>2, <1>7, Zenon

(* What an account has reserved covers each of its miners.                  *)
LEMMA Covered ==
  ASSUME StakeInv, NEW m \in Miners, miner[m].acct \in Miners \ overdrawn, ~returned[m]
  PROVE  reserved[miner[m].acct] >= miner[m].coll
<1> DEFINE a == miner[m].acct
<1>1. TypeOK /\ reserved[a] >= SumFunctionOnSet(Staked(a), Miners)
  BY DEF StakeInv, StakeReserved
<1>2. SumFunctionOnSet(Staked(a), Miners) \in Nat /\ Staked(a)[m] <= SumFunctionOnSet(Staked(a), Miners)
  BY <1>1, StakedTyped
<1>3. Staked(a)[m] = miner[m].coll
  BY DEF Staked
<1>4. reserved[a] \in Nat /\ miner[m].coll \in Nat
  BY <1>1, MinerTyped DEF TypeOK
<1> QED BY <1>1, <1>2, <1>3, <1>4

(* A refund: the first one takes what the miner had staked, a later one     *)
(* either finds nothing to take or marks the account.                       *)
LEMMA RefundCovered ==
  ASSUME StakeInv, NEW m \in Miners, Refund(m), TypeOK',
         miner'[m].acct = miner[m].acct, miner'[m].coll = miner[m].coll,
         \A x \in Miners \ {m} : miner'[x] = miner[x]
  PROVE  StakeReserved'
<1> DEFINE b == miner[m].acct
           n == miner[m].coll
<1>1. TypeOK /\ b \in Accounts /\ n \in Nat
  BY MinerTyped DEF StakeInv
<1>2. /\ \A x \in Accounts \ {b} : reserved'[x] = reserved[x]
      /\ reserved[b] >= n => reserved'[b] = reserved[b] - n
      /\ reserved[b] = 0 => reserved'[b] = 0
      /\ overdrawn \subseteq overdrawn'
      /\ returned[m] /\ n > 0 /\ reserved[b] > 0 => b \in overdrawn'
  BY <1>1, RefundStep
<1>3. returned' = [returned EXCEPT ![m] = TRUE] /\ returned \in [Miners -> BOOLEAN]
  BY <1>1 DEF Refund, TypeOK
<1>4. ASSUME NEW a \in Miners, a \notin overdrawn'
      PROVE  reserved'[a] - Staked(a)'[m] >= reserved[a] - Staked(a)[m]
  <2>1. Staked(a)'[m] = 0
    BY <1>3 DEF Staked
  <2>2. reserved[a] \in Nat /\ reserved'[a] \in Nat /\ a \in Accounts
    BY <1>1 DEF TypeOK, Accounts
  <2>3. CASE a # b
    <3>1. reserved'[a] = reserved[a] /\ Staked(a)[m] = 0
      BY <1>2, <2>2, <2>3 DEF Staked
    <3> QED BY <2>1, <2>2, <3>1, CoverSame, Zenon
  <2>4. CASE a = b /\ ~returned[m]
    <3>1. reserved[b] >= n
      BY <1>2, <1>4, <2>4, Covered
    <3>2. Staked(a)[m] = n
      BY <2>4 DEF Staked
    <3> QED BY <1>1, <1>2, <2>1, <2>2, <2>4, <3>1, <3>2
  <2>5. CASE a = b /\ returned[m]
    <3>1. Staked(a)[m] = 0
      BY <2>5 DEF Staked
    <3>2. n = 0 \/ reserved[b] = 0
      BY <1>1, <1>2, <1>4, <2>2, <2>5
    <3>3. reserved'[a] = reserved[a]
      BY <1>1, <1>2, <2>2, <2>5, <3>2
    <3> QED BY <2>1, <2>2, <3>1, <3>3
  <2> QED BY <1>3, <2>3, <2>4, <2>5
<1>5. \A x \in Miners \ {m} : returned'[x] = returned[x]
  BY <1>3
<1> QED BY <1>2, <1>4, <1>5, OneMiner

(* A fine: it is written to the record only if it could be paid, so that the *)
(* collateral falls by what is taken from the account; a fine for a miner   *)
(* that was paid back finds nothing or marks the account.                   *)
LEMMA PunishCovered ==
  ASSUME StakeInv, NEW m \in Miners, NEW n \in Nat, NEW tib, NEW inCall, Challenged(m),
         deposit_punish(m, n, tib, inCall)
  PROVE  StakeInv'
<1> DEFINE i == miner[m]
           b == i.acct
           taken == IF i.coll > n THEN n ELSE i.coll
<1>1. TypeOK /\ i \in Infos /\ b \in Accounts /\ i.coll \in Nat /\ taken \in Nat /\ taken <= i.coll
  <2>1. TypeOK
    BY Zenon DEF StakeInv
  <2>2. i \in Infos /\ b \in Accounts /\ i.coll \in Nat
    BY <2>1, MinerTyped, Zenon
  <2> QED BY <2>1, <2>2, TakenBound, Zenon
<1>2. /\ TypeOK' /\ UNCHANGED <<due, returned>>
      /\ miner' = [miner EXCEPT ![m] = Punished(i, n, tib)] \/ miner' = miner
      /\ \A a \in Accounts \ {b} : reserved'[a] = reserved[a]
      /\ overdrawn \subseteq overdrawn'
      /\ reserved'[b] # reserved[b] =>
           /\ reserved[b] >= taken => reserved'[b] = reserved[b] - taken
           /\ returned[m] /\ taken > 0 /\ reserved[b] > 0 => b \in overdrawn'
           /\ reserved[b] >= taken => miner' = [miner EXCEPT ![m] = Punished(i, n, tib)]
      /\ reserved'[b] <= reserved[b]
  <2>1. TypeOK
    BY <1>1
  <2>2. UNCHANGED <<reservoir, event, lockLeft, due, target, returned, unbooked, stray>>
    BY DEF deposit_punish
  <2>3. due' = due /\ returned' = returned
    BY <2>2
  <2>4. TypeOK' /\ overdrawn \subseteq overdrawn' /\ reserved'[b] <= reserved[b]
    BY <2>1, PunishStep, Zenon
  <2>7. miner' = [miner EXCEPT ![m] = Punished(i, n, tib)] \/ miner' = miner
    BY <2>1, PunishStep
  <2>5. \A a \in Accounts \ {b} : reserved'[a] = reserved[a]
    BY <2>1, PunishStep
  <2>6. reserved'[b] # reserved[b] =>
           /\ reserved[b] >= taken => reserved'[b] = reserved[b] - taken
           /\ returned[m] /\ taken > 0 /\ reserved[b] > 0 => b \in overdrawn'
           /\ reserved[b] >= taken => miner' = [miner EXCEPT ![m] = Punished(i, n, tib)]
    <3>1. reserved'[b] # reserved[b] /\ reserved[b] >= taken => reserved'[b] = reserved[b] - taken
      BY <2>1, PunishStep, Zenon
    <3>2. /\ reserved'[b] # reserved[b] /\ returned[m] /\ taken > 0 /\ reserved[b] > 0
          => b \in overdrawn'
      BY <2>1, PunishStep, Zenon
    <3>3. /\ reserved'[b] # reserved[b] /\ reserved[b] >= taken
          => miner' = [miner EXCEPT ![m] = Punished(i, n, tib)]
      BY <2>1, PunishStep
    <3> HIDE DEF i, b, taken
    <3> QED BY <3>1, <3>2, <3>3, Zenon
  <2> HIDE DEF i, b, taken
  <2> QED BY <2>3, <2>4, <2>5, <2>6, <2>7
<1>3. /\ Punished(i, n, tib).acct = b /\ Punished(i, n, tib).coll = i.coll - taken
      /\ Punished(i, n, tib).state \in {i.state, "frozen"}
  <2>1. i \in Infos
    BY <1>1
  <2> HIDE DEF i
  <2>2. /\ Punished(i, n, tib).acct = i.acct
        /\ Punished(i, n, tib).coll = i.coll - (IF i.coll > n THEN n ELSE i.coll)
        /\ Punished(i, n, tib).state \in {i.state, "frozen"}
    BY <1>1, <2>1, PunishedTyped, Zenon
  <2> QED BY <2>2, Zenon
<1>4. miner \in [Miners -> Infos]
  BY <1>1 DEF TypeOK
<1>5. \A x \in Miners \ {m} : miner'[x] = miner[x] /\ returned'[x] = returned[x]
  BY <1>2, <1>4
<1>6. /\ miner'[m].acct = b /\ miner'[m].coll \in {i.coll, i.coll - taken}
      /\ miner'[m].state \in {i.state, "frozen"}
  BY <1>2, <1>3, <1>4
<1>7. i.state \notin {"none", "offline"}
  BY DEF Challenged
<1>8. NoneYet' /\ DueIsStake'
  <2>1. NoneYet /\ DueIsStake
    BY DEF StakeInv
  <2>2. NoneYet'
    BY <1>5, <1>6, <1>7, <2>1, Zenon DEF NoneYet
  <2>3. DueIsStake'
    BY <1>2, <1>5, <1>6, <1>7, <2>1, Zenon DEF DueIsStake
  <2> QED BY <2>2, <2>3
<1>9. ASSUME NEW a \in Miners, a \notin overdrawn'
      PROVE  reserved'[a] - Staked(a)'[m] >= reserved[a] - Staked(a)[m]
  <2>1. reserved[a] \in Nat /\ reserved'[a] \in Nat /\ a \in Accounts
    BY <1>1, <1>2, Zenon DEF TypeOK, Accounts
  <2>2. Staked(a)[m] \in Nat /\ Staked(a)'[m] \in Nat /\ Staked(a)'[m] <= Staked(a)[m]
    <3>1. Staked(a)[m] = IF b = a /\ ~returned[m] THEN i.coll ELSE 0
      BY Zenon DEF Staked
    <3>2. Staked(a)'[m] = IF miner'[m].acct = a /\ ~returned'[m] THEN miner'[m].coll ELSE 0
      BY Zenon DEF Staked
    <3>3. returned' = returned
      BY <1>2, Zenon
    <3> HIDE DEF b, i, taken
    <3> QED BY <1>1, <1>6, <3>1, <3>2, <3>3
  <2>3. CASE reserved'[a] = reserved[a]
    BY <2>1, <2>2, <2>3, CoverKept, Zenon
  <2>4. CASE reserved'[a] # reserved[a] /\ ~returned[m]
    <3>1. a = b /\ b \in Miners \ overdrawn
      BY <1>2, <1>9, <2>1, <2>4
    <3>2. reserved[b] >= taken
      <4>1. reserved[b] >= i.coll
        BY <2>4, <3>1, Covered
      <4> HIDE DEF b, i, taken
      <4> QED BY <1>1, <2>1, <3>1, <4>1
    <3>3. miner'[m].coll = i.coll - taken
      BY <1>2, <1>3, <1>4, <2>4, <3>1, <3>2, Zenon
    <3>4. Staked(a)[m] = i.coll /\ Staked(a)'[m] = i.coll - taken
      BY <1>2, <1>6, <2>4, <3>1, <3>3, Zenon DEF Staked
    <3>5. reserved'[a] = reserved[a] - taken
      BY <1>2, <2>4, <3>1, <3>2
    <3> HIDE DEF b, i, taken
    <3> QED BY <1>1, <2>1, <3>4, <3>5, CoverTaken, Zenon
  <2>5. CASE reserved'[a] # reserved[a] /\ returned[m]
    <3>1. a = b
      BY <1>2, <2>1, <2>5, Zenon
    <3>2. taken = 0 \/ reserved[b] = 0
      BY <1>1, <1>2, <1>9, <2>1, <2>5, <3>1
    <3>3. /\ reserved'[b] <= reserved[b]
          /\ reserved[b] >= taken => reserved'[b] = reserved[b] - taken
      BY <1>2, <2>5, <3>1, Zenon
    <3> HIDE DEF b, i, taken
    <3>4. CASE taken = 0
      BY <1>1, <2>1, <2>5, <3>1, <3>3, <3>4, Zero, Zenon
    <3>5. CASE reserved[b] = 0
      BY <1>1, <2>1, <2>5, <3>1, <3>3, <3>5, Zero, Zenon
    <3> QED BY <3>2, <3>4, <3>5, Zenon
  <2>6. returned[m] \in BOOLEAN
    BY <1>1, Zenon DEF TypeOK
  <2> QED BY <2>3, <2>4, <2>5, <2>6, Zenon
<1>10. StakeReserved'
  BY <1>2, <1>5, <1>9, OneMiner, Zenon
<1> QED BY <1>2, <1>8, <1>10 DEF StakeInv

(* Steps that leave the accounts, the collateral and the money alone.       *)
LEMMA SameStake ==
  ASSUME StakeInv,
         \A x \in Miners : miner'[x].acct = miner[x].acct /\ miner'[x].coll = miner[x].coll,
         reserved' = reserved, returned' = returned, overdrawn' = overdrawn
  PROVE  StakeReserved'
<1>1. \A a : Staked(a)' = Staked(a)
  BY DEF Staked
<1> QED BY <1>1 DEF StakeInv, StakeReserved

(* A registration reserves the collateral it records.                       *)
LEMMA RegisterCovered ==
  ASSUME StakeInv, NEW m \in Miners, NEW n \in Nat, NEW tib \in Nat, regnstk(m, n, tib)
  PROVE  StakeInv'
<1>1. TypeOK /\ NoneYet /\ DueIsStake
  BY DEF StakeInv
<1>2. TypeOK'
  BY <1>1, RegisterTyped
<1>3. /\ miner[m].state = "none" /\ Reserve(m, n)
      /\ miner' = [miner EXCEPT ![m] = Registered(m, n, tib, 0)]
      /\ due' = due /\ returned' = returned /\ overdrawn' = overdrawn
  BY DEF regnstk, history
<1>4. /\ miner'[m].acct = m /\ miner'[m].coll = n /\ miner'[m].state = "not ready"
      /\ \A x \in Miners \ {m} : miner'[x] = miner[x]
  BY <1>1, <1>3, ZenonT(30) DEF TypeOK, Registered
<1>5. NoneYet' /\ DueIsStake'
  BY <1>1, <1>3, <1>4, Zenon DEF NoneYet, DueIsStake
<1>6. ASSUME NEW a \in Miners, a \notin overdrawn'
      PROVE  reserved'[a] - Staked(a)'[m] >= reserved[a] - Staked(a)[m]
  <2>1. Staked(a)[m] = 0
    BY <1>1, <1>3 DEF Staked, NoneYet
  <2>2. reserved[a] \in Nat /\ reserved' = [reserved EXCEPT ![m] = @ + n]
        /\ reserved \in [Accounts -> Nat] /\ a \in Accounts
    BY <1>1, <1>3 DEF TypeOK, Accounts, Reserve
  <2>3. CASE a = m
    <3>1. reserved'[a] = reserved[a] + n
      BY <2>2, <2>3
    <3>2. Staked(a)'[m] = n \/ Staked(a)'[m] = 0
      BY <1>4, Zenon DEF Staked
    <3> QED BY <2>1, <2>2, <3>1, <3>2
  <2>4. CASE a # m
    <3>1. reserved'[a] = reserved[a] /\ Staked(a)'[m] = 0
      BY <1>4, <2>2, <2>4, Zenon DEF Staked
    <3> QED BY <2>1, <2>2, <3>1
  <2> QED BY <2>3, <2>4
<1>7. StakeReserved'
  BY <1>2, <1>3, <1>4, <1>6, OneMiner, Zenon
<1> QED BY <1>2, <1>5, <1>7 DEF StakeInv

(* An assigned registration records none, or the reservoir reserves it.     *)
LEMMA AssignCovered ==
  ASSUME StakeInv, NEW m \in Miners, NEW b \in Accounts, NEW tib \in Nat,
         regnstk_assign_staking(m, b, tib)
  PROVE  StakeInv'
<1> DEFINE need == tib * BaseUnit
           new == IF b = Pool THEN Registered(Pool, need, tib, 0) ELSE Registered(b, 0, tib, -1)
<1>1. TypeOK /\ NoneYet /\ DueIsStake
  BY DEF StakeInv
<1>2. TypeOK'
  BY <1>1, AssignTyped
<1>3. /\ miner[m].state = "none" /\ miner' = [miner EXCEPT ![m] = new]
      /\ due' = due /\ returned' = returned /\ overdrawn' = overdrawn
      /\ reserved' = reserved \/ reserved' = [reserved EXCEPT ![Pool] = @ + need]
  BY DEF regnstk_assign_staking, history, Reserve, money
<1>4. /\ new.acct = b /\ (b # Pool => new.coll = 0) /\ new.state = "not ready"
  BY DEF Registered
<1> HIDE DEF new, need
<1>5. /\ miner'[m] = new /\ \A x \in Miners \ {m} : miner'[x] = miner[x]
  BY <1>1, <1>3 DEF TypeOK
<1>6. NoneYet' /\ DueIsStake'
  BY <1>1, <1>3, <1>4, <1>5, ZenonT(30) DEF NoneYet, DueIsStake
<1>7. ASSUME NEW a \in Miners, a \notin overdrawn'
      PROVE  reserved'[a] - Staked(a)'[m] >= reserved[a] - Staked(a)[m]
  <2>1. Staked(a)[m] = 0
    BY <1>1, <1>3 DEF Staked, NoneYet
  <2>2. a # Pool
    BY ReservoirAssumption
  <2>3. reserved'[a] = reserved[a] /\ reserved[a] \in Nat
    BY <1>1, <1>3, <2>2 DEF TypeOK, Accounts
  <2>4. Staked(a)'[m] = 0
    BY <1>4, <1>5, <2>2, Zenon DEF Staked
  <2> QED BY <2>1, <2>3, <2>4, CoverSame, Zenon
<1>8. StakeReserved'
  BY <1>2, <1>3, <1>5, <1>7, OneMiner
<1> QED BY <1>2, <1>6, <1>8 DEF StakeInv

(* What increase_collateral adds to the record it also reserves.            *)
LEMMA CollateralCovered ==
  ASSUME StakeInv, NEW s \in Miners, NEW m \in Miners, NEW n \in Nat,
         increase_collateral(s, m, n)
  PROVE  StakeInv'
<1> DEFINE i == miner[m]
           pay == Repaid(i, n)
           rest == n - pay
<1>1. TypeOK /\ NoneYet /\ DueIsStake
  BY DEF StakeInv
<1>2. TypeOK'
  BY <1>1, CollateralTyped
<1>3. i \in Infos /\ i.acct \in Accounts /\ i.debt \in Nat /\ i.coll \in Nat
  BY <1>1, MinerTyped DEF Infos
<1>4. rest \in Nat
  BY <1>3 DEF Repaid
<1>5. /\ i.state \notin {"none", "offline"}
      /\ reserved' = [reserved EXCEPT ![i.acct] = @ + rest]
      /\ due' = due /\ returned' = returned /\ overdrawn' = overdrawn
      /\ \A x \in Miners \ {m} : miner'[x] = miner[x]
  BY <1>1 DEF increase_collateral, TypeOK
<1>6. /\ miner'[m].acct = i.acct /\ miner'[m].coll = i.coll + rest
      /\ miner'[m].state \in {i.state, "positive"}
  <2> DEFINE st == IF i.state = "frozen" /\ Enough([i EXCEPT !.coll = @ + rest, !.debt = @ - pay, !.age = 0])
                   THEN "positive" ELSE i.state
  <2>1. miner' = [miner EXCEPT ![m] =
           [i EXCEPT !.coll = i.coll + rest, !.debt = i.debt - pay, !.age = 0, !.state = st]]
    BY <1>3 DEF increase_collateral, Infos
  <2>2. st \in {i.state, "positive"}
    OBVIOUS
  <2> HIDE DEF st, rest, pay
  <2>3. miner'[m] = [i EXCEPT !.coll = i.coll + rest, !.debt = i.debt - pay, !.age = 0, !.state = st]
    BY <1>1, <2>1 DEF TypeOK
  <2> QED BY <1>3, <2>2, <2>3 DEF Infos
<1> HIDE DEF rest, pay
<1>7. NoneYet' /\ DueIsStake'
  BY <1>1, <1>5, <1>6 DEF NoneYet, DueIsStake
<1>8. ASSUME NEW a \in Miners, a \notin overdrawn'
      PROVE  reserved'[a] - Staked(a)'[m] >= reserved[a] - Staked(a)[m]
  <2>1. reserved[a] \in Nat /\ reserved \in [Accounts -> Nat] /\ a \in Accounts
    BY <1>1 DEF TypeOK, Accounts
  <2>2. CASE a = i.acct
    <3>1. reserved'[a] = reserved[a] + rest
      BY <1>5, <2>1, <2>2, Zenon
    <3>2. \/ Staked(a)'[m] = i.coll + rest /\ Staked(a)[m] = i.coll
          \/ Staked(a)'[m] = 0 /\ Staked(a)[m] = 0
      BY <1>5, <1>6, <2>2, Zenon DEF Staked
    <3> HIDE DEF i
    <3> QED BY <1>3, <1>4, <2>1, <3>1, <3>2, CoverGiven, Zenon
  <2>3. CASE a # i.acct
    <3>1. reserved'[a] = reserved[a] /\ Staked(a)'[m] = 0 /\ Staked(a)[m] = 0
      BY <1>5, <1>6, <2>1, <2>3, Zenon DEF Staked
    <3> QED BY <2>1, <3>1
  <2> QED BY <2>2, <2>3
<1>9. StakeReserved'
  BY <1>2, <1>5, <1>8, OneMiner
<1> QED BY <1>2, <1>7, <1>9 DEF StakeInv

(* miner_withdraw leaves the records alone.                                 *)
LEMMA WithdrawCovered ==
  ASSUME StakeInv, NEW m \in Miners, miner_withdraw(m)
  PROVE  StakeInv'
<1>1. TypeOK /\ NoneYet /\ DueIsStake
  BY DEF StakeInv
<1>2. TypeOK' /\ Refund(m) /\ miner' = miner /\ due' = due
  BY <1>1, WithdrawStep DEF stakeVars
<1>3. NoneYet' /\ DueIsStake'
  BY <1>1, <1>2 DEF NoneYet, DueIsStake
<1>4. StakeReserved'
  BY <1>2, RefundCovered
<1> QED BY <1>2, <1>3, <1>4 DEF StakeInv

(* A forced exit gives the collateral back or enters it as due, and from    *)
(* then on the record of the miner does not change.                         *)
LEMMA ForceExitCovered ==
  ASSUME StakeInv, NEW m \in Miners, force_miner_exit(m)
  PROVE  StakeInv'
<1>1. TypeOK /\ NoneYet /\ DueIsStake /\ miner \in [Miners -> Infos] /\ miner[m] \in Infos
      /\ due \in [Miners -> [left : Nat, amount : Nat]]
  BY DEF StakeInv, TypeOK
<1>2. /\ TypeOK' /\ Challenged(m)
      /\ Refund(m) \/ UNCHANGED <<money, returned, overdrawn>>
      /\ \/ due' = due
         \/ \E wait \in Nat \ {0} :
              /\ due' = [due EXCEPT ![m] = [left |-> wait, amount |-> miner[m].coll]]
              /\ miner' = [miner EXCEPT ![m].state = "offline"]
      /\ miner' = miner \/ miner' = [miner EXCEPT ![m].state = "offline"]
  BY <1>1, ForceExitStep
<1>3. \A x \in Miners \ {m} : miner'[x] = miner[x] /\ due'[x] = due[x]
  BY <1>1, <1>2
<1>4. /\ miner'[m].acct = miner[m].acct /\ miner'[m].coll = miner[m].coll
      /\ miner'[m].state \in {miner[m].state, "offline"}
  BY <1>1, <1>2 DEF Infos
<1>5. miner[m].state \notin {"none", "offline"}
  BY <1>2 DEF Challenged
<1>6. NoneYet'
  BY <1>1, <1>3, <1>4, <1>5 DEF NoneYet
<1>7. DueIsStake'
  <2>1. due[m].left = 0
    BY <1>1, <1>5 DEF DueIsStake
  <2>2. CASE due' = due
    BY <1>1, <1>3, <2>1, <2>2 DEF DueIsStake
  <2>3. ASSUME NEW wait \in Nat \ {0},
               due' = [due EXCEPT ![m] = [left |-> wait, amount |-> miner[m].coll]],
               miner' = [miner EXCEPT ![m].state = "offline"]
        PROVE  DueIsStake'
    <3>1. due'[m].amount = miner[m].coll /\ miner'[m].state = "offline"
      BY <1>1, <2>3 DEF Infos
    <3> QED BY <1>1, <1>3, <1>4, <3>1 DEF DueIsStake
  <2> QED BY <1>2, <2>2, <2>3
<1>8. CASE Refund(m)
  <2>1. StakeReserved'
    BY <1>2, <1>3, <1>4, <1>8, RefundCovered, Zenon
  <2> QED BY <1>2, <1>6, <1>7, <2>1, Zenon DEF StakeInv
<1>9. CASE UNCHANGED <<money, returned, overdrawn>>
  <2>1. StakeReserved'
    BY <1>3, <1>4, <1>9, SameStake DEF money
  <2> QED BY <1>2, <1>6, <1>7, <2>1 DEF StakeInv
<1> QED BY <1>2, <1>8, <1>9

(* The block in which collateral is due: an account that has not paid twice *)
(* has it all reserved, and gives back exactly what it no longer backs.     *)
LEMMA BlockCovered ==
  ASSUME StakeInv, next_block
  PROVE  StakeInv'
<1>1. TypeOK /\ NoneYet /\ DueIsStake
  BY DEF StakeInv
<1>2. /\ TypeOK'
      /\ \A m \in Miners : /\ miner'[m].acct = miner[m].acct /\ miner'[m].coll = miner[m].coll
                           /\ miner'[m].state = IF m \in Exiting THEN "exit" ELSE miner[m].state
  BY <1>1, BlockStep, DueTyped
<1>3. /\ reserved' = [a \in Accounts |-> reserved[a] - ReturnedTo(a)]
      /\ due' = [m \in Miners |-> IF due[m].left > 1 THEN [due[m] EXCEPT !.left = @ - 1] ELSE NotDue]
      /\ returned' = [m \in Miners |-> returned[m] \/ m \in Returning]
      /\ overdrawn' = overdrawn \cup {miner[m].acct : m \in {x \in Returning : returned[x]}}
  BY Zenon DEF next_block
<1>4. NoneYet'
  BY <1>1, <1>2 DEF NoneYet
<1>5. DueIsStake'
  <2> SUFFICES ASSUME NEW m \in Miners, due'[m].left > 0
               PROVE  miner'[m].state = "offline" /\ due'[m].amount = miner'[m].coll
    BY DEF DueIsStake
  <2>1. due[m] \in [left : Nat, amount : Nat]
    BY <1>1 DEF TypeOK
  <2>2. due[m].left > 1 /\ due'[m].amount = due[m].amount
    BY <1>3, <2>1 DEF NotDue
  <2>3. miner[m].state = "offline" /\ due[m].amount = miner[m].coll
    BY <1>1, <2>1, <2>2 DEF DueIsStake
  <2>4. m \notin Exiting
    BY <2>3 DEF Exiting
  <2> QED BY <1>2, <2>2, <2>3, <2>4
<1>6. ASSUME NEW a \in Miners, a \notin overdrawn'
      PROVE  reserved'[a] >= SumFunctionOnSet(Staked(a)', Miners)
  <2> DEFINE f == DueTo(a)
             g == Staked(a)'
             h == Staked(a)
             D == SumFunctionOnSet(f, Miners)
             G == SumFunctionOnSet(g, Miners)
             H == SumFunctionOnSet(h, Miners)
  <2>1. ASSUME NEW x \in Miners PROVE f[x] \in Nat /\ g[x] \in Nat /\ h[x] = f[x] + g[x]
    <3>1. due[x] \in [left : Nat, amount : Nat] /\ miner[x].coll \in Nat
      BY <1>1, MinerTyped, Zenon DEF TypeOK
    <3>2. x \in Returning => due[x].amount = miner[x].coll
      BY <1>1, <3>1 DEF Returning, DueIsStake
    <3>3. x \in Returning /\ miner[x].acct = a => ~returned[x]
      BY <1>3, <1>6
    <3>4. returned'[x] = (returned[x] \/ x \in Returning)
      BY <1>3
    <3>5. f[x] = IF x \in Returning /\ miner[x].acct = a THEN miner[x].coll ELSE 0
      BY <3>2 DEF DueTo
    <3>6. g[x] = IF miner[x].acct = a /\ ~returned[x] /\ x \notin Returning THEN miner[x].coll ELSE 0
      BY <1>2, <3>4, Zenon DEF Staked
    <3>7. h[x] = IF miner[x].acct = a /\ ~returned[x] THEN miner[x].coll ELSE 0
      BY DEF Staked
    <3> HIDE DEF f, g, h
    <3> QED BY <3>1, <3>3, <3>5, <3>6, <3>7, Zero, Zenon
  <2>2. H <= reserved[a] /\ reserved[a] \in Nat /\ a \in Accounts
    BY <1>1, <1>3, <1>6 DEF StakeInv, StakeReserved, TypeOK, Accounts
  <2>3. reserved'[a] = reserved[a] - ReturnedTo(a) /\ ReturnedTo(a) = Min({reserved[a], D})
    BY <1>3, <2>2 DEF ReturnedTo
  <2> HIDE DEF f, g, h
  <2>4. D \in Nat /\ G \in Nat /\ H = D + G
    BY <2>1, ReservoirAssumption, SumNat, SumPlus
  <2> HIDE DEF D, G, H
  <2>5. Min({reserved[a], D}) = D
    BY <2>2, <2>4, MinPair
  <2>6. reserved'[a] >= G
    BY <2>2, <2>3, <2>4, <2>5
  <2> QED BY <2>6 DEF G, g
<1>7. StakeReserved'
  BY <1>6 DEF StakeReserved
<1> QED BY <1>2, <1>4, <1>5, <1>7 DEF StakeInv

(* Hence they keep the cover.                                               *)
LEMMA MinorCovered ==
  ASSUME StakeInv, NEW m \in Miners, Minor(m)
  PROVE  StakeInv'
<1>1. TypeOK /\ NoneYet /\ DueIsStake
  BY DEF StakeInv
<1>2. /\ TypeOK' /\ UNCHANGED <<reservoirVars, lockLeft, due, target, history>>
      /\ \A x \in Miners \ {m} : miner'[x] = miner[x]
      /\ miner'[m].acct = miner[m].acct /\ miner'[m].coll = miner[m].coll
      /\ miner[m].state \notin {"none", "offline", "lock"}
      /\ miner'[m].state \in {miner[m].state, "positive", "frozen"}
  BY <1>1, MinorStep, Zenon
<1>3. due' = due /\ reserved' = reserved /\ returned' = returned /\ overdrawn' = overdrawn
  BY <1>2 DEF reservoirVars, history
<1>4. NoneYet' /\ DueIsStake'
  BY <1>1, <1>2, <1>3, Zenon DEF NoneYet, DueIsStake
<1>5. StakeReserved'
  BY <1>2, <1>3, SameStake
<1> QED BY <1>2, <1>4, <1>5 DEF StakeInv

(* So does miner_exit_prep.                                                 *)
LEMMA ExitPrepCovered ==
  ASSUME StakeInv, NEW s \in Miners, NEW m \in Miners, miner_exit_prep(s, m)
  PROVE  StakeInv'
<1>1. TypeOK /\ NoneYet /\ DueIsStake /\ miner \in [Miners -> Infos]
  BY DEF StakeInv, TypeOK
<1>2. TypeOK'
  BY <1>1, ExitPrepTyped
<1>3. /\ miner[s].state = "positive" /\ miner' = [miner EXCEPT ![s].state = "lock"]
      /\ due' = due /\ reserved' = reserved /\ returned' = returned /\ overdrawn' = overdrawn
  BY DEF miner_exit_prep, reservoirVars
<1>4. /\ \A x \in Miners \ {s} : miner'[x] = miner[x]
      /\ miner'[s].acct = miner[s].acct /\ miner'[s].coll = miner[s].coll
      /\ miner'[s].state = "lock"
  BY <1>1, <1>3 DEF Infos
<1>5. NoneYet' /\ DueIsStake'
  BY <1>1, <1>3, <1>4 DEF NoneYet, DueIsStake
<1>6. StakeReserved'
  BY <1>3, <1>4, SameStake
<1> QED BY <1>2, <1>5, <1>6, Zenon DEF StakeInv

(* The invariant holds at the start,                                        *)
LEMMA InitStake == Init => StakeInv
<1> SUFFICES ASSUME Init PROVE StakeInv
  OBVIOUS
<1>1. NoMiner \in Infos /\ NoMiner.coll = 0 /\ NoLoan \in Loans
      /\ [free |-> 0, staking |-> 0] \in Books /\ NotDue \in [left : Nat, amount : Nat]
      /\ NotDue.left = 0
  BY DEF NoMiner, Infos, States, Accounts, NoLoan, Loans, Books, NotDue
<1>2. TypeOK
  BY <1>1, StakeAssumption, Zenon DEF Init, ReservoirInit, TypeOK, NoEvent
<1>3. NoneYet /\ DueIsStake
  BY <1>1 DEF Init, NoneYet, DueIsStake
<1>4. StakeReserved
  <2> SUFFICES ASSUME NEW a \in Miners PROVE reserved[a] >= SumFunctionOnSet(Staked(a), Miners)
    BY DEF StakeReserved
  <2>1. \A m \in Miners : Staked(a)[m] = 0
    BY <1>1 DEF Staked, Init
  <2>2. SumFunctionOnSet(Staked(a), Miners) = 0
    BY <2>1, ReservoirAssumption, SumZero
  <2>3. reserved[a] = 0
    BY DEF Init, Accounts
  <2> QED BY <2>2, <2>3
<1> QED BY <1>2, <1>3, <1>4 DEF StakeInv

(* and every step keeps it.                                                 *)
LEMMA StakeStep == StakeInv /\ [Next]_vars => StakeInv'
<1> SUFFICES ASSUME StakeInv, [Next]_vars PROVE StakeInv'
  OBVIOUS
<1>1. TypeOK /\ NoneYet /\ DueIsStake /\ StakeReserved
  BY Zenon DEF StakeInv
<1>2. ASSUME NEW m \in Miners, NEW n \in Coins, NEW tib \in Tibs, regnstk(m, n, tib)
      PROVE  StakeInv'
  BY <1>2, RegisterCovered, ReservoirAssumption, StakeAssumption
<1>3. ASSUME NEW m \in Miners, NEW tib \in Tibs, NEW a \in Sponsors[m] \ {m},
             regnstk_assign_staking(m, a, tib)
      PROVE  StakeInv'
  <2>1. a \in Accounts /\ tib \in Nat
    BY StakeAssumption
  <2> QED BY <1>3, <2>1, AssignCovered
<1>4. ASSUME NEW m \in Miners, Minor(m) PROVE StakeInv'
  BY <1>4, MinorCovered
<1>5. ASSUME NEW s \in Miners, NEW m \in Miners, NEW n \in Coins, increase_collateral(s, m, n)
      PROVE  StakeInv'
  BY <1>5, CollateralCovered, ReservoirAssumption
<1>6. ASSUME NEW m \in Miners, clear_punish(m) \/ service_punish(m) PROVE StakeInv'
  <2>1. PICK n \in Nat, tib \in Nat, inCall \in BOOLEAN :
          Challenged(m) /\ deposit_punish(m, n, tib, inCall)
    BY <1>1, <1>6, Fines
  <2> QED BY <2>1, PunishCovered
<1>7. ASSUME NEW s \in Miners, NEW m \in Miners, miner_exit_prep(s, m) PROVE StakeInv'
  BY <1>7, ExitPrepCovered
<1>8. ASSUME NEW m \in Miners, force_miner_exit(m) PROVE StakeInv'
  BY <1>8, ForceExitCovered
<1>9. ASSUME NEW m \in Miners, miner_withdraw(m) PROVE StakeInv'
  BY <1>9, WithdrawCovered, Zenon
<1>10. ASSUME NEW m \in Miners, restored(m) PROVE StakeInv'
  <2>1. TypeOK' /\ UNCHANGED <<reserved, miner, due, returned, overdrawn>>
    BY <1>1, <1>10, RestoredTyped DEF reservoirVars, history
  <2>2. StakeReserved'
    BY <2>1, SameStake
  <2> QED BY <1>1, <2>1, <2>2 DEF StakeInv, NoneYet, DueIsStake
<1>11. CASE next_block
  BY <1>11, BlockCovered
<1>12. ASSUME ReservoirNext, UNCHANGED <<stakeVars, history>> PROVE StakeInv'
  <2>1. TypeOK' /\ reserved' = reserved
    BY <1>1, <1>12, ReservoirStep, Zenon
  <2>2. UNCHANGED <<miner, due, returned, overdrawn>>
    BY <1>12 DEF stakeVars, history
  <2>3. StakeReserved'
    BY <2>1, <2>2, SameStake, Zenon
  <2> QED BY <1>1, <2>1, <2>2, <2>3 DEF StakeInv, NoneYet, DueIsStake
<1>13. CASE UNCHANGED vars
  <2>1. UNCHANGED <<free, reserved, reservoir, loan, book, event, miner, lockLeft, due, target,
                    returned, overdrawn, unbooked, stray>>
    BY <1>13, Zenon DEF vars, reservoirVars, stakeVars, history
  <2>2. TypeOK'
    BY <1>1, <2>1, Zenon DEF TypeOK
  <2>3. StakeReserved'
    BY <2>1, SameStake
  <2> QED BY <1>1, <2>1, <2>2, <2>3 DEF StakeInv, NoneYet, DueIsStake
<1> QED BY <1>2, <1>3, <1>4, <1>5, <1>6, <1>7, <1>8, <1>9, <1>10, <1>11, <1>12, <1>13, Zenon
        DEF Next, Minor

(* Every variable keeps its type: in particular no balance, no claim and no *)
(* collateral that is computed by a subtraction goes below zero.            *)
THEOREM TypeCorrect == Spec => []TypeOK
<1>1. StakeInv => TypeOK
  BY DEF StakeInv
<1> QED BY <1>1, InitStake, StakeStep, PTL DEF Spec

(* At every moment an account that did not pay for the same miner twice has *)
(* reserved the collateral of all its miners, for any number of miners and  *)
(* sponsors and any amounts.                                                *)
THEOREM StakeSafe == Spec => []StakeReserved
<1>1. StakeInv => StakeReserved
  BY Zenon DEF StakeInv
<1> QED BY <1>1, InitStake, StakeStep, PTL DEF Spec

-----------------------------------------------------------------------------
(* Solvency of the reservoir.                                               *)
LEMMA ClaimsTyped ==
  ASSUME TypeOK
  PROVE  /\ \A m \in Miners : Claims[m] = Claim(book[m], loan[m]) /\ Claims[m] \in Nat
         /\ SumFunctionOnSet(Claims, Miners) \in Nat
         /\ free[Pool] \in Nat /\ reserved[Pool] \in Nat /\ unbooked \in Nat /\ reservoir.free \in Nat
<1>1. \A m \in Miners : Claims[m] = Claim(book[m], loan[m]) /\ Claims[m] \in Nat
  BY MinerTyped DEF Claims, Claim, Books, Loans
<1>2. SumFunctionOnSet(Claims, Miners) \in Nat
  BY <1>1, ReservoirAssumption, SumNat, Zenon
<1> QED BY <1>1, <1>2, Zenon DEF TypeOK, Accounts

(* The same after a step, of which the provers need the primed form.        *)
LEMMA ClaimsTypedNext ==
  ASSUME TypeOK'
  PROVE  /\ \A m \in Miners : Claims'[m] = Claim(book'[m], loan'[m]) /\ Claims'[m] \in Nat
         /\ SumFunctionOnSet(Claims', Miners) \in Nat
         /\ free'[Pool] \in Nat /\ reserved'[Pool] \in Nat /\ unbooked' \in Nat /\ reservoir'.free \in Nat
<1>1. loan' \in [Miners -> Loans] /\ book' \in [Miners -> Books]
  BY DEF TypeOK
<1>2. \A m \in Miners : Claims'[m] = Claim(book'[m], loan'[m]) /\ Claims'[m] \in Nat
  BY <1>1 DEF Claims, Claim, Books, Loans
<1>3. SumFunctionOnSet(Claims', Miners) \in Nat
  BY <1>2, ReservoirAssumption, SumNat
<1> QED BY <1>2, <1>3 DEF TypeOK, Accounts

(* A step that changes the books of one miner keeps the reservoir solvent if *)
(* its account gains at least what the claims gain.                         *)
LEMMA OneClaim ==
  ASSUME TypeOK, TypeOK', ReservoirSolvent, NEW m \in Miners,
         \A x \in Miners \ {m} : Claim(book'[x], loan'[x]) = Claim(book[x], loan[x]),
         free'[Pool] + reserved'[Pool] + unbooked' - reservoir'.free - Claim(book'[m], loan'[m])
           >= free[Pool] + reserved[Pool] + unbooked - reservoir.free - Claim(book[m], loan[m])
  PROVE  ReservoirSolvent'
<1> DEFINE f == Claims
           g == Claims'
           F == SumFunctionOnSet(f, Miners)
           G == SumFunctionOnSet(g, Miners)
<1>1. /\ \A x \in Miners : f[x] = Claim(book[x], loan[x]) /\ f[x] \in Nat
      /\ F \in Nat
      /\ free[Pool] \in Nat /\ reserved[Pool] \in Nat /\ unbooked \in Nat /\ reservoir.free \in Nat
  BY ClaimsTyped, Zenon
<1>2. /\ \A x \in Miners : g[x] = Claim(book'[x], loan'[x]) /\ g[x] \in Nat
      /\ G \in Nat
      /\ free'[Pool] \in Nat /\ reserved'[Pool] \in Nat /\ unbooked' \in Nat /\ reservoir'.free \in Nat
  BY ClaimsTypedNext
<1>3. free[Pool] + reserved[Pool] + unbooked >= reservoir.free + F
  BY Zenon DEF ReservoirSolvent
<1>4. SUFFICES free'[Pool] + reserved'[Pool] + unbooked' >= reservoir'.free + G
  BY Zenon DEF ReservoirSolvent
<1> HIDE DEF f, g
<1>5. G = F + g[m] - f[m]
  <2>1. \A x \in Miners : f[x] \in Int /\ g[x] \in Int
    BY <1>1, <1>2, SMTT(20)
  <2>2. \A x \in Miners \ {m} : f[x] = g[x]
    BY <1>1, <1>2, SMTT(20)
  <2>3. IsFiniteSet(Miners)
    BY ReservoirAssumption
  <2> QED BY <2>1, <2>2, <2>3, SumChange, ZenonT(30)
<1> HIDE DEF F, G
<1>6. f[m] = Claim(book[m], loan[m]) /\ f[m] \in Nat /\ g[m] = Claim(book'[m], loan'[m]) /\ g[m] \in Nat
  BY <1>1, <1>2
<1> DEFINE h == free[Pool] + reserved[Pool] + unbooked
           k == free'[Pool] + reserved'[Pool] + unbooked'
           r == reservoir.free
           s == reservoir'.free
           c == Claim(book[m], loan[m])
           d == Claim(book'[m], loan'[m])
<1>7. d \in Nat /\ c \in Nat
  BY <1>6, Zenon
<1>8. F \in Nat
  BY <1>1
<1>9. h \in Nat /\ k \in Nat /\ r \in Nat /\ s \in Nat
  BY <1>1, <1>2
<1>10. h >= r + F
  BY <1>3, Zenon
<1>11. k >= s + G
  <2>1. k - s - d >= h - r - c
    BY <1>1, <1>2, <1>7
  <2>2. G = F + d - c
    BY <1>5, <1>6, Zenon
  <2> HIDE DEF h, k, r, s, c, d
  <2>3. h - r \in Int /\ h - r >= F
    BY <1>8, <1>9, <1>10, SlackOf, Zenon
  <2>4. k - s \in Int
    BY <1>9
  <2>5. G \in Int /\ k - s >= G
    BY <1>7, <1>8, <2>1, <2>2, <2>3, <2>4, SlackMoves, Zenon
  <2> QED BY <1>9, <2>4, <2>5, SlackIs, Zenon
<1> QED BY <1>11, Zenon

(* So does a step that changes no sum.                                      *)
LEMMA SameClaims ==
  ASSUME TypeOK, TypeOK', ReservoirSolvent,
         \A x \in Miners : Claim(book'[x], loan'[x]) = Claim(book[x], loan[x]),
         free'[Pool] + reserved'[Pool] = free[Pool] + reserved[Pool],
         unbooked' = unbooked, reservoir' = reservoir
  PROVE  ReservoirSolvent'
<1>1. \A x \in Miners : Claims'[x] = Claims[x]
  BY ClaimsTyped, ClaimsTypedNext, Zenon
<1>2. SumFunctionOnSet(Claims', Miners) = SumFunctionOnSet(Claims, Miners)
  BY <1>1, ReservoirAssumption, SumSame
<1> QED BY <1>2, ClaimsTyped, ClaimsTypedNext DEF ReservoirSolvent

(* increase_collateral of a miner the reservoir stakes for: the part that   *)
(* pays the debt leaves the account and is counted as unbooked.             *)
LEMMA CollateralSolvent ==
  ASSUME TypeOK, TypeOK', ReservoirSolvent, NEW s \in Miners, NEW m \in Miners, NEW n \in Nat,
         increase_collateral(s, m, n)
  PROVE  ReservoirSolvent'
<1> DEFINE i == miner[m]
           pay == Repaid(i, n)
           rest == n - pay
<1>1. i \in Infos /\ i.acct \in Accounts /\ i.debt \in Nat
  BY MinerTyped DEF Infos
<1>2. pay \in Nat /\ rest \in Nat /\ rest + pay = n
  BY <1>1 DEF Repaid
<1>3. /\ i.acct = Pool => staking(m, rest).ok
      /\ IF i.acct = Pool THEN SetBooks(m, staking(m, rest)) ELSE UNCHANGED books
      /\ free' = [free EXCEPT ![i.acct] = @ - n]
      /\ reserved' = [reserved EXCEPT ![i.acct] = @ + rest]
      /\ unbooked' = IF i.acct = Pool THEN unbooked + pay ELSE unbooked
      /\ reservoir' = reservoir
  BY DEF increase_collateral
<1>4. /\ free \in [Accounts -> Nat] /\ reserved \in [Accounts -> Nat] /\ Pool \in Accounts
      /\ unbooked \in Nat /\ reservoir.free \in Nat
      /\ loan \in [Miners -> Loans] /\ book \in [Miners -> Books]
  BY DEF TypeOK, Accounts
<1> HIDE DEF rest, pay, i
<1>5. CASE i.acct = Pool
  <2> DEFINE b == staking(m, rest)
  <2>1. b.loan \in Loans /\ b.book \in Books /\ Claim(b.book, b.loan) <= Claim(book[m], loan[m])
    BY <1>2, <1>3, <1>5, StakingBooks, ZenonT(30)
  <2>2. loan' = [loan EXCEPT ![m] = b.loan] /\ book' = [book EXCEPT ![m] = b.book]
    BY <1>3, <1>5 DEF SetBooks
  <2> HIDE DEF b
  <2>3. /\ loan'[m] = b.loan /\ book'[m] = b.book
        /\ \A x \in Miners \ {m} : loan'[x] = loan[x] /\ book'[x] = book[x]
    BY <1>4, <2>2
  <2>4. /\ free'[Pool] = free[Pool] - n /\ reserved'[Pool] = reserved[Pool] + rest
        /\ unbooked' = unbooked + pay
    BY <1>3, <1>4, <1>5, Zenon
  <2>5. Claim(book[m], loan[m]) \in Nat /\ Claim(b.book, b.loan) \in Nat
    BY <1>4, <2>1 DEF Claim, Books, Loans
  <2>6. free[Pool] \in Nat /\ reserved[Pool] \in Nat
    BY <1>4
  <2>7. free'[Pool] + reserved'[Pool] + unbooked' - reservoir'.free - Claim(book'[m], loan'[m])
           >= free[Pool] + reserved[Pool] + unbooked - reservoir.free - Claim(book[m], loan[m])
    <3>1. Claim(book'[m], loan'[m]) = Claim(b.book, b.loan) /\ reservoir'.free = reservoir.free
      BY <1>3, <2>3, ZenonT(30)
    <3> DEFINE c == Claim(book[m], loan[m])
               d == Claim(b.book, b.loan)
    <3>2. c \in Nat /\ d \in Nat /\ d <= c
      BY <2>1, <2>5
    <3> HIDE DEF c, d
    <3>3. (free[Pool] - n) + (reserved[Pool] + rest) + (unbooked + pay) - reservoir.free - d
            >= free[Pool] + reserved[Pool] + unbooked - reservoir.free - c
      BY <1>2, <1>4, <2>6, <3>2
    <3> QED BY <2>4, <3>1, <3>3, ZenonT(30) DEF c, d
  <2> QED BY <2>3, <2>7, OneClaim, ZenonT(30)
<1>6. CASE i.acct # Pool
  <2>1. /\ free'[Pool] = free[Pool] /\ reserved'[Pool] = reserved[Pool]
        /\ unbooked' = unbooked /\ book' = book /\ loan' = loan
    BY <1>3, <1>4, <1>6 DEF books
  <2> QED BY <1>3, <2>1, SameClaims, ZenonT(30)
<1> QED BY <1>5, <1>6, SMTT(20)

(* A registration with the reservoir as sponsor.                            *)
LEMMA AssignSolvent ==
  ASSUME TypeOK, TypeOK', ReservoirSolvent, NEW m \in Miners, NEW a \in Accounts,
         NEW tib \in Nat, regnstk_assign_staking(m, a, tib)
  PROVE  ReservoirSolvent'
<1> DEFINE need == tib * BaseUnit
<1>1. need \in Nat
  BY StakeAssumption
<1>2. /\ free \in [Accounts -> Nat] /\ reserved \in [Accounts -> Nat] /\ Pool \in Accounts
      /\ unbooked \in Nat /\ reservoir.free \in Nat
      /\ loan \in [Miners -> Loans] /\ book \in [Miners -> Books]
  BY DEF TypeOK, Accounts
<1>3. unbooked' = unbooked /\ reservoir' = reservoir
  BY DEF regnstk_assign_staking, history
<1>4. CASE a = Pool
  <2> DEFINE b == staking(m, need)
  <2>1. b.ok /\ SetBooks(m, b) /\ Reserve(Pool, need)
    BY <1>4 DEF regnstk_assign_staking
  <2> HIDE DEF need
  <2>2. b.loan \in Loans /\ b.book \in Books /\ Claim(b.book, b.loan) <= Claim(book[m], loan[m])
    BY <1>1, <2>1, StakingBooks
  <2> HIDE DEF b
  <2>3. /\ loan'[m] = b.loan /\ book'[m] = b.book
        /\ \A x \in Miners \ {m} : loan'[x] = loan[x] /\ book'[x] = book[x]
    BY <1>2, <2>1 DEF SetBooks
  <2>4. free'[Pool] + reserved'[Pool] = free[Pool] + reserved[Pool]
    BY <1>1, <1>2, <2>1, MoneyKept, Zenon
  <2>5. Claim(book[m], loan[m]) \in Nat /\ Claim(b.book, b.loan) \in Nat
    BY <1>2, <2>2 DEF Claim, Books, Loans
  <2>6. free[Pool] \in Nat /\ reserved[Pool] \in Nat
    BY <1>2
  <2>7. free'[Pool] + reserved'[Pool] + unbooked' - reservoir'.free - Claim(book'[m], loan'[m])
           >= free[Pool] + reserved[Pool] + unbooked - reservoir.free - Claim(book[m], loan[m])
    <3> DEFINE old == Claim(book[m], loan[m])
               new == Claim(b.book, b.loan)
               A == free[Pool] + reserved[Pool]
    <3>1. Claim(book'[m], loan'[m]) = new /\ new <= old
      BY <2>2, <2>3, Zenon
    <3>2. old \in Nat /\ new \in Nat /\ A \in Nat
      BY <2>5, <2>6
    <3>3. free'[Pool] + reserved'[Pool] = A
      BY <2>4
    <3> HIDE DEF old, new, A
    <3>4. A + unbooked - reservoir.free - new >= A + unbooked - reservoir.free - old
      <4>1. unbooked - reservoir.free \in Int /\ A \in Int
        BY <1>2, <3>2
      <4> QED BY <3>1, <3>2, <4>1, RestGrows, Zenon
    <3> QED BY <1>3, <3>1, <3>3, <3>4, ZenonT(30) DEF old, A
  <2> QED BY <2>3, <2>7, OneClaim
<1>5. CASE a # Pool
  <2>1. UNCHANGED <<free, reserved, loan, book>>
    BY <1>5 DEF regnstk_assign_staking, money, books
  <2> QED BY <1>3, <2>1, SameClaims
<1> QED BY <1>4, <1>5

(* A fine: the books lose at least what the account pays, also where the    *)
(* hook keeps a failed call.                                                *)
LEMMA PunishSolvent ==
  ASSUME TypeOK, ReservoirSolvent, NEW m \in Miners, NEW n \in Nat, NEW tib, NEW inCall,
         deposit_punish(m, n, tib, inCall)
  PROVE  ReservoirSolvent'
<1> DEFINE i == miner[m]
<1>1. i.acct \in Accounts /\ Pool \in Accounts
  BY MinerTyped
<1>2. unbooked' = unbooked /\ reservoir' = reservoir
  BY ZenonT(30) DEF deposit_punish
<1>3. /\ TypeOK'
      /\ \A a \in Accounts \ {i.acct} : free'[a] = free[a] /\ reserved'[a] = reserved[a]
      /\ i.acct = Pool =>
           /\ \A x \in Miners \ {m} : loan'[x] = loan[x] /\ book'[x] = book[x]
           /\ free'[Pool] + reserved'[Pool] - Claim(book'[m], loan'[m])
                >= free[Pool] + reserved[Pool] - Claim(book[m], loan[m])
      /\ i.acct # Pool => UNCHANGED books
  BY PunishStep, ZenonT(30)
<1>4. CASE i.acct = Pool
  <2>1. /\ free[Pool] \in Nat /\ reserved[Pool] \in Nat /\ unbooked \in Nat /\ reservoir.free \in Nat
        /\ Claim(book[m], loan[m]) \in Nat
    BY ClaimsTyped, ZenonT(30)
  <2>2. free'[Pool] \in Nat /\ reserved'[Pool] \in Nat /\ Claim(book'[m], loan'[m]) \in Nat
    BY <1>3, ClaimsTypedNext, ZenonT(30)
  <2>3. free'[Pool] + reserved'[Pool] + unbooked' - reservoir'.free - Claim(book'[m], loan'[m])
           >= free[Pool] + reserved[Pool] + unbooked - reservoir.free - Claim(book[m], loan[m])
    BY <1>2, <1>3, <1>4, <2>1, <2>2, SMTT(30)
  <2>4. \A x \in Miners \ {m} : loan'[x] = loan[x] /\ book'[x] = book[x]
    BY <1>3, <1>4, Zenon
  <2> QED BY <1>3, <2>3, <2>4, OneClaim, Zenon
<1>5. CASE i.acct # Pool
  <2>1. free'[Pool] = free[Pool] /\ reserved'[Pool] = reserved[Pool] /\ UNCHANGED <<loan, book>>
    BY <1>1, <1>3, <1>5, ZenonT(30) DEF books
  <2> QED BY <1>2, <1>3, <2>1, SameClaims, ZenonT(30)
<1> QED BY <1>4, <1>5

(* A refund moves money and claims inside the account.                      *)
LEMMA RefundSolvent ==
  ASSUME TypeOK, ReservoirSolvent, NEW m \in Miners, miner_withdraw(m) \/ force_miner_exit(m)
  PROVE  ReservoirSolvent'
<1>1. /\ TypeOK'
      /\ Redeemed(m) \/ UNCHANGED books
      /\ Refund(m) \/ UNCHANGED money
      /\ unbooked' = unbooked /\ reservoir' = reservoir
  BY WithdrawStep, ForceExitStep
<1>2. \A x \in Miners : Claim(book'[x], loan'[x]) = Claim(book[x], loan[x])
  BY <1>1, RedeemedStep, ZenonT(30)
<1>3. free'[Pool] + reserved'[Pool] = free[Pool] + reserved[Pool]
  <2>1. CASE Refund(m)
    BY <2>1, RefundStep, MinerTyped, ZenonT(30)
  <2>2. CASE UNCHANGED money
    BY <2>2 DEF money
  <2> QED BY <1>1, <2>1, <2>2, ZenonT(30)
<1> QED BY <1>1, <1>2, <1>3, SameClaims

(* The calls of the reservoir itself.                                       *)
LEMMA ReservoirKept ==
  ASSUME TypeOK, ReservoirSolvent, ReservoirNext, UNCHANGED <<stakeVars, history>>
  PROVE  ReservoirSolvent'
<1>1. unbooked' = unbooked
  BY DEF history
<1>2. /\ TypeOK' /\ reserved' = reserved
      /\ \/ \E m \in Miners :
              /\ \A x \in Miners \ {m} : book'[x] = book[x] /\ loan'[x] = loan[x]
              /\ free'[Pool] - reservoir'.free - Claim(book'[m], loan'[m])
                   >= free[Pool] - reservoir.free - Claim(book[m], loan[m])
         \/ UNCHANGED <<books, money, reservoir>>
  BY ReservoirStep, ZenonT(30)
<1>3. ASSUME NEW m \in Miners,
             \A x \in Miners \ {m} : book'[x] = book[x] /\ loan'[x] = loan[x],
             free'[Pool] - reservoir'.free - Claim(book'[m], loan'[m])
               >= free[Pool] - reservoir.free - Claim(book[m], loan[m])
      PROVE  ReservoirSolvent'
  <2>1. /\ free[Pool] \in Nat /\ reserved[Pool] \in Nat /\ unbooked \in Nat /\ reservoir.free \in Nat
        /\ Claim(book[m], loan[m]) \in Nat
    BY ClaimsTyped
  <2>2. free'[Pool] \in Nat /\ reservoir'.free \in Nat /\ Claim(book'[m], loan'[m]) \in Nat
    BY <1>2, ClaimsTypedNext, ZenonT(30)
  <2>3. reserved'[Pool] = reserved[Pool]
    BY <1>2, Zenon
  <2>4. free'[Pool] + reserved'[Pool] + unbooked' - reservoir'.free - Claim(book'[m], loan'[m])
           >= free[Pool] + reserved[Pool] + unbooked - reservoir.free - Claim(book[m], loan[m])
    BY <1>1, <1>3, <2>1, <2>2, <2>3, SMTT(30)
  <2> QED BY <1>2, <1>3, <2>4, OneClaim, ZenonT(30)
<1>4. CASE UNCHANGED <<books, money, reservoir>>
  <2>1. UNCHANGED <<loan, book, free, reserved, reservoir>>
    BY <1>4 DEF books, money
  <2> QED BY <1>1, <1>2, <2>1, SameClaims, Zenon
<1> QED BY <1>2, <1>3, <1>4, Zenon

(* Nobody has a claim at the start,                                         *)
LEMMA InitSolvent == Init => ReservoirSolvent
<1> SUFFICES ASSUME Init PROVE ReservoirSolvent
  OBVIOUS
<1>1. \A m \in Miners : Claims[m] = 0
  BY DEF Init, ReservoirInit, Claims, NoLoan
<1>2. SumFunctionOnSet(Claims, Miners) = 0
  BY <1>1, ReservoirAssumption, SumZero, Zenon
<1>3. free[Pool] = 0 /\ reserved[Pool] = 0 /\ unbooked = 0 /\ reservoir.free = 0
  BY DEF Init, ReservoirInit, Accounts
<1> QED BY <1>2, <1>3, SMTT(20) DEF ReservoirSolvent

(* and every step keeps the reservoir solvent.                              *)
LEMMA SolventStep == TypeOK /\ TypeOK' /\ ReservoirSolvent /\ [Next]_vars => ReservoirSolvent'
<1> SUFFICES ASSUME TypeOK, TypeOK', ReservoirSolvent, [Next]_vars PROVE ReservoirSolvent'
  OBVIOUS
<1>1. ASSUME NEW m \in Miners, NEW n \in Coins, NEW tib \in Tibs, regnstk(m, n, tib)
      PROVE  ReservoirSolvent'
  <2>1. Reserve(m, n) /\ UNCHANGED <<loan, book, unbooked, reservoir>>
    BY <1>1 DEF regnstk, books, history
  <2>2. n \in Nat /\ m \in Accounts /\ Pool \in Accounts
    BY ReservoirAssumption, Zenon DEF Accounts
  <2>3. free'[Pool] + reserved'[Pool] = free[Pool] + reserved[Pool]
    BY <2>1, <2>2, MoneyKept
  <2> QED BY <2>1, <2>3, SameClaims, Zenon
<1>2. ASSUME NEW m \in Miners, NEW tib \in Tibs, NEW a \in Sponsors[m] \ {m},
             regnstk_assign_staking(m, a, tib)
      PROVE  ReservoirSolvent'
  <2>1. a \in Accounts /\ tib \in Nat
    BY StakeAssumption
  <2> QED BY <1>2, <2>1, AssignSolvent
<1>3. ASSUME NEW s \in Miners, NEW m \in Miners, NEW n \in Coins, increase_collateral(s, m, n)
      PROVE  ReservoirSolvent'
  BY <1>3, CollateralSolvent, ReservoirAssumption, Zenon
<1>4. ASSUME NEW m \in Miners, clear_punish(m) \/ service_punish(m) PROVE ReservoirSolvent'
  <2>1. PICK n \in Nat, tib \in Nat, inCall \in BOOLEAN :
          Challenged(m) /\ deposit_punish(m, n, tib, inCall)
    BY <1>4, Fines
  <2> QED BY <2>1, PunishSolvent
<1>5. ASSUME NEW m \in Miners, force_miner_exit(m) \/ miner_withdraw(m) PROVE ReservoirSolvent'
  BY <1>5, RefundSolvent, Zenon
<1>6. CASE next_block
  <2>1. /\ free'[Pool] + reserved'[Pool] = free[Pool] + reserved[Pool]
        /\ \A m \in Miners : Claim(book'[m], loan'[m]) = Claim(book[m], loan[m])
    BY <1>6, BlockStep, DueTyped DEF Accounts
  <2>2. unbooked' = unbooked /\ reservoir' = reservoir
    BY <1>6, Zenon DEF next_block
  <2> QED BY <2>1, <2>2, SameClaims, Zenon
<1>7. ASSUME ReservoirNext, UNCHANGED <<stakeVars, history>> PROVE ReservoirSolvent'
  BY <1>7, ReservoirKept, Zenon
<1>8. ASSUME UNCHANGED <<reservoirVars, unbooked>> PROVE ReservoirSolvent'
  <2>1. UNCHANGED <<free, reserved, reservoir, loan, book, unbooked>>
    BY <1>8 DEF reservoirVars
  <2> QED BY <2>1, SameClaims, Zenon
<1>9. ASSUME \/ \E m \in Miners : Minor(m) \/ restored(m)
             \/ \E s, m \in Miners : miner_exit_prep(s, m)
             \/ UNCHANGED vars
      PROVE  UNCHANGED <<reservoirVars, unbooked>>
  BY <1>9, Zenon DEF Minor, register_pois_key, increase_declaration_space, receive_reward, restored,
              miner_exit_prep, history, vars
<1> QED BY <1>1, <1>2, <1>3, <1>4, <1>5, <1>6, <1>7, <1>8, <1>9, Zenon DEF Next, Minor

(* At every moment the account of the reservoir holds what its free balance, *)
(* the passbooks and the loans add up to, less the debts it paid without a  *)
(* booking.                                                                 *)
THEOREM ReservoirSafe == Spec => []ReservoirSolvent
BY TypeCorrect, InitSolvent, SolventStep, PTL DEF Spec

-----------------------------------------------------------------------------
(* A lock always has its exit ahead.                                        *)
LEMMA LockStep == TypeOK /\ LockLeads /\ [Next]_vars => LockLeads'
<1> SUFFICES ASSUME TypeOK, LockLeads, [Next]_vars PROVE LockLeads'
  OBVIOUS
<1>1. ASSUME lockLeft' = lockLeft, stray' = stray,
             \A x \in Miners : miner'[x].state = "lock" => miner[x].state = "lock"
      PROVE  LockLeads'
  BY <1>1 DEF LockLeads
<1>2. miner \in [Miners -> Infos] /\ lockLeft \in [Miners -> Nat \cup {-1}]
  BY DEF TypeOK
<1>3. ASSUME NEW m \in Miners, NEW n, NEW tib, regnstk(m, n, tib) PROVE LockLeads'
  <2>1. miner'[m].state = "not ready" /\ \A x \in Miners \ {m} : miner'[x] = miner[x]
    BY <1>2, <1>3, ZenonT(30) DEF regnstk, Registered
  <2> QED BY <1>1, <1>3, <2>1, ZenonT(30) DEF regnstk, history
<1>4. ASSUME NEW m \in Miners, NEW a, NEW tib, regnstk_assign_staking(m, a, tib) PROVE LockLeads'
  <2>1. miner'[m].state = "not ready" /\ \A x \in Miners \ {m} : miner'[x] = miner[x]
    <3>1. \E new : new.state = "not ready" /\ miner' = [miner EXCEPT ![m] = new]
      <4>1. CASE a = Pool
        BY <1>4, <4>1, ZenonT(30) DEF regnstk_assign_staking, Registered
      <4>2. CASE a # Pool
        BY <1>4, <4>2, ZenonT(30) DEF regnstk_assign_staking, Registered
      <4> QED BY <4>1, <4>2, ZenonT(30)
    <3> QED BY <1>2, <3>1, Zenon
  <2> QED BY <1>1, <1>4, <2>1, Zenon DEF regnstk_assign_staking, history
<1>5. ASSUME NEW m \in Miners, Minor(m) PROVE LockLeads'
  <2>1. /\ UNCHANGED <<reservoirVars, lockLeft, due, target, history>>
        /\ \A x \in Miners \ {m} : miner'[x] = miner[x]
        /\ miner'[m].state \in {miner[m].state, "positive", "frozen"}
    BY <1>5, MinorStep
  <2>2. lockLeft' = lockLeft /\ stray' = stray
    BY <2>1 DEF history
  <2> QED BY <1>1, <2>1, <2>2, Zenon
<1>6. ASSUME NEW s \in Miners, NEW m \in Miners, NEW n, increase_collateral(s, m, n)
      PROVE  LockLeads'
  <2>1. \A x \in Miners \ {m} : miner'[x] = miner[x]
    BY <1>2, <1>6 DEF increase_collateral
  <2>2. miner[m].state # "lock" /\ miner'[m].state \in {miner[m].state, "positive"}
    <3>1. miner[m] \in Infos
      BY <1>2
    <3> QED BY <1>2, <1>6, <3>1 DEF increase_collateral, Infos
  <2>3. \A x \in Miners : miner'[x].state = "lock" => miner[x].state = "lock"
    BY <2>1, <2>2
  <2>4. lockLeft' = lockLeft /\ stray' = stray
    BY <1>6 DEF increase_collateral
  <2> QED BY <1>1, <2>3, <2>4
<1>7. ASSUME NEW m \in Miners, clear_punish(m) \/ service_punish(m) PROVE LockLeads'
  <2>1. PICK n \in Nat, tib \in Nat, inCall \in BOOLEAN :
          Challenged(m) /\ deposit_punish(m, n, tib, inCall)
    BY <1>7, Fines
  <2>2. miner' = miner \/ miner' = [miner EXCEPT ![m] = Punished(miner[m], n, tib)]
    BY <2>1, ZenonT(30) DEF deposit_punish
  <2>3. lockLeft' = lockLeft /\ stray' = stray
    BY <2>1, Zenon DEF deposit_punish
  <2>4. Punished(miner[m], n, tib).state \in {miner[m].state, "frozen"}
    BY <1>2, PunishedTyped
  <2>5. \A x \in Miners : miner'[x].state = "lock" => miner[x].state = "lock"
    BY <1>2, <2>2, <2>4
  <2> QED BY <1>1, <2>3, <2>5
<1>8. ASSUME NEW s \in Miners, NEW m \in Miners, miner_exit_prep(s, m) PROVE LockLeads'
  <2>1. /\ miner' = [miner EXCEPT ![s].state = "lock"]
        /\ lockLeft' = [lockLeft EXCEPT ![m] = LockTime]
        /\ stray' = IF s = m THEN stray \ {s} ELSE stray \cup {s}
    BY <1>8 DEF miner_exit_prep
  <2> SUFFICES ASSUME NEW x \in Miners \ stray', miner'[x].state = "lock" PROVE lockLeft'[x] > 0
    BY DEF LockLeads
  <2>2. CASE x = m
    BY <1>2, <2>1, <2>2, StakeAssumption
  <2>3. CASE x # m
    <3>1. x # s /\ x \notin stray
      BY <2>1, <2>3
    <3>2. miner'[x] = miner[x] /\ lockLeft'[x] = lockLeft[x]
      BY <1>2, <2>1, <2>3, <3>1
    <3> QED BY <3>1, <3>2 DEF LockLeads
  <2> QED BY <2>2, <2>3
<1>9. ASSUME NEW m \in Miners, force_miner_exit(m) PROVE LockLeads'
  <2>1. /\ miner' = miner \/ miner' = [miner EXCEPT ![m].state = "offline"]
        /\ UNCHANGED <<reservoir, event, lockLeft, unbooked, stray>>
    BY <1>9, ForceExitStep
  <2>2. \A x \in Miners : miner'[x].state = "lock" => miner[x].state = "lock"
    BY <1>2, <2>1 DEF Infos
  <2> QED BY <1>1, <2>1, <2>2
<1>10. CASE next_block
  <2> SUFFICES ASSUME NEW x \in Miners \ stray, miner'[x].state = "lock" PROVE lockLeft'[x] > 0
    BY <1>10, ZenonT(30) DEF LockLeads, next_block
  <2>1. x \notin Exiting /\ miner[x].state = "lock"
    BY <1>10, BlockStep, DueTyped
  <2>2. lockLeft[x] > 0 /\ lockLeft[x] # 1 /\ lockLeft[x] \in Nat \cup {-1}
    BY <1>2, <2>1 DEF LockLeads, Exiting
  <2>3. lockLeft'[x] = IF lockLeft[x] < 0 THEN -1 ELSE lockLeft[x] - 1
    BY <1>10, Zenon DEF next_block
  <2> QED BY <2>2, <2>3
<1>11. ASSUME \/ \E m \in Miners : miner_withdraw(m) \/ restored(m)
              \/ UNCHANGED <<stakeVars, history>>
              \/ UNCHANGED vars
       PROVE  LockLeads'
  <2>1. UNCHANGED <<miner, lockLeft, stray>>
    BY <1>11, Zenon DEF miner_withdraw, restored, stakeVars, history, vars
  <2> QED BY <1>1, <2>1
<1> QED BY <1>3, <1>4, <1>5, <1>6, <1>7, <1>8, <1>9, <1>10, <1>11, Zenon DEF Next, Minor

(* A miner that is locked always has a scheduled exit ahead of it, unless it *)
(* was locked by a call that named another miner.                           *)
THEOREM LockSafe == Spec => []LockLeads
<1>1. Init => LockLeads
  BY DEF Init, LockLeads, NoMiner
<1> QED BY <1>1, TypeCorrect, LockStep, PTL DEF Spec
=============================================================================
