-------------------------- MODULE MinerStakeTypes ---------------------------
(***************************************************************************)
(* What the steps of MinerStake do to the records of one miner: the typing  *)
(* of every record written, and the effect of each extrinsic on the stake,  *)
(* the reserve and the two books.                                           *)
(***************************************************************************)
EXTENDS MinerStake, TLAPS

(* The smaller and the larger of two numbers.                               *)
LEMMA MinPair ==
  ASSUME NEW a \in Int, NEW b \in Int
  PROVE  Min({a, b}) = IF a <= b THEN a ELSE b
<1> DEFINE m == IF a <= b THEN a ELSE b
<1>1. m \in {a, b} /\ \A y \in {a, b} : m <= y
  OBVIOUS
<1>2. \A x \in {a, b} : (\A y \in {a, b} : x <= y) => x = m
  OBVIOUS
<1> QED BY <1>1, <1>2 DEF Min

(* The larger of two numbers.                                               *)
LEMMA MaxPair ==
  ASSUME NEW a \in Int, NEW b \in Int
  PROVE  Max({a, b}) = IF a >= b THEN a ELSE b
<1> DEFINE m == IF a >= b THEN a ELSE b
<1>1. m \in {a, b} /\ \A y \in {a, b} : m >= y
  OBVIOUS
<1>2. \A x \in {a, b} : (\A y \in {a, b} : x >= y) => x = m
  OBVIOUS
<1> QED BY <1>1, <1>2 DEF Max

-----------------------------------------------------------------------------
(* The records of the model, one by one.                                    *)
LEMMA MinerTyped ==
  ASSUME TypeOK, NEW m \in Miners
  PROVE  /\ loan[m] \in Loans /\ book[m] \in Books /\ miner[m] \in Infos
         /\ miner[m].acct \in Accounts /\ miner[m].coll \in Nat /\ m \in Accounts
         /\ Pool \in Accounts
BY DEF TypeOK, Infos, Accounts

(* What the gate of the reservoir writes is well typed, and the claims of a *)
(* miner do not grow: staking and redeeming move them, a fine takes them.   *)
Claim(b, l) == b.free + b.staking + l.free + l.staking

(* Staking moves the claims of the loan and of the passbook, and drops the  *)
(* loan that is due.                                                        *)
LEMMA StakingBooks ==
  ASSUME TypeOK, NEW m \in Miners, NEW n \in Nat, staking(m, n).ok
  PROVE  /\ staking(m, n).loan \in Loans /\ staking(m, n).book \in Books
         /\ free[Pool] >= n
         /\ Claim(staking(m, n).book, staking(m, n).loan) <= Claim(book[m], loan[m])
<1> DEFINE live == loan[m].on /\ loan[m].left > 0
           lent == IF live THEN Min({n, loan[m].free}) ELSE 0
<1>1. loan[m] \in Loans /\ book[m] \in Books
  BY MinerTyped
<1>2. Min({n, loan[m].free}) = IF n <= loan[m].free THEN n ELSE loan[m].free
  BY <1>1, MinPair DEF Loans
<1>3. lent \in Nat /\ lent <= n /\ (live => lent <= loan[m].free)
  BY <1>1, <1>2 DEF Loans
<1>4. staking(m, n) = [ok |-> book[m].free >= n - lent /\ free[Pool] >= n,
         loan |-> IF live THEN [loan[m] EXCEPT !.free = @ - lent, !.staking = @ + lent]
                  ELSE NoLoan,
         book |-> [book[m] EXCEPT !.free = @ - (n - lent), !.staking = @ + (n - lent)]]
  BY DEF staking
<1>5. book[m].free >= n - lent /\ free[Pool] >= n
  BY Zenon DEF staking
<1>6. /\ staking(m, n).book = [book[m] EXCEPT !.free = @ - (n - lent), !.staking = @ + (n - lent)]
      /\ staking(m, n).loan =
           IF live THEN [loan[m] EXCEPT !.free = @ - lent, !.staking = @ + lent] ELSE NoLoan
  BY <1>4
<1>7. /\ staking(m, n).book \in Books
      /\ staking(m, n).book.free = book[m].free - (n - lent)
      /\ staking(m, n).book.staking = book[m].staking + (n - lent)
  <2> DEFINE x == book[m].free - (n - lent)
             y == book[m].staking + (n - lent)
  <2>1. x \in Nat /\ y \in Nat
    <3> HIDE DEF lent, live
    <3> QED BY <1>1, <1>3, <1>5 DEF Books
  <2>2. staking(m, n).book = [book[m] EXCEPT !.free = x, !.staking = y]
    BY <1>6
  <2>3. staking(m, n).book \in Books /\ staking(m, n).book.free = x /\ staking(m, n).book.staking = y
    <3> HIDE DEF x, y
    <3> QED BY <1>1, <2>1, <2>2, Zenon DEF Books
  <2> QED BY <2>3
<1>8. CASE live
  <2>1. /\ staking(m, n).loan \in Loans
        /\ staking(m, n).loan.free = loan[m].free - lent
        /\ staking(m, n).loan.staking = loan[m].staking + lent
    <3> DEFINE x == loan[m].free - lent
               y == loan[m].staking + lent
    <3>1. x \in Nat /\ y \in Nat
      <4> HIDE DEF lent
      <4> QED BY <1>1, <1>3, <1>8 DEF Loans
    <3>2. staking(m, n).loan = [loan[m] EXCEPT !.free = x, !.staking = y]
      BY <1>6, <1>8
    <3>3. staking(m, n).loan \in Loans /\ staking(m, n).loan.free = x /\ staking(m, n).loan.staking = y
      <4> HIDE DEF x, y
      <4> QED BY <1>1, <3>1, <3>2, ZenonT(30) DEF Loans
    <3> QED BY <3>3
  <2> HIDE DEF lent, live
  <2> QED BY <1>1, <1>3, <1>5, <1>7, <2>1 DEF Claim, Loans, Books
<1>9. CASE ~live
  <2>1. staking(m, n).loan = NoLoan
    BY <1>6, <1>9
  <2>2. NoLoan \in Loans /\ NoLoan.free = 0 /\ NoLoan.staking = 0
    BY DEF NoLoan, Loans
  <2> HIDE DEF lent, live
  <2> QED BY <1>1, <1>3, <1>5, <1>7, <2>1, <2>2 DEF Claim, Loans, Books
<1> QED BY <1>8, <1>9

(* Redeeming moves them back and keeps the sum.                             *)
LEMMA RedeemBooks ==
  ASSUME TypeOK, NEW m \in Miners, NEW n \in Nat
  PROVE  /\ redeem(m, n).loan \in Loans /\ redeem(m, n).book \in Books
         /\ Claim(redeem(m, n).book, redeem(m, n).loan) = Claim(book[m], loan[m])
<1> DEFINE own == Min({n, book[m].staking})
<1>1. loan[m] \in Loans /\ book[m] \in Books
  BY MinerTyped
<1>2. own = IF n <= book[m].staking THEN n ELSE book[m].staking
  BY <1>1, MinPair DEF Books
<1>3. own \in Nat /\ own <= n /\ own <= book[m].staking
  BY <1>1, <1>2 DEF Books
<1> DEFINE ok == n - own = 0 \/ loan[m].staking >= n - own
<1>4. redeem(m, n) = [ok |-> ok,
         book |-> [free |-> book[m].free + own, staking |-> book[m].staking - own],
         loan |-> IF ok /\ n - own > 0
                    THEN [loan[m] EXCEPT !.free = @ + (n - own), !.staking = @ - (n - own)]
                  ELSE loan[m]]
  BY DEF redeem
<1>5. /\ redeem(m, n).book \in Books
      /\ redeem(m, n).book.free = book[m].free + own
      /\ redeem(m, n).book.staking = book[m].staking - own
  <2> HIDE DEF own
  <2> QED BY <1>1, <1>3, <1>4 DEF Books
<1>6. CASE ok /\ n - own > 0
  <2>1. /\ redeem(m, n).loan \in Loans
        /\ redeem(m, n).loan.free = loan[m].free + (n - own)
        /\ redeem(m, n).loan.staking = loan[m].staking - (n - own)
    <3> DEFINE x == loan[m].free + (n - own)
               y == loan[m].staking - (n - own)
    <3>1. x \in Nat /\ y \in Nat
      <4> HIDE DEF own
      <4> QED BY <1>1, <1>3, <1>6 DEF Loans
    <3>2. redeem(m, n).loan = [loan[m] EXCEPT !.free = x, !.staking = y]
      BY <1>4, <1>6
    <3>3. redeem(m, n).loan \in Loans /\ redeem(m, n).loan.free = x /\ redeem(m, n).loan.staking = y
      <4> HIDE DEF x, y
      <4> QED BY <1>1, <3>1, <3>2, Zenon DEF Loans
    <3> QED BY <3>3
  <2> HIDE DEF own
  <2> QED BY <1>1, <1>3, <1>5, <2>1 DEF Claim, Loans, Books
<1>7. CASE ~(ok /\ n - own > 0)
  <2>1. redeem(m, n).loan = loan[m]
    BY <1>4, <1>7
  <2> HIDE DEF own
  <2> QED BY <1>1, <1>3, <1>5, <2>1 DEF Claim, Loans, Books
<1> QED BY <1>6, <1>7

(* A fine takes them, up to the amount.                                     *)
LEMMA PunishBooks ==
  ASSUME TypeOK, NEW m \in Miners, NEW n \in Nat
  PROVE  /\ punish(m, n).loan \in Loans /\ punish(m, n).book \in Books
         /\ Claim(punish(m, n).book, punish(m, n).loan)
              <= Claim(book[m], loan[m]) - (IF punish(m, n).ok THEN n ELSE 0)
<1> DEFINE own == Min({n, book[m].staking})
<1>1. loan[m] \in Loans /\ book[m] \in Books
  BY MinerTyped
<1>2. own = IF n <= book[m].staking THEN n ELSE book[m].staking
  BY <1>1, MinPair DEF Books
<1>3. own \in Nat /\ own <= n /\ own <= book[m].staking
  BY <1>1, <1>2 DEF Books
<1> DEFINE ok == n - own = 0 \/ loan[m].staking >= n - own
<1>4. punish(m, n) = [ok |-> ok,
         book |-> [book[m] EXCEPT !.staking = @ - own],
         loan |-> IF ok /\ n - own > 0 THEN [loan[m] EXCEPT !.staking = @ - (n - own)]
                  ELSE loan[m]]
  BY DEF punish
<1>5. /\ punish(m, n).book \in Books
      /\ punish(m, n).book.free = book[m].free
      /\ punish(m, n).book.staking = book[m].staking - own
      /\ punish(m, n).ok <=> ok
  <2>1. book[m].staking - own \in Nat
    <3> HIDE DEF own
    <3> QED BY <1>1, <1>3 DEF Books
  <2>2. punish(m, n).ok <=> ok
    BY Zenon DEF punish
  <2> HIDE DEF own, ok
  <2> QED BY <1>1, <1>4, <2>1, <2>2 DEF Books
<1>6. CASE ok /\ n - own > 0
  <2>1. /\ punish(m, n).loan \in Loans
        /\ punish(m, n).loan.free = loan[m].free
        /\ punish(m, n).loan.staking = loan[m].staking - (n - own)
    <3>1. loan[m].staking - (n - own) \in Nat
      <4> HIDE DEF own
      <4> QED BY <1>1, <1>3, <1>6 DEF Loans
    <3> HIDE DEF own, ok
    <3> QED BY <1>1, <1>4, <1>6, <3>1 DEF Loans
  <2> HIDE DEF own
  <2> QED BY <1>1, <1>3, <1>5, <1>6, <2>1 DEF Claim, Loans, Books
<1>7. CASE ~(ok /\ n - own > 0)
  <2>1. punish(m, n).loan = loan[m]
    BY <1>4, <1>7
  <2> HIDE DEF own
  <2> QED BY <1>1, <1>3, <1>5, <1>7, <2>1 DEF Claim, Loans, Books
<1> QED BY <1>6, <1>7

(* unreserve moves back at most what is reserved and what was asked for.    *)
LEMMA UnreservableBounds ==
  ASSUME TypeOK, NEW a \in Accounts, NEW n \in Nat
  PROVE  /\ Unreservable(a, n) \in Nat /\ Unreservable(a, n) <= n
         /\ Unreservable(a, n) <= reserved[a]
         /\ Unreservable(a, n) = n \/ Unreservable(a, n) = reserved[a]
<1>1. reserved[a] \in Nat
  BY DEF TypeOK
<1> QED BY <1>1, MinPair DEF Unreservable

-----------------------------------------------------------------------------
(* Every step keeps the types.                                              *)

(* A new record of one miner, and new books.                                *)
LEMMA MinerWritten ==
  ASSUME TypeOK, NEW m \in Miners, NEW i \in Infos, miner' = [miner EXCEPT ![m] = i]
  PROVE  miner' \in [Miners -> Infos]
BY DEF TypeOK

(* The same for the books of a miner.                                       *)
LEMMA BooksWritten ==
  ASSUME TypeOK, NEW m \in Miners, NEW b, b.loan \in Loans, b.book \in Books, SetBooks(m, b)
  PROVE  loan' \in [Miners -> Loans] /\ book' \in [Miners -> Books]
BY DEF TypeOK, SetBooks

(* Reserving and unreserving keep the sum of the two balances of every      *)
(* account.                                                                 *)
LEMMA MoneyKept ==
  ASSUME TypeOK, NEW a \in Accounts, NEW n \in Nat, Reserve(a, n) \/ Unreserve(a, n)
  PROVE  /\ free' \in [Accounts -> Nat] /\ reserved' \in [Accounts -> Nat]
         /\ \A x \in Accounts : free'[x] + reserved'[x] = free[x] + reserved[x]
<1>1. free \in [Accounts -> Nat] /\ reserved \in [Accounts -> Nat]
  BY DEF TypeOK
<1>2. CASE Reserve(a, n)
  BY <1>1, <1>2 DEF Reserve
<1>3. CASE Unreserve(a, n)
  <2> DEFINE u == Unreservable(a, n)
  <2>1. u \in Nat /\ u <= reserved[a]
    BY UnreservableBounds
  <2>2. free' = [free EXCEPT ![a] = @ + u] /\ reserved' = [reserved EXCEPT ![a] = @ - u]
    BY <1>3 DEF Unreserve
  <2> HIDE DEF u
  <2> QED BY <1>1, <2>1, <2>2
<1> QED BY <1>2, <1>3

(* regnstk writes a record of the right form.                               *)
LEMMA RegisterTyped ==
  ASSUME TypeOK, NEW m \in Miners, NEW n \in Nat, NEW tib \in Nat, regnstk(m, n, tib)
  PROVE  TypeOK'
<1>1. Registered(m, n, tib, 0) \in Infos
  BY MinerTyped, Zenon DEF Registered, Infos, States
<1>2. miner' \in [Miners -> Infos]
  BY <1>1, MinerWritten, Zenon DEF regnstk
<1>3. free' \in [Accounts -> Nat] /\ reserved' \in [Accounts -> Nat]
  BY MinerTyped, MoneyKept DEF regnstk
<1> QED BY <1>2, <1>3 DEF TypeOK, regnstk, books, history

(* regnstk_assign_staking, with the reservoir as the sponsor and with       *)
(* another account.                                                         *)
LEMMA AssignTyped ==
  ASSUME TypeOK, NEW m \in Miners, NEW a \in Accounts, NEW tib \in Nat,
         regnstk_assign_staking(m, a, tib)
  PROVE  TypeOK'
<1> DEFINE need == tib * BaseUnit
<1>1. need \in Nat
  BY StakeAssumption
<1>2. CASE a = Pool
  <2>1. Registered(Pool, need, tib, 0) \in Infos
    BY <1>1, MinerTyped, Zenon DEF Registered, Infos, States
  <2>2. miner' = [miner EXCEPT ![m] = Registered(Pool, need, tib, 0)] /\ staking(m, need).ok
        /\ SetBooks(m, staking(m, need)) /\ Reserve(Pool, need)
    BY <1>2 DEF regnstk_assign_staking
  <2> HIDE DEF need
  <2>3. miner' \in [Miners -> Infos]
    BY <2>1, <2>2, MinerWritten, Zenon
  <2>4. free' \in [Accounts -> Nat] /\ reserved' \in [Accounts -> Nat]
    BY <1>1, <2>2, MinerTyped, MoneyKept
  <2>5. loan' \in [Miners -> Loans] /\ book' \in [Miners -> Books]
    BY <1>1, <2>2, StakingBooks, BooksWritten
  <2> QED BY <2>3, <2>4, <2>5 DEF TypeOK, regnstk_assign_staking, history
<1>3. CASE a # Pool
  <2>1. Registered(a, 0, tib, -1) \in Infos
    BY MinerTyped, Zenon DEF Registered, Infos, States
  <2>2. miner' = [miner EXCEPT ![m] = Registered(a, 0, tib, -1)] /\ UNCHANGED <<money, books>>
    BY <1>3 DEF regnstk_assign_staking
  <2>3. miner' \in [Miners -> Infos]
    BY <2>1, <2>2, MinerWritten, Zenon
  <2> QED BY <2>2, <2>3 DEF TypeOK, regnstk_assign_staking, history, money, books
<1> QED BY <1>2, <1>3

(* A change of the state alone.                                             *)
LEMMA StateTyped ==
  ASSUME TypeOK, NEW m \in Miners, NEW st \in States, miner' = [miner EXCEPT ![m].state = st]
  PROVE  miner' \in [Miners -> Infos]
<1>1. miner[m] \in Infos
  BY MinerTyped
<1>2. [miner[m] EXCEPT !.state = st] \in Infos
  BY <1>1 DEF Infos
<1>3. miner' = [miner EXCEPT ![m] = [miner[m] EXCEPT !.state = st]]
  OBVIOUS
<1> QED BY <1>2, <1>3, MinerWritten, Zenon

(* increase_collateral: what is paid of the debt is at most the debt.       *)
LEMMA CollateralTyped ==
  ASSUME TypeOK, NEW s \in Miners, NEW m \in Miners, NEW n \in Nat,
         increase_collateral(s, m, n)
  PROVE  TypeOK'
<1> DEFINE i == miner[m]
           pay == Repaid(i, n)
           rest == n - pay
           st == IF i.state = "frozen" /\ Enough([i EXCEPT !.coll = @ + rest, !.debt = @ - pay, !.age = 0])
                   THEN "positive" ELSE i.state
<1>1. i \in Infos /\ i.acct \in Accounts /\ i.debt \in Nat /\ i.coll \in Nat
  BY MinerTyped DEF Infos
<1>2. pay \in Nat /\ rest \in Nat /\ pay <= i.debt /\ rest + pay = n
  BY <1>1 DEF Repaid
<1>3. /\ miner' = [miner EXCEPT ![m] =
           [i EXCEPT !.coll = i.coll + rest, !.debt = i.debt - pay, !.age = 0, !.state = st]]
      /\ i.acct = Pool => staking(m, rest).ok
      /\ IF i.acct = Pool THEN SetBooks(m, staking(m, rest)) ELSE UNCHANGED books
      /\ free[i.acct] >= n
      /\ free' = [free EXCEPT ![i.acct] = @ - n]
      /\ reserved' = [reserved EXCEPT ![i.acct] = @ + rest]
      /\ unbooked' = IF i.acct = Pool THEN unbooked + pay ELSE unbooked
      /\ UNCHANGED <<reservoir, event, lockLeft, due, target, returned, overdrawn, stray>>
  BY <1>1 DEF increase_collateral, Infos
<1>4. st \in States
  BY <1>1, Zenon DEF Infos, States
<1>5. [i EXCEPT !.coll = i.coll + rest, !.debt = i.debt - pay, !.age = 0, !.state = st] \in Infos
  <2>1. i.coll + rest \in Nat /\ i.debt - pay \in Nat
    <3> HIDE DEF i, pay, rest
    <3> QED BY <1>1, <1>2
  <2> HIDE DEF i, pay, rest, st
  <2> QED BY <1>1, <1>4, <2>1, Zenon DEF Infos
<1> HIDE DEF i, pay, rest, st
<1>6. miner' \in [Miners -> Infos]
  BY <1>3, <1>5, MinerWritten, Zenon
<1>7. loan' \in [Miners -> Loans] /\ book' \in [Miners -> Books]
  <2>1. CASE i.acct = Pool
    BY <1>2, <1>3, <2>1, StakingBooks, BooksWritten
  <2>2. CASE i.acct # Pool
    BY <1>3, <2>2 DEF books, TypeOK
  <2> QED BY <2>1, <2>2
<1>8. free' \in [Accounts -> Nat] /\ reserved' \in [Accounts -> Nat] /\ unbooked' \in Nat
  BY <1>1, <1>2, <1>3 DEF TypeOK
<1> QED BY <1>3, <1>6, <1>7, <1>8 DEF TypeOK

(* A fine leaves a record with less collateral.                             *)
LEMMA PunishedTyped ==
  ASSUME NEW i \in Infos, NEW n \in Nat, NEW tib
  PROVE  /\ Punished(i, n, tib) \in Infos
         /\ Punished(i, n, tib).acct = i.acct
         /\ Punished(i, n, tib).coll = i.coll - (IF i.coll > n THEN n ELSE i.coll)
         /\ Punished(i, n, tib).state \in {i.state, "frozen"}
<1> DEFINE coll == i.coll - (IF i.coll > n THEN n ELSE i.coll)
           debt == IF i.coll > n THEN i.debt ELSE n
           st == IF coll < calculate_limit_by_space(tib) THEN "frozen" ELSE i.state
<1>1. coll \in Nat /\ debt \in Nat
  BY DEF Infos
<1>2. st \in States /\ st \in {i.state, "frozen"}
  <2> HIDE DEF coll
  <2> QED BY Zenon DEF Infos, States
<1>3. Punished(i, n, tib) = [i EXCEPT !.coll = coll, !.debt = debt, !.state = st]
  BY DEF Punished
<1>4. /\ Punished(i, n, tib) \in Infos /\ Punished(i, n, tib).acct = i.acct
      /\ Punished(i, n, tib).coll = coll /\ Punished(i, n, tib).state = st
  <2> HIDE DEF coll, debt, st
  <2> QED BY <1>1, <1>3, <1>2, ZenonT(30) DEF Infos
<1> QED BY <1>4, <1>2

(* deposit_punish: the books lose at least what the account pays, and what  *)
(* the account had reserved it has free, or has paid.                       *)
LEMMA PunishStep ==
  ASSUME TypeOK, NEW m \in Miners, NEW n \in Nat, NEW tib, NEW inCall,
         deposit_punish(m, n, tib, inCall)
  PROVE  LET i == miner[m]
             taken == IF i.coll > n THEN n ELSE i.coll
         IN  /\ TypeOK'
             /\ UNCHANGED <<reservoir, event, lockLeft, due, target, returned, unbooked, stray>>
             /\ miner' = [miner EXCEPT ![m] = Punished(i, n, tib)] \/ miner' = miner
             /\ \A a \in Accounts \ {i.acct} : free'[a] = free[a] /\ reserved'[a] = reserved[a]
             /\ i.acct = Pool =>
                  /\ \A x \in Miners \ {m} : loan'[x] = loan[x] /\ book'[x] = book[x]
                  /\ free'[Pool] + reserved'[Pool] - Claim(book'[m], loan'[m])
                       >= free[Pool] + reserved[Pool] - Claim(book[m], loan[m])
             /\ i.acct # Pool => UNCHANGED books
             /\ overdrawn \subseteq overdrawn'
             /\ reserved'[i.acct] # reserved[i.acct] =>
                  /\ reserved[i.acct] >= taken => reserved'[i.acct] = reserved[i.acct] - taken
                  /\ returned[m] /\ taken > 0 /\ reserved[i.acct] > 0 => i.acct \in overdrawn'
                  /\ reserved[i.acct] >= taken => miner' = [miner EXCEPT ![m] = Punished(i, n, tib)]
             /\ reserved'[i.acct] <= reserved[i.acct]
<1> DEFINE i == miner[m]
           a == i.acct
           taken == IF i.coll > n THEN n ELSE i.coll
           p == punish(m, n)
           back == Unreservable(a, taken)
           ok == a = Pool => p.ok
           paid == ok /\ free[a] + back >= taken
<1>1. i \in Infos /\ a \in Accounts /\ i.coll \in Nat /\ taken \in Nat /\ taken <= n
  BY MinerTyped
<1>2. /\ IF a = Pool THEN SetBooks(m, p) ELSE UNCHANGED books
      /\ free' = IF ok THEN [free EXCEPT ![a] = @ + back - (IF paid THEN taken ELSE 0)] ELSE free
      /\ reserved' = IF ok THEN [reserved EXCEPT ![a] = @ - back] ELSE reserved
      /\ overdrawn' = IF ok THEN Gone(m, a, taken) ELSE overdrawn
      /\ miner' = IF paid THEN [miner EXCEPT ![m] = Punished(i, n, tib)] ELSE miner
      /\ UNCHANGED <<reservoir, event, lockLeft, due, target, returned, unbooked, stray>>
  BY DEF deposit_punish
<1>3. /\ back \in Nat /\ back <= taken /\ back <= reserved[a]
      /\ back = taken \/ back = reserved[a]
  <2> HIDE DEF taken, a, i
  <2> QED BY <1>1, UnreservableBounds
<1>4. /\ p.loan \in Loans /\ p.book \in Books
      /\ Claim(p.book, p.loan) <= Claim(book[m], loan[m]) - (IF p.ok THEN n ELSE 0)
  BY PunishBooks
<1>5. Punished(i, n, tib) \in Infos
  BY <1>1, PunishedTyped
<1>6. free \in [Accounts -> Nat] /\ reserved \in [Accounts -> Nat] /\ overdrawn \in SUBSET Accounts
  BY DEF TypeOK
<1>7. ok \in BOOLEAN /\ paid \in BOOLEAN /\ (paid => ok /\ free[a] + back >= taken)
  OBVIOUS
<1>8. /\ overdrawn \subseteq overdrawn' /\ overdrawn' \in SUBSET Accounts
      /\ ok /\ returned[m] /\ taken > 0 /\ reserved[a] > 0 => a \in overdrawn'
  BY <1>1, <1>2, <1>6, SMTT(30) DEF Gone
<1>9. ok /\ reserved[a] >= taken => paid
  BY <1>1, <1>3, <1>6
<1>10. loan' \in [Miners -> Loans] /\ book' \in [Miners -> Books]
  <2>1. CASE a = Pool
    BY <1>2, <1>4, <2>1, BooksWritten, SMTT(30)
  <2>2. CASE a # Pool
    BY <1>2, <2>2, SMTT(30) DEF books, TypeOK
  <2> QED BY <2>1, <2>2, SMTT(30)
<1>11. miner' \in [Miners -> Infos]
  BY <1>2, <1>5, Zenon DEF TypeOK
<1> HIDE DEF i, a, taken, p, back, ok, paid
<1>12. /\ free' \in [Accounts -> Nat] /\ reserved' \in [Accounts -> Nat]
       /\ \A x \in Accounts \ {a} : free'[x] = free[x] /\ reserved'[x] = reserved[x]
       /\ free'[a] + reserved'[a] = free[a] + reserved[a] - (IF paid THEN taken ELSE 0)
  BY <1>1, <1>2, <1>3, <1>6, <1>7
<1>13. TypeOK'
  BY <1>2, <1>8, <1>10, <1>11, <1>12 DEF TypeOK
<1>14. a = Pool =>
         /\ \A x \in Miners \ {m} : loan'[x] = loan[x] /\ book'[x] = book[x]
         /\ free'[Pool] + reserved'[Pool] - Claim(book'[m], loan'[m])
              >= free[Pool] + reserved[Pool] - Claim(book[m], loan[m])
  <2>1. SUFFICES ASSUME a = Pool
                 PROVE  /\ \A x \in Miners \ {m} : loan'[x] = loan[x] /\ book'[x] = book[x]
                        /\ free'[a] + reserved'[a] - Claim(book'[m], loan'[m])
                             >= free[a] + reserved[a] - Claim(book[m], loan[m])
    OBVIOUS
  <2>2. /\ \A x \in Miners \ {m} : loan'[x] = loan[x] /\ book'[x] = book[x]
        /\ loan'[m] = p.loan /\ book'[m] = p.book
    BY <1>2, <2>1 DEF SetBooks, TypeOK
  <2>3. Claim(p.book, p.loan) \in Nat /\ Claim(book[m], loan[m]) \in Nat
    BY <1>4, MinerTyped DEF Claim, Loans, Books
  <2>4. paid => p.ok
    BY <1>7, <2>1 DEF ok
  <2>5. free'[a] \in Nat /\ reserved'[a] \in Nat /\ free[a] \in Nat /\ reserved[a] \in Nat
    BY <1>1, <1>6, <1>12
  <2> QED BY <1>1, <1>4, <1>12, <2>2, <2>3, <2>4, <2>5, SMTT(30)
<1>15. reserved'[a] # reserved[a] =>
         /\ reserved[a] >= taken => reserved'[a] = reserved[a] - taken
         /\ returned[m] /\ taken > 0 /\ reserved[a] > 0 => a \in overdrawn'
         /\ reserved[a] >= taken => miner' = [miner EXCEPT ![m] = Punished(i, n, tib)]
  <2>1. CASE ~ok
    BY <1>2, <2>1
  <2>2. CASE ok
    <3>1. reserved'[a] = reserved[a] - back /\ reserved[a] \in Nat
      BY <1>1, <1>2, <1>6, <2>2
    <3>2. reserved[a] >= taken => miner' = [miner EXCEPT ![m] = Punished(i, n, tib)]
      BY <1>2, <1>9, <2>2
    <3>3. reserved[a] >= taken => reserved'[a] = reserved[a] - taken
      BY <1>1, <1>3, <3>1
    <3> QED BY <1>8, <2>2, <3>2, <3>3
  <2> QED BY <1>7, <2>1, <2>2
<1>16. reserved'[a] <= reserved[a]
  BY <1>1, <1>2, <1>3, <1>6, <1>7
<1> QED BY <1>2, <1>8, <1>12, <1>13, <1>14, <1>15, <1>16, Zenon DEF i, a, taken

(* miner_exit_prep.                                                         *)
LEMMA ExitPrepTyped ==
  ASSUME TypeOK, NEW s \in Miners, NEW m \in Miners, miner_exit_prep(s, m)
  PROVE  TypeOK'
<1>1. miner' \in [Miners -> Infos]
  BY StateTyped, Zenon DEF miner_exit_prep, States
<1>2. lockLeft' \in [Miners -> Nat \cup {-1}] /\ stray' \in SUBSET Miners
  BY StakeAssumption DEF miner_exit_prep, TypeOK
<1> QED BY <1>1, <1>2 DEF TypeOK, miner_exit_prep, reservoirVars

(* Giving the collateral of a miner back, at a forced exit or a withdrawal: *)
(* r is what the books become if the reservoir stakes for the miner.        *)
Refund(m) ==
  /\ Unreserve(miner[m].acct, miner[m].coll)
  /\ returned' = [returned EXCEPT ![m] = TRUE]
  /\ overdrawn' = Gone(m, miner[m].acct, miner[m].coll)

(* A refund keeps what the account owns; it takes the whole collateral out  *)
(* of what is reserved if that covers it, and an account that pays for a    *)
(* miner a second time is marked.                                           *)
LEMMA RefundStep ==
  ASSUME TypeOK, NEW m \in Miners, Refund(m)
  PROVE  LET a == miner[m].acct
         IN  /\ free' \in [Accounts -> Nat] /\ reserved' \in [Accounts -> Nat]
             /\ \A x \in Accounts : free'[x] + reserved'[x] = free[x] + reserved[x]
             /\ \A x \in Accounts \ {a} : reserved'[x] = reserved[x]
             /\ reserved[a] >= miner[m].coll => reserved'[a] = reserved[a] - miner[m].coll
             /\ reserved[a] = 0 => reserved'[a] = 0
             /\ overdrawn' \in SUBSET Accounts /\ overdrawn \subseteq overdrawn'
             /\ returned[m] /\ miner[m].coll > 0 /\ reserved[a] > 0 => a \in overdrawn'
             /\ returned' \in [Miners -> BOOLEAN]
<1> DEFINE a == miner[m].acct
           n == miner[m].coll
           u == Unreservable(a, n)
<1>1. a \in Accounts /\ n \in Nat
  BY MinerTyped
<1>2. /\ u \in Nat /\ u <= n /\ u <= reserved[a]
      /\ u = n \/ u = reserved[a]
  <2> HIDE DEF a, n
  <2> QED BY <1>1, UnreservableBounds
<1>3. /\ free' \in [Accounts -> Nat] /\ reserved' \in [Accounts -> Nat]
      /\ \A x \in Accounts : free'[x] + reserved'[x] = free[x] + reserved[x]
  <2>1. Unreserve(a, n)
    BY DEF Refund
  <2> HIDE DEF a, n
  <2> QED BY <1>1, <2>1, MoneyKept
<1>4. reserved' = [reserved EXCEPT ![a] = @ - u] /\ reserved \in [Accounts -> Nat]
  BY DEF Refund, Unreserve, TypeOK
<1>5. /\ overdrawn' \in SUBSET Accounts /\ overdrawn \subseteq overdrawn'
      /\ returned[m] /\ n > 0 /\ reserved[a] > 0 => a \in overdrawn'
      /\ returned' \in [Miners -> BOOLEAN]
  BY <1>1 DEF Refund, Gone, TypeOK
<1> HIDE DEF u
<1>6. reserved'[a] = reserved[a] - u /\ \A x \in Accounts \ {a} : reserved'[x] = reserved[x]
  BY <1>1, <1>4
<1>7. /\ reserved[a] >= n => reserved'[a] = reserved[a] - n
      /\ reserved[a] = 0 => reserved'[a] = 0
  <2>1. reserved[a] \in Nat
    BY <1>1, <1>4
  <2> HIDE DEF a, n
  <2> QED BY <1>1, <1>2, <1>6, <2>1
<1> QED BY <1>3, <1>5, <1>6, <1>7

(* The books after a redemption, if the reservoir stakes for the miner.     *)
Redeemed(m) == IF miner[m].acct = Pool THEN SetBooks(m, redeem(m, miner[m].coll))
               ELSE UNCHANGED books

(* A redemption keeps the claims of every miner.                            *)
LEMMA RedeemedStep ==
  ASSUME TypeOK, NEW m \in Miners, Redeemed(m) \/ UNCHANGED books
  PROVE  /\ loan' \in [Miners -> Loans] /\ book' \in [Miners -> Books]
         /\ \A x \in Miners : Claim(book'[x], loan'[x]) = Claim(book[x], loan[x])
<1>1. miner[m].coll \in Nat
  BY MinerTyped
<1>2. CASE UNCHANGED books
  BY <1>2 DEF books, TypeOK
<1>3. CASE SetBooks(m, redeem(m, miner[m].coll))
  <2> DEFINE r == redeem(m, miner[m].coll)
  <2>1. r.loan \in Loans /\ r.book \in Books /\ Claim(r.book, r.loan) = Claim(book[m], loan[m])
    BY <1>1, RedeemBooks
  <2>2. loan' = [loan EXCEPT ![m] = r.loan] /\ book' = [book EXCEPT ![m] = r.book]
    BY <1>3 DEF SetBooks
  <2> HIDE DEF r
  <2>3. ASSUME NEW x \in Miners PROVE Claim(book'[x], loan'[x]) = Claim(book[x], loan[x])
    <3>1. CASE x = m
      <4>1. book'[x] = r.book /\ loan'[x] = r.loan
        BY <2>2, <3>1 DEF TypeOK
      <4> QED BY <2>1, <3>1, <4>1
    <3>2. CASE x # m
      <4>1. book'[x] = book[x] /\ loan'[x] = loan[x]
        BY <2>2, <3>2, SMTT(30) DEF TypeOK
      <4> QED BY <4>1
    <3> QED BY <3>1, <3>2
  <2> QED BY <2>1, <2>2, <2>3 DEF TypeOK
<1> QED BY <1>2, <1>3 DEF Redeemed

(* miner_withdraw is a refund and a redemption.                             *)
LEMMA WithdrawStep ==
  ASSUME TypeOK, NEW m \in Miners, miner_withdraw(m)
  PROVE  /\ TypeOK' /\ Refund(m) /\ Redeemed(m)
         /\ UNCHANGED <<reservoir, event, stakeVars, unbooked, stray>>
<1>1. /\ Refund(m) /\ Redeemed(m)
      /\ UNCHANGED <<reservoir, event, stakeVars, unbooked, stray>>
  BY DEF miner_withdraw, Refund, Redeemed
<1> QED BY <1>1, RefundStep, RedeemedStep, SMTT(30) DEF TypeOK, stakeVars

(* A forced exit: the collateral is given back, or is due later, or nothing *)
(* happens to it.                                                           *)
LEMMA ForceExitStep ==
  ASSUME TypeOK, NEW m \in Miners, force_miner_exit(m)
  PROVE  /\ TypeOK'
         /\ Challenged(m)
         /\ Redeemed(m) \/ UNCHANGED books
         /\ Refund(m) \/ UNCHANGED <<money, returned, overdrawn>>
         /\ \/ due' = due
            \/ \E wait \in Nat \ {0} :
                 /\ due' = [due EXCEPT ![m] = [left |-> wait, amount |-> miner[m].coll]]
                 /\ miner' = [miner EXCEPT ![m].state = "offline"]
         /\ miner' = miner \/ miner' = [miner EXCEPT ![m].state = "offline"]
         /\ UNCHANGED <<reservoir, event, lockLeft, unbooked, stray>>
<1> DEFINE i == miner[m]
           r == redeem(m, i.coll)
           ok == IF i.rewarded THEN i.age >= 0 ELSE i.acct = Pool => r.ok
           wait == IF i.age < StakingLock THEN StakingLock - i.age ELSE 0
<1>1. i.rewarded \in BOOLEAN /\ i.age \in Nat \cup {-1} /\ i.coll \in Nat
  BY MinerTyped DEF Infos
<1>2. /\ Challenged(m)
      /\ IF ~i.rewarded /\ i.acct = Pool THEN SetBooks(m, r) ELSE UNCHANGED books
      /\ IF ~i.rewarded /\ ok THEN Refund(m) ELSE UNCHANGED <<money, returned, overdrawn>>
      /\ due' = IF i.rewarded /\ ok /\ wait > 0
                THEN [due EXCEPT ![m] = [left |-> wait, amount |-> i.coll]] ELSE due
      /\ \/ ok /\ miner' = [miner EXCEPT ![m].state = "offline"]
               /\ target' = [target EXCEPT ![m] = Cooling]
         \/ ~ok /\ UNCHANGED <<miner, target>>
      /\ UNCHANGED <<reservoir, event, lockLeft, unbooked, stray>>
  BY DEF force_miner_exit, Refund
<1>3. Redeemed(m) \/ UNCHANGED books
  BY <1>2 DEF Redeemed
<1>4. Refund(m) \/ UNCHANGED <<money, returned, overdrawn>>
  BY <1>2
<1>5. miner' = miner \/ miner' = [miner EXCEPT ![m].state = "offline"]
  BY <1>2
<1>6. \/ due' = due
      \/ /\ i.rewarded /\ ok /\ wait > 0
         /\ due' = [due EXCEPT ![m] = [left |-> wait, amount |-> i.coll]]
  BY <1>2
<1>7. i.rewarded /\ ok /\ wait > 0 => wait \in Nat \ {0} /\ miner' = [miner EXCEPT ![m].state = "offline"]
  BY <1>1, <1>2, StakeAssumption
<1>8. miner' \in [Miners -> Infos]
  BY <1>5, StateTyped, Zenon DEF States, TypeOK
<1>9. target' \in [Miners -> Nat \cup {-1}]
  BY <1>2, StakeAssumption, ZenonT(30) DEF TypeOK
<1>10. due' \in [Miners -> [left : Nat, amount : Nat]]
  <2>1. CASE due' = due
    BY <2>1 DEF TypeOK
  <2>2. CASE i.rewarded /\ ok /\ wait > 0 /\ due' = [due EXCEPT ![m] = [left |-> wait, amount |-> i.coll]]
    <3>1. wait \in Nat
      BY <1>7, <2>2
    <3> HIDE DEF wait, i, ok
    <3> QED BY <1>1, <2>2, <3>1 DEF TypeOK
  <2> QED BY <1>6, <2>1, <2>2
<1>11. loan' \in [Miners -> Loans] /\ book' \in [Miners -> Books]
  BY <1>3, RedeemedStep
<1>12. /\ free' \in [Accounts -> Nat] /\ reserved' \in [Accounts -> Nat]
       /\ overdrawn' \in SUBSET Accounts /\ returned' \in [Miners -> BOOLEAN]
  <2>1. CASE Refund(m)
    BY <2>1, RefundStep
  <2>2. CASE UNCHANGED <<money, returned, overdrawn>>
    BY <2>2 DEF TypeOK, money
  <2> QED BY <1>4, <2>1, <2>2
<1>13. TypeOK'
  BY <1>2, <1>8, <1>9, <1>10, <1>11, <1>12 DEF TypeOK
<1>14. \/ due' = due
       \/ \E w \in Nat \ {0} :
            /\ due' = [due EXCEPT ![m] = [left |-> w, amount |-> miner[m].coll]]
            /\ miner' = [miner EXCEPT ![m].state = "offline"]
  BY <1>6, <1>7
<1> QED BY <1>2, <1>3, <1>4, <1>5, <1>13, <1>14, ZenonT(30)

(* What falls due for an account is a natural number.                       *)
DueSummed == \A a \in Accounts : SumFunctionOnSet(DueTo(a), Miners) \in Nat

(* The next block: the accounts keep their sums, the books their claims.    *)
LEMMA BlockStep ==
  ASSUME TypeOK, DueSummed, next_block
  PROVE  /\ TypeOK'
         /\ \A a \in Accounts : free'[a] + reserved'[a] = free[a] + reserved[a]
         /\ \A m \in Miners : Claim(book'[m], loan'[m]) = Claim(book[m], loan[m])
         /\ \A m \in Miners : /\ miner'[m].acct = miner[m].acct /\ miner'[m].coll = miner[m].coll
                              /\ miner'[m].state = IF m \in Exiting THEN "exit" ELSE miner[m].state
<1> DEFINE r(m) == IF m \in Returning /\ miner[m].acct = Pool THEN redeem(m, due[m].amount)
                   ELSE [loan |-> loan[m], book |-> book[m]]
<1>1. /\ loan' = [m \in Miners |-> AgedLoan(r(m).loan)]
      /\ book' = [m \in Miners |-> r(m).book]
  BY ZenonT(30) DEF next_block
<1>2. /\ free' = [a \in Accounts |-> free[a] + ReturnedTo(a)]
      /\ reserved' = [a \in Accounts |-> reserved[a] - ReturnedTo(a)]
      /\ lockLeft' = [m \in Miners |-> IF lockLeft[m] < 0 THEN -1 ELSE lockLeft[m] - 1]
      /\ target' = [m \in Miners |-> IF m \in Exiting THEN Cooling
                                     ELSE IF target[m] > 0 THEN target[m] - 1 ELSE target[m]]
      /\ returned' = [m \in Miners |-> returned[m] \/ m \in Returning]
      /\ overdrawn' = overdrawn \cup {miner[m].acct : m \in {x \in Returning : returned[x]}}
  BY ZenonT(30) DEF next_block
<1>3. ASSUME NEW m \in Miners
      PROVE  /\ AgedLoan(r(m).loan) \in Loans /\ r(m).book \in Books
             /\ Claim(r(m).book, AgedLoan(r(m).loan)) = Claim(book[m], loan[m])
  <2>1. /\ r(m).loan \in Loans /\ r(m).book \in Books
        /\ Claim(r(m).book, r(m).loan) = Claim(book[m], loan[m])
    <3>1. due[m].amount \in Nat
      BY SMTT(30) DEF TypeOK
    <3>2. CASE m \in Returning /\ miner[m].acct = Pool
      BY <3>1, <3>2, RedeemBooks, SMTT(30)
    <3>3. CASE ~(m \in Returning /\ miner[m].acct = Pool)
      BY <3>3, MinerTyped, Zenon
    <3> QED BY <3>2, <3>3, Zenon
  <2> DEFINE l == r(m).loan
             left == Max({l.left - 1, 0})
  <2>2. left \in Nat
    <3>1. l \in Loans
      BY <2>1, Zenon
    <3> HIDE DEF r, l
    <3>2. l.left - 1 \in Int
      BY <3>1 DEF Loans
    <3> QED BY <3>2, MaxPair, SMTT(30)
  <2>3. AgedLoan(l) = [l EXCEPT !.left = left]
    BY DEF AgedLoan
  <2> HIDE DEF l, left
  <2>4. AgedLoan(l) \in Loans /\ AgedLoan(l).free = l.free /\ AgedLoan(l).staking = l.staking
    <3>1. l \in Loans
      BY <2>1 DEF l
    <3> QED BY <2>2, <2>3, <3>1 DEF Loans
  <2>5. AgedLoan(r(m).loan) \in Loans /\ Claim(r(m).book, AgedLoan(r(m).loan)) = Claim(r(m).book, r(m).loan)
    BY <2>4, Zenon DEF Claim, l
  <2> QED BY <2>1, <2>5, ZenonT(30)
<1> HIDE DEF r
<1>4. /\ loan' \in [Miners -> Loans] /\ book' \in [Miners -> Books]
      /\ \A m \in Miners : Claim(book'[m], loan'[m]) = Claim(book[m], loan[m])
  BY <1>1, <1>3
<1>5. ASSUME NEW a \in Accounts
      PROVE  ReturnedTo(a) \in Nat /\ ReturnedTo(a) <= reserved[a]
  <2>1. SumFunctionOnSet(DueTo(a), Miners) \in Nat
    BY DEF DueSummed
  <2>2. reserved[a] \in Nat
    BY DEF TypeOK
  <2> QED BY <2>1, <2>2, MinPair DEF ReturnedTo
<1>6. /\ free' \in [Accounts -> Nat] /\ reserved' \in [Accounts -> Nat]
      /\ \A a \in Accounts : free'[a] + reserved'[a] = free[a] + reserved[a]
  <2>1. free \in [Accounts -> Nat] /\ reserved \in [Accounts -> Nat]
    BY DEF TypeOK
  <2> QED BY <1>2, <1>5, <2>1
<1>7. ASSUME NEW m \in Miners
      PROVE  LET i == [miner[m] EXCEPT !.age = Older(m),
                                       !.state = IF m \in Exiting THEN "exit" ELSE @]
             IN  /\ i \in Infos /\ i.acct = miner[m].acct /\ i.coll = miner[m].coll
                 /\ i.state = IF m \in Exiting THEN "exit" ELSE miner[m].state
  <2> DEFINE st == IF m \in Exiting THEN "exit" ELSE miner[m].state
  <2>1. miner[m] \in Infos
    BY MinerTyped
  <2>2. Older(m) \in Nat \cup {-1}
    BY <2>1 DEF Older, Infos
  <2>3. st \in States
    BY <2>1, Zenon DEF Infos, States
  <2>4. LET i == [miner[m] EXCEPT !.age = Older(m), !.state = st]
        IN  i \in Infos /\ i.acct = miner[m].acct /\ i.coll = miner[m].coll /\ i.state = st
    <3> HIDE DEF st
    <3> QED BY <2>1, <2>2, <2>3, Zenon DEF Infos
  <2> QED BY <2>4, SMTT(30)
<1>8. /\ miner' \in [Miners -> Infos]
      /\ \A m \in Miners : /\ miner'[m].acct = miner[m].acct /\ miner'[m].coll = miner[m].coll
                           /\ miner'[m].state = IF m \in Exiting THEN "exit" ELSE miner[m].state
  BY <1>7, Zenon DEF next_block
<1>9. /\ lockLeft' \in [Miners -> Nat \cup {-1}] /\ target' \in [Miners -> Nat \cup {-1}]
      /\ due' \in [Miners -> [left : Nat, amount : Nat]]
  <2>1. lockLeft' \in [Miners -> Nat \cup {-1}]
    <3>1. \A m \in Miners : lockLeft[m] \in Nat \cup {-1}
      BY DEF TypeOK
    <3>2. \A m \in Miners : (IF lockLeft[m] < 0 THEN -1 ELSE lockLeft[m] - 1) \in Nat \cup {-1}
      BY <3>1
    <3> QED BY <1>2, <3>2
  <2>2. target' \in [Miners -> Nat \cup {-1}]
    <3>1. \A m \in Miners : target[m] \in Nat \cup {-1}
      BY DEF TypeOK
    <3>2. Cooling \in Nat
      BY StakeAssumption
    <3>3. \A m \in Miners : (IF m \in Exiting THEN Cooling
                              ELSE IF target[m] > 0 THEN target[m] - 1 ELSE target[m]) \in Nat \cup {-1}
      BY <3>1, <3>2
    <3> QED BY <1>2, <3>3
  <2>3. due' \in [Miners -> [left : Nat, amount : Nat]]
    <3>1. ASSUME NEW m \in Miners, due[m].left > 1
          PROVE  [due[m] EXCEPT !.left = due[m].left - 1] \in [left : Nat, amount : Nat]
      <4>1. due[m] \in [left : Nat, amount : Nat] /\ due[m].left - 1 \in Nat
        BY <3>1 DEF TypeOK
      <4> QED BY <4>1
    <3>2. NotDue \in [left : Nat, amount : Nat]
      BY DEF NotDue
    <3> QED BY <3>1, <3>2, Zenon DEF next_block
  <2> QED BY <2>1, <2>2, <2>3
<1>10. /\ returned' \in [Miners -> BOOLEAN] /\ overdrawn' \in SUBSET Accounts
  <2>1. \A m \in Miners : miner[m].acct \in Accounts
    BY MinerTyped
  <2>2. overdrawn \in SUBSET Accounts /\ Returning \subseteq Miners
    BY DEF TypeOK, Returning
  <2> QED BY <1>2, <2>1, <2>2
<1>11. event' \in [on : BOOLEAN, quota : Nat, left : Nat]
  <2>1. event \in [on : BOOLEAN, quota : Nat, left : Nat] /\ event.left \in Nat
    BY DEF TypeOK
  <2>2. Max({event.left - 1, 0}) \in Nat
    BY <2>1, MaxPair
  <2>3. event' = NoEvent \/ event' = [event EXCEPT !.left = Max({event.left - 1, 0})]
    BY Zenon DEF next_block, AgeEvent
  <2>4. NoEvent \in [on : BOOLEAN, quota : Nat, left : Nat]
    BY DEF NoEvent
  <2> DEFINE left == Max({event.left - 1, 0})
  <2>5. [event EXCEPT !.left = left] \in [on : BOOLEAN, quota : Nat, left : Nat]
    <3>1. left \in Nat
      BY <2>2
    <3> HIDE DEF left
    <3> QED BY <2>1, <3>1
  <2> QED BY <2>3, <2>4, <2>5
<1> QED BY <1>4, <1>6, <1>8, <1>9, <1>10, <1>11, ZenonT(30) DEF TypeOK, next_block

(* A transfer moves the amount.                                             *)
LEMMA TransferStep ==
  ASSUME TypeOK, NEW a \in Accounts, NEW b \in Accounts, NEW n \in Nat, a # b,
         Transfer(a, b, n)
  PROVE  /\ free' \in [Accounts -> Nat]
         /\ free'[a] = free[a] - n /\ free'[b] = free[b] + n
<1>1. free \in [Accounts -> Nat]
  BY DEF TypeOK
<1>2. \A x \in Accounts : free'[x] = free[x] - (IF x = a THEN n ELSE 0) + (IF x = b THEN n ELSE 0)
  BY DEF Transfer
<1>3. free[a] >= n
  BY DEF Transfer
<1>4. \A x \in Accounts : free'[x] \in Nat
  BY <1>1, <1>2, <1>3
<1>5. DOMAIN free' = Accounts /\ free' = [x \in Accounts |-> free'[x]]
  BY DEF Transfer
<1> QED BY <1>1, <1>2, <1>4, <1>5

(* The calls of the reservoir: its account takes in what it owes then.      *)
LEMMA ReservoirStep ==
  ASSUME TypeOK, ReservoirNext, UNCHANGED <<stakeVars, history>>
  PROVE  /\ TypeOK' /\ reserved' = reserved
         /\ \/ \E m \in Miners :
                 /\ \A x \in Miners \ {m} : book'[x] = book[x] /\ loan'[x] = loan[x]
                 /\ free'[Pool] - reservoir'.free - Claim(book'[m], loan'[m])
                      >= free[Pool] - reservoir.free - Claim(book[m], loan[m])
            \/ UNCHANGED <<books, money, reservoir>>
<1>1. /\ free \in [Accounts -> Nat] /\ reservoir \in [free : Nat, borrow : Nat, store : Nat]
      /\ loan \in [Miners -> Loans] /\ book \in [Miners -> Books]
      /\ event \in [on : BOOLEAN, quota : Nat, left : Nat]
  BY DEF TypeOK
<1>2. UNCHANGED <<miner, lockLeft, due, target, returned, overdrawn, unbooked, stray>>
  BY SMTT(30) DEF stakeVars, history
<1>3. ASSUME NEW a \in Lent, NEW n \in Coins
      PROVE  /\ a \in Miners /\ a \in Accounts /\ Pool \in Accounts /\ a # Pool /\ n \in Nat
             /\ book[a] \in Books /\ loan[a] \in Loans
             /\ free[Pool] \in Nat /\ reservoir.free \in Nat
             /\ Claim(book[a], loan[a]) \in Nat
  BY <1>1, ReservoirAssumption DEF Accounts, Claim, Books, Loans
<1>4. ASSUME NEW a \in Lent, NEW n \in Coins, filling(a, n) PROVE
        /\ TypeOK' /\ reserved' = reserved /\ UNCHANGED books
        /\ free'[Pool] - reservoir'.free >= free[Pool] - reservoir.free
  <2>1. free' \in [Accounts -> Nat] /\ free'[Pool] = free[Pool] + n
    BY <1>3, <1>4, TransferStep DEF filling
  <2>2. /\ reservoir' \in [free : Nat, borrow : Nat, store : Nat]
        /\ reservoir'.free = reservoir.free + n
    BY <1>1, <1>3, <1>4 DEF filling
  <2> QED BY <1>2, <1>3, <1>4, <2>1, <2>2 DEF TypeOK, filling, books
<1>5. ASSUME NEW a \in Lent, NEW n \in Coins, event_withdraw(a, n) PROVE
        /\ TypeOK' /\ reserved' = reserved /\ UNCHANGED books
        /\ free'[Pool] - reservoir'.free >= free[Pool] - reservoir.free
  <2>1. free' \in [Accounts -> Nat] /\ free'[Pool] = free[Pool] - n
    BY <1>3, <1>5, TransferStep DEF event_withdraw
  <2>2. /\ reservoir' \in [free : Nat, borrow : Nat, store : Nat]
        /\ reservoir'.free = reservoir.free - n
    BY <1>1, <1>3, <1>5 DEF event_withdraw
  <2> QED BY <1>2, <1>3, <1>5, <2>1, <2>2 DEF TypeOK, event_withdraw, books
<1>6. ASSUME NEW a \in Lent, NEW n \in Coins, store(a, n) PROVE
        /\ TypeOK' /\ reserved' = reserved
        /\ \A x \in Miners \ {a} : book'[x] = book[x] /\ loan'[x] = loan[x]
        /\ free'[Pool] - reservoir'.free - Claim(book'[a], loan'[a])
             >= free[Pool] - reservoir.free - Claim(book[a], loan[a])
  <2>1. free' \in [Accounts -> Nat] /\ free'[Pool] = free[Pool] + n
    BY <1>3, <1>6, TransferStep DEF store
  <2>2. /\ reservoir' \in [free : Nat, borrow : Nat, store : Nat]
        /\ reservoir'.free = reservoir.free
    BY <1>1, <1>3, <1>6 DEF store
  <2>3. /\ book' \in [Miners -> Books] /\ loan' = loan
        /\ \A x \in Miners \ {a} : book'[x] = book[x]
        /\ book'[a].free = book[a].free + n /\ book'[a].staking = book[a].staking
    <3>1. book' = [book EXCEPT ![a] = [book[a] EXCEPT !.free = book[a].free + n]] /\ loan' = loan
      BY <1>6 DEF store
    <3>2. book[a].free + n \in Nat
      BY <1>3 DEF Books
    <3>3. /\ [book[a] EXCEPT !.free = book[a].free + n] \in Books
          /\ [book[a] EXCEPT !.free = book[a].free + n].free = book[a].free + n
          /\ [book[a] EXCEPT !.free = book[a].free + n].staking = book[a].staking
      BY <1>3, <3>2, SMTT(30) DEF Books
    <3> QED BY <1>1, <1>3, <3>1, <3>3
  <2>4. Claim(book'[a], loan'[a]) = Claim(book[a], loan[a]) + n
    BY <1>3, <2>3 DEF Claim, Books, Loans
  <2>5. TypeOK'
    BY <1>2, <1>6, <2>1, <2>2, <2>3 DEF TypeOK, store
  <2> QED BY <1>3, <1>6, <2>1, <2>2, <2>3, <2>4, <2>5 DEF store
<1>7. ASSUME NEW a \in Lent, NEW n \in Coins, withdraw(a, n) PROVE
        /\ TypeOK' /\ reserved' = reserved
        /\ \A x \in Miners \ {a} : book'[x] = book[x] /\ loan'[x] = loan[x]
        /\ free'[Pool] - reservoir'.free - Claim(book'[a], loan'[a])
             >= free[Pool] - reservoir.free - Claim(book[a], loan[a])
  <2>1. free' \in [Accounts -> Nat] /\ free'[Pool] = free[Pool] - n
    BY <1>3, <1>7, TransferStep DEF withdraw
  <2>2. /\ reservoir' \in [free : Nat, borrow : Nat, store : Nat]
        /\ reservoir'.free = reservoir.free
    BY <1>1, <1>3, <1>7 DEF withdraw
  <2>3. /\ book' \in [Miners -> Books] /\ loan' = loan
        /\ \A x \in Miners \ {a} : book'[x] = book[x]
        /\ book'[a].free = book[a].free - n /\ book'[a].staking = book[a].staking
    <3>1. book' = [book EXCEPT ![a] = [book[a] EXCEPT !.free = book[a].free - n]] /\ loan' = loan
      BY <1>7 DEF withdraw
    <3>2. book[a].free - n \in Nat
      BY <1>3, <1>7 DEF Books, withdraw
    <3>3. /\ [book[a] EXCEPT !.free = book[a].free - n] \in Books
          /\ [book[a] EXCEPT !.free = book[a].free - n].free = book[a].free - n
          /\ [book[a] EXCEPT !.free = book[a].free - n].staking = book[a].staking
      BY <1>3, <3>2 DEF Books
    <3> QED BY <1>1, <1>3, <3>1, <3>3
  <2>4. Claim(book'[a], loan'[a]) = Claim(book[a], loan[a]) - n
    BY <1>3, <2>3 DEF Claim, Books, Loans
  <2>5. TypeOK'
    BY <1>2, <1>7, <2>1, <2>2, <2>3, SMTT(30) DEF TypeOK, withdraw
  <2> QED BY <1>3, <1>7, <2>1, <2>2, <2>3, <2>4, <2>5 DEF withdraw
<1>8. ASSUME create_event PROVE TypeOK' /\ UNCHANGED <<books, money, reservoir>>
  BY <1>1, <1>2, <1>8, ReservoirAssumption DEF TypeOK, create_event, money, books
<1>9. ASSUME NEW m \in Lent, attend_event(m) PROVE
        /\ TypeOK' /\ reserved' = reserved /\ m \in Miners
        /\ \A x \in Miners \ {m} : book'[x] = book[x] /\ loan'[x] = loan[x]
        /\ free'[Pool] - reservoir'.free - Claim(book'[m], loan'[m])
             >= free[Pool] - reservoir.free - Claim(book[m], loan[m])
  <2> DEFINE back == IF loan[m].on THEN loan[m].free ELSE 0
             l == [on |-> TRUE, free |-> UnitAmount, staking |-> 0, left |-> BorrowPeriod]
  <2>1. m \in Miners /\ loan[m] \in Loans /\ book[m] \in Books /\ back \in Nat /\ back <= loan[m].free
    BY <1>1, ReservoirAssumption DEF Loans
  <2>2. l \in Loans
    BY ReservoirAssumption DEF Loans
  <2>3. /\ loan' = [loan EXCEPT ![m] = l] /\ UNCHANGED <<free, reserved, book>>
        /\ reservoir.borrow >= back /\ reservoir.free + back >= UnitAmount
        /\ reservoir' = [reservoir EXCEPT !.borrow = @ - back + UnitAmount,
                                          !.free = @ + back - UnitAmount]
        /\ event' = [event EXCEPT !.quota = @ - 1] /\ event.quota > 0
    BY <1>9 DEF attend_event, money
  <2>4. /\ loan' \in [Miners -> Loans] /\ loan'[m] = l
        /\ \A x \in Miners \ {m} : book'[x] = book[x] /\ loan'[x] = loan[x]
    <3> HIDE DEF l
    <3> QED BY <1>1, <2>1, <2>2, <2>3
  <2> DEFINE bo == reservoir.borrow - back + UnitAmount
             fr == reservoir.free + back - UnitAmount
  <2>5. bo \in Nat /\ fr \in Nat
    <3> HIDE DEF back, l
    <3> QED BY <1>1, <2>1, <2>3, ReservoirAssumption
  <2>6. reservoir' \in [free : Nat, borrow : Nat, store : Nat] /\ reservoir'.free = fr
    <3>1. reservoir' = [reservoir EXCEPT !.borrow = bo, !.free = fr]
      BY <2>3
    <3> HIDE DEF bo, fr
    <3> QED BY <1>1, <2>5, <3>1, Zenon
  <2>7. event' \in [on : BOOLEAN, quota : Nat, left : Nat]
    <3>1. event.quota - 1 \in Nat
      BY <1>1, <2>3
    <3> QED BY <1>1, <2>3, <3>1
  <2>8. TypeOK'
    BY <1>2, <2>3, <2>4, <2>6, <2>7 DEF TypeOK
  <2>9. Claim(book'[m], loan'[m]) = book[m].free + book[m].staking + UnitAmount
    BY <2>1, <2>3, <2>4, ReservoirAssumption, SMTT(30) DEF Claim, Books
  <2>10. free'[Pool] - reservoir'.free - Claim(book'[m], loan'[m])
             >= free[Pool] - reservoir.free - Claim(book[m], loan[m])
    <3>1. free'[Pool] = free[Pool] /\ free[Pool] \in Nat /\ reservoir.free \in Nat
      BY <1>1, <2>3 DEF Accounts
    <3>2. Claim(book[m], loan[m]) >= book[m].free + book[m].staking + back
      <4> HIDE DEF back
      <4> QED BY <2>1 DEF Claim, Loans, Books
    <3>3. book[m].free \in Nat /\ book[m].staking \in Nat /\ Claim(book[m], loan[m]) \in Nat
      BY <2>1 DEF Claim, Loans, Books
    <3> HIDE DEF back, l
    <3> QED BY <2>1, <2>6, <2>9, <3>1, <3>2, <3>3, ReservoirAssumption
  <2> QED BY <2>1, <2>3, <2>4, <2>8, <2>10, SMTT(30)
<1>10. ASSUME UNCHANGED books, NEW a \in Lent,
              free'[Pool] - reservoir'.free >= free[Pool] - reservoir.free, TypeOK'
       PROVE  /\ \A x \in Miners \ {a} : book'[x] = book[x] /\ loan'[x] = loan[x]
              /\ free'[Pool] - reservoir'.free - Claim(book'[a], loan'[a])
                   >= free[Pool] - reservoir.free - Claim(book[a], loan[a])
  <2>1. /\ book' = book /\ loan' = loan /\ a \in Miners
        /\ Claim(book[a], loan[a]) \in Nat
    BY <1>1, <1>10, ReservoirAssumption DEF books, Claim, Books, Loans
  <2>2. /\ free[Pool] \in Nat /\ reservoir.free \in Nat
        /\ free'[Pool] \in Nat /\ reservoir'.free \in Nat
    BY <1>1, <1>10 DEF Accounts, TypeOK
  <2> QED BY <1>10, <2>1, <2>2, SMTT(30)
<1>11. Lent \subseteq Miners
  BY ReservoirAssumption
<1> QED BY <1>4, <1>5, <1>6, <1>7, <1>8, <1>9, <1>10, <1>11, ZenonT(30) DEF ReservoirNext, money

(* The calls that only change the state, the declared space or the rewards  *)
(* of one record.                                                           *)
Minor(m) ==
  \/ register_pois_key(m)
  \/ \E tib \in Tibs : increase_declaration_space(m, tib)
  \/ receive_reward(m)

(* They keep the account and the collateral, and never lock.                *)
LEMMA MinorStep ==
  ASSUME TypeOK, NEW m \in Miners, Minor(m)
  PROVE  /\ TypeOK' /\ UNCHANGED <<reservoirVars, lockLeft, due, target, history>>
         /\ \A x \in Miners \ {m} : miner'[x] = miner[x]
         /\ miner'[m].acct = miner[m].acct /\ miner'[m].coll = miner[m].coll
         /\ miner[m].state \notin {"none", "offline", "lock"}
         /\ miner'[m].state \in {miner[m].state, "positive", "frozen"}
<1>1. miner \in [Miners -> Infos] /\ miner[m] \in Infos
  BY MinerTyped DEF TypeOK
<1>2. UNCHANGED <<reservoirVars, lockLeft, due, target, history>>
  BY Zenon DEF Minor, register_pois_key, increase_declaration_space, receive_reward
<1>3. \E i \in Infos : /\ miner' = [miner EXCEPT ![m] = i]
                       /\ i.acct = miner[m].acct /\ i.coll = miner[m].coll
                       /\ miner[m].state \notin {"none", "offline", "lock"}
                       /\ i.state \in {miner[m].state, "positive", "frozen"}
  <2>1. CASE register_pois_key(m)
    <3> DEFINE st == IF Enough(miner[m]) THEN "positive" ELSE "frozen"
               i == [miner[m] EXCEPT !.state = st]
    <3>1. miner' = [miner EXCEPT ![m] = i] /\ miner[m].state = "not ready"
      BY <2>1, Zenon DEF register_pois_key
    <3>2. st \in {"positive", "frozen"}
      OBVIOUS
    <3> HIDE DEF st
    <3>3. i \in Infos /\ i.acct = miner[m].acct /\ i.coll = miner[m].coll /\ i.state = st
      BY <1>1, <3>2, Zenon DEF Infos, States
    <3> QED BY <3>1, <3>2, <3>3, Zenon
  <2>2. ASSUME NEW tib \in Tibs, increase_declaration_space(m, tib)
        PROVE  \E i \in Infos : /\ miner' = [miner EXCEPT ![m] = i]
                                /\ i.acct = miner[m].acct /\ i.coll = miner[m].coll
                                /\ miner[m].state \notin {"none", "offline", "lock"}
                                /\ i.state \in {miner[m].state, "positive", "frozen"}
    <3> DEFINE t == miner[m].tib + tib
               more == [miner[m] EXCEPT !.tib = t]
               st == IF Enough(more) THEN more.state ELSE "frozen"
               i == [more EXCEPT !.state = st]
    <3>1. miner' = [miner EXCEPT ![m] = i] /\ miner[m].state = "positive"
      BY <2>2, SMTT(30) DEF increase_declaration_space
    <3>2. t \in Nat
      BY <1>1, StakeAssumption DEF Infos
    <3> HIDE DEF t
    <3>3. more \in Infos /\ more.acct = miner[m].acct /\ more.coll = miner[m].coll
          /\ more.state = miner[m].state
      BY <1>1, <3>2 DEF Infos
    <3> HIDE DEF more
    <3>4. st \in {"positive", "frozen"}
      BY <3>1, <3>3
    <3> HIDE DEF st
    <3>5. i \in Infos /\ i.acct = more.acct /\ i.coll = more.coll /\ i.state = st
      BY <3>3, <3>4, Zenon DEF Infos, States
    <3> QED BY <3>1, <3>3, <3>4, <3>5, Zenon
  <2>3. CASE receive_reward(m)
    <3> DEFINE i == [miner[m] EXCEPT !.rewarded = TRUE]
    <3>1. miner' = [miner EXCEPT ![m] = i] /\ miner[m].state \in {"positive", "exit"}
      BY <2>3 DEF receive_reward
    <3>2. i \in Infos /\ i.acct = miner[m].acct /\ i.coll = miner[m].coll /\ i.state = miner[m].state
      BY <1>1, Zenon DEF Infos
    <3> QED BY <3>1, <3>2, Zenon
  <2> QED BY <2>1, <2>2, <2>3 DEF Minor
<1>4. PICK i \in Infos : /\ miner' = [miner EXCEPT ![m] = i]
                         /\ i.acct = miner[m].acct /\ i.coll = miner[m].coll
                         /\ miner[m].state \notin {"none", "offline", "lock"}
                         /\ i.state \in {miner[m].state, "positive", "frozen"}
  BY <1>3, Zenon
<1>5. miner' \in [Miners -> Infos]
  BY <1>4, MinerWritten, ZenonT(30)
<1>6. TypeOK'
  BY <1>2, <1>5 DEF TypeOK, reservoirVars, history
<1>7. miner'[m] = i /\ \A x \in Miners \ {m} : miner'[x] = miner[x]
  BY <1>1, <1>4
<1> QED BY <1>2, <1>4, <1>6, <1>7, SMTT(30)

(* The two kinds of fines.                                                  *)
LEMMA Fines ==
  ASSUME TypeOK, NEW m \in Miners, clear_punish(m) \/ service_punish(m)
  PROVE  \E n \in Nat, tib \in Nat, inCall \in BOOLEAN :
           Challenged(m) /\ deposit_punish(m, n, tib, inCall)
<1>1. miner[m].tib \in Nat /\ Powers(m) \subseteq Nat
  BY MinerTyped DEF Infos, Powers
<1>2. CASE clear_punish(m)
  <2>1. PICK power \in Powers(m), tib \in Powers(m), rate \in ClearRates :
          /\ Challenged(m)
          /\ deposit_punish(m, IF miner[m].rewarded THEN rate * power ELSE NoRewardFine, tib, FALSE)
    BY <1>2, Zenon DEF clear_punish
  <2>2. (IF miner[m].rewarded THEN rate * power ELSE NoRewardFine) \in Nat
    <3>1. rate \in Nat /\ power \in Nat /\ NoRewardFine \in Nat
      BY <1>1, StakeAssumption
    <3> QED BY <3>1
  <2> QED BY <1>1, <2>1, <2>2, Zenon
<1>3. CASE service_punish(m)
  <2>1. PICK power \in Powers(m), tib \in Powers(m) :
          Challenged(m) /\ deposit_punish(m, ServiceRate * power, tib, TRUE)
    BY <1>3, Zenon DEF service_punish
  <2>2. ServiceRate * power \in Nat
    BY <1>1, StakeAssumption
  <2> QED BY <1>1, <2>1, <2>2, Zenon
<1> QED BY <1>2, <1>3, SMTT(30)

(* restored changes only the restoral target.                               *)
LEMMA RestoredTyped ==
  ASSUME TypeOK, NEW m \in Miners, restored(m)
  PROVE  TypeOK' /\ UNCHANGED <<reservoirVars, miner, lockLeft, due, history>>
BY DEF TypeOK, restored, reservoirVars, history

=============================================================================
