----------------------------- MODULE Reservoir -----------------------------
(***************************************************************************)
(* The reservoir pallet: a pool account that lends money to miners (events  *)
(* and loans) and keeps the money users store with it (passbooks), both of  *)
(* which may be staked as a miner's collateral.  Amounts are in units of a  *)
(* small coin, blocks are counted down to a deadline: left = 0 means that   *)
(* the deadline block has been reached.  The native currency is external:   *)
(* a free and a reserved balance per account; transfers need the free       *)
(* balance, Unreserve takes what there is.                                  *)
(***************************************************************************)
EXTENDS Integers, FiniteSetsExt

CONSTANTS Miners,        \* accounts that can be miners
          Pool,          \* the reservoir's own account
          Lent,          \* the miners that use the reservoir
          Coins,         \* amounts a call may name
          EventLife,     \* blocks from create_event to the end of an event
          Quota,         \* loans of an event
          UnitAmount,    \* size of a loan
          BorrowPeriod   \* blocks until a loan is due

ASSUME ReservoirAssumption ==
  /\ IsFiniteSet(Miners) /\ Lent \subseteq Miners /\ Pool \notin Miners
  /\ Coins \subseteq Nat /\ {UnitAmount, EventLife, Quota, BorrowPeriod} \subseteq Nat

VARIABLES free, reserved,  \* the currency's balances of every account
          reservoir,       \* Reservoir: free_balance, borrow_balance, store_balance
          loan,            \* BorrowList
          book,            \* UserPassbook
          event            \* Events with the one id of the model

money == <<free, reserved>>
books == <<loan, book>>
reservoirVars == <<free, reserved, reservoir, loan, book, event>>

Accounts == Miners \cup {Pool}
NoLoan == [on |-> FALSE, free |-> 0, staking |-> 0, left |-> 0]
Loans == [on : BOOLEAN, free : Nat, staking : Nat, left : Nat]
Books == [free : Nat, staking : Nat]
NoEvent == [on |-> FALSE, quota |-> 0, left |-> 0]

----------------------------------------------------------------------------
(* The currency (external).                                                 *)
Reserve(a, n) ==
  /\ free[a] >= n
  /\ free' = [free EXCEPT ![a] = @ - n]
  /\ reserved' = [reserved EXCEPT ![a] = @ + n]

(* What unreserve(a, n) moves back.                                         *)
Unreservable(a, n) == Min({n, reserved[a]})
Unreserve(a, n) ==
  /\ free' = [free EXCEPT ![a] = @ + Unreservable(a, n)]
  /\ reserved' = [reserved EXCEPT ![a] = @ - Unreservable(a, n)]

Transfer(a, b, n) ==
  /\ free[a] >= n
  /\ free' = [x \in Accounts |->
                free[x] - (IF x = a THEN n ELSE 0) + (IF x = b THEN n ELSE 0)]

----------------------------------------------------------------------------
(* ReservoirGate.  Each operator gives the books of miner m after the call  *)
(* and whether the call succeeds; a failing call inside a hook keeps what   *)
(* it had already written.                                                  *)
check_qualification(m, n) == loan[m].free + book[m].free >= n

staking(m, n) ==
  LET live == loan[m].on /\ loan[m].left > 0
      lent == IF live THEN Min({n, loan[m].free}) ELSE 0
      rest == n - lent
  IN  [ok   |-> book[m].free >= rest /\ free[Pool] >= n,
       loan |-> IF live THEN [loan[m] EXCEPT !.free = @ - lent, !.staking = @ + lent]
                        ELSE NoLoan,
       book |-> [book[m] EXCEPT !.free = @ - rest, !.staking = @ + rest]]

redeem(m, n) ==
  LET own  == Min({n, book[m].staking})
      rest == n - own
      ok   == rest = 0 \/ loan[m].staking >= rest
  IN  [ok   |-> ok,
       book |-> [free |-> book[m].free + own, staking |-> book[m].staking - own],
       loan |-> IF ok /\ rest > 0 THEN [loan[m] EXCEPT !.free = @ + rest, !.staking = @ - rest]
                                  ELSE loan[m]]

(* Mutant: a passbook pays no fine.                                         *)
punishLent(m, n) ==
  [ok   |-> TRUE,
   book |-> book[m],
   loan |-> [loan[m] EXCEPT !.staking = Max({@ - n, 0})]]

punish(m, n) ==
  LET own  == Min({n, book[m].staking})
      rest == n - own
      ok   == rest = 0 \/ loan[m].staking >= rest
  IN  [ok   |-> ok,
       book |-> [book[m] EXCEPT !.staking = @ - own],
       loan |-> IF ok /\ rest > 0 THEN [loan[m] EXCEPT !.staking = @ - rest]
                                  ELSE loan[m]]

SetBooks(m, b) ==
  /\ loan' = [loan EXCEPT ![m] = b.loan]
  /\ book' = [book EXCEPT ![m] = b.book]

----------------------------------------------------------------------------
(* The calls.                                                               *)
filling(a, n) ==
  /\ Transfer(a, Pool, n)
  /\ reservoir' = [reservoir EXCEPT !.free = @ + n]
  /\ UNCHANGED <<reserved, books, event>>

store(a, n) ==
  /\ Transfer(a, Pool, n)
  /\ book' = [book EXCEPT ![a].free = @ + n]
  /\ reservoir' = [reservoir EXCEPT !.store = @ + n]
  /\ UNCHANGED <<reserved, loan, event>>

withdraw(a, n) ==
  /\ book[a].free >= n /\ reservoir.store >= n
  /\ Transfer(Pool, a, n)
  /\ book' = [book EXCEPT ![a].free = @ - n]
  /\ reservoir' = [reservoir EXCEPT !.store = @ - n]
  /\ UNCHANGED <<reserved, loan, event>>

event_withdraw(a, n) ==
  /\ reservoir.free >= n
  /\ Transfer(Pool, a, n)
  /\ reservoir' = [reservoir EXCEPT !.free = @ - n]
  /\ UNCHANGED <<reserved, books, event>>

create_event ==
  /\ ~event.on
  /\ event' = [on |-> TRUE, quota |-> Quota, left |-> EventLife]
  /\ UNCHANGED <<money, reservoir, books>>

(* A loan that is due and not staked is given back first; any other loan    *)
(* still open refuses the call.                                             *)
Overdue(m) == loan[m].on /\ loan[m].left = 0 /\ loan[m].staking = 0
attend_event(m) ==
  LET back == IF loan[m].on THEN loan[m].free ELSE 0
  IN  /\ event.on /\ event.quota > 0
      /\ loan[m].on => Overdue(m)
      /\ reservoir.borrow >= back
      /\ reservoir.free + back >= UnitAmount
      /\ reservoir' = [reservoir EXCEPT !.borrow = @ - back + UnitAmount,
                                        !.free = @ + back - UnitAmount]
      /\ loan' = [loan EXCEPT ![m] = [on |-> TRUE, free |-> UnitAmount,
                                      staking |-> 0, left |-> BorrowPeriod]]
      /\ event' = [event EXCEPT !.quota = @ - 1]
      /\ UNCHANGED <<money, book>>

(* The hook of the next block removes an expired event; an event created    *)
(* with no life is past its record and stays.                               *)
AgeEvent ==
  event' = IF event.on /\ event.left = 1 THEN NoEvent
           ELSE [event EXCEPT !.left = Max({@ - 1, 0})]
AgedLoan(l) == [l EXCEPT !.left = Max({@ - 1, 0})]

ReservoirInit ==
  /\ reservoir = [free |-> 0, borrow |-> 0, store |-> 0]
  /\ loan = [m \in Miners |-> NoLoan]
  /\ book = [m \in Miners |-> [free |-> 0, staking |-> 0]]
  /\ event = NoEvent

ReservoirNext ==
  \/ \E a \in Lent, n \in Coins :
       filling(a, n) \/ store(a, n) \/ withdraw(a, n) \/ event_withdraw(a, n)
  \/ create_event
  \/ \E m \in Lent : attend_event(m)
=============================================================================
