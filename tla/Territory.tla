------------------------------ MODULE Territory ------------------------------
(***************************************************************************)
(* Pallet storage-handler: territories (leases of storage space), their    *)
(* freezing and expiry by the block hook, pay orders, and the consignment  *)
(* market.  A dispatchable is one atomic action: it runs in a storage      *)
(* layer, so an error leaves no trace and is simply a disabled action.     *)
(* The hook of a block is not rolled back and is split into its loop       *)
(* iterations, which run before any call of that block.                    *)
(*                                                                         *)
(* Space is counted in GiB, time in blocks.  History variables, which the  *)
(* code does not have: `displaced', tokens whose record was overwritten;   *)
(* `stranded', tokens given a deadline that is not in the future;          *)
(* `misrenewed', tokens renewed while consigned or expired; `orphaned',    *)
(* tokens of locked consignments whose scheduled execution failed.         *)
(***************************************************************************)
EXTENDS Integers, FiniteSets, Functions

CONSTANTS
  Users, Names,          \* accounts and the territory names they may choose
  Tokens,                \* the random token values; each names one territory
  NoToken, NoUser, NoLoc,
  OneDay,                \* blocks in a day
  Month,                 \* 30 in the code: shortest mint, and days per UnitPrice
  FrozenDays, LockingBlock, ConsignmentRemainingBlock, FrozenLimit,
  UnitPrice,             \* price of one GiB for a Month
  Gibs, DayChoices,      \* arguments gib_count and days
  Prices,                \* asking prices of consignments
  OrderLives,            \* lifetime of pay orders, in blocks
  Sizes,                 \* sizes that file-bank stores or locks
  NetworkSpaces,         \* values of total idle + total service space
  InitialFree,           \* free balance of each user
  MaxBlock, Horizon      \* bounds: last block, last deadline

ASSUME TerritoryConstants ==
  /\ OneDay \in Nat \ {0} /\ Month \in Nat \ {0} /\ FrozenDays \in Nat \ {0}
  /\ LockingBlock \in Nat \ {0} /\ ConsignmentRemainingBlock \in Nat
  /\ FrozenLimit \in Nat /\ UnitPrice \in Nat
  /\ Gibs \subseteq Nat /\ DayChoices \subseteq Nat /\ Prices \subseteq Nat
  /\ OrderLives \subseteq Nat /\ Sizes \subseteq Nat
  /\ NetworkSpaces \subseteq Nat /\ NetworkSpaces # {}
  /\ InitialFree \in Nat /\ MaxBlock \in Nat /\ Horizon \in Nat /\ MaxBlock <= Horizon
  /\ IsFiniteSet(Users) /\ IsFiniteSet(Names) /\ IsFiniteSet(Tokens)
  /\ NoToken \notin Tokens /\ NoUser \notin Users
  /\ NoLoc \notin Users \X (Names \cup Tokens)

VARIABLES
  now, phase, todo,                      \* block number and progress of its hooks
  terr, key,                             \* Territory, TerritoryKey
  frozen, frozenCounter, expired,        \* TerritoryFrozen(Counter), TerritoryExpired
  purchased, network,                    \* PurchasedSpace, TotalIdle+TotalService
  consign, agenda,                       \* Consignment, named tasks of the scheduler
  payOrder,                              \* PayOrder
  free, reserved, sid,                   \* balances of users and of the space treasury
  displaced, stranded, misrenewed, orphaned   \* history

block  == <<now, phase, todo>>
leases == <<terr, key, frozen, frozenCounter, expired>>
money  == <<free, reserved, sid>>
hist   == <<displaced, stranded, misrenewed, orphaned>>
vars == <<block, leases, purchased, network, consign, agenda, payOrder, money, hist>>

TerrNames == Names \cup Tokens           \* territory_grants names by the token bytes
Locs      == Users \X TerrNames
Blocks    == 0 .. (Horizon + FrozenDays)

Absent == [token |-> NoToken, total |-> 0, used |-> 0, locked |-> 0, rem |-> 0,
           deadline |-> 0, state |-> "Absent"]
NoConsignment == [user |-> NoUser, price |-> 0, buyer |-> NoUser, locked |-> FALSE]
NoTask  == [at |-> 0, name |-> NoUser]
NoOrder == [type |-> "None", loc |-> NoLoc, gib |-> 0, days |-> 0, pay |-> 0,
            expired |-> 0]

Exists(loc)    == terr[loc].state # "Absent"
InCalls        == phase = "calls"

Init ==
  /\ now = 0 /\ phase = "calls" /\ todo = {}
  /\ terr = [l \in Locs |-> Absent]
  /\ key = [t \in Tokens |-> NoLoc]
  /\ frozen = [b \in Blocks |-> {}]
  /\ frozenCounter = [b \in Blocks |-> 0]
  /\ expired = [b \in Blocks |-> {}]
  /\ purchased = 0
  /\ network \in NetworkSpaces
  /\ consign = [t \in Tokens |-> NoConsignment]
  /\ agenda = [t \in Tokens |-> NoTask]
  /\ payOrder = [b \in 0 .. MaxBlock |-> NoOrder]
  /\ free = [u \in Users |-> InitialFree]
  /\ reserved = [u \in Users |-> 0]
  /\ sid = 0
  /\ displaced = {} /\ stranded = {} /\ misrenewed = {} /\ orphaned = {}
-----------------------------------------------------------------------------
(* Helpers of the pallet. *)

\* Price of a direct purchase: the month's price divided down to a day.
DayPrice(gib, days) == (UnitPrice \div Month) * gib * days

\* calculate_price, used by pay orders.
CalculatePrice(gib, days) == gib * days * UnitPrice

\* calculate_remain_day and its copy in expanding_territory: rounded up.
RemainDay(deadline) == (deadline - now + OneDay - 1) \div OneDay

AddPurchasedSpace(size) ==
  /\ purchased + size <= network
  /\ purchased' = purchased + size

\* Treasury transfer of a fee; `free' is what a keep-alive transfer may spend.
SendToSid(u, price) ==
  /\ free[u] >= price
  /\ free' = [free EXCEPT ![u] = @ - price]
  /\ sid' = sid + price
  /\ UNCHANGED reserved

\* Mutant: counted but not queued.
EnqueueFrozenLost(queue, counter, b, token) ==
  /\ counter[b] + 1 < FrozenLimit
  /\ frozen' = queue
  /\ frozenCounter' = [counter EXCEPT ![b] = @ + 1]

\* TerritoryFrozen and its counter for a token that gets deadline b.
EnqueueFrozen(queue, counter, b, token) ==
  /\ counter[b] + 1 < FrozenLimit
  /\ frozen' = [queue EXCEPT ![b] = @ \cup {token}]
  /\ frozenCounter' = [counter EXCEPT ![b] = @ + 1]

StorageTerritory(token, loc, space, days) ==
  LET deadline == now + OneDay * days
  IN  /\ deadline <= Horizon
      /\ terr' = [terr EXCEPT ![loc] =
           [token |-> token, total |-> space, used |-> 0, locked |-> 0,
            rem |-> space, deadline |-> deadline, state |-> "Active"]]
      /\ key' = [key EXCEPT ![token] = loc]
      /\ EnqueueFrozen(frozen, frozenCounter, deadline, token)
      /\ UNCHANGED expired
      /\ stranded' = IF deadline > now THEN stranded ELSE stranded \cup {token}
      /\ UNCHANGED <<displaced, misrenewed, orphaned>>

UpdateTerritorySpace(loc, space) ==
  terr' = [terr EXCEPT ![loc].rem = @ + space, ![loc].total = @ + space]

UpdateTerritoryDays(loc, days) ==
  LET t   == terr[loc]
      new == (IF now > t.deadline THEN now ELSE t.deadline) + OneDay * days
  IN  /\ frozenCounter[t.deadline] >= 1
      /\ new <= Horizon
      /\ EnqueueFrozen([frozen EXCEPT ![t.deadline] = @ \ {t.token}],
                       [frozenCounter EXCEPT ![t.deadline] = @ - 1], new, t.token)
      /\ expired' = [expired EXCEPT ![t.deadline + FrozenDays] = @ \ {t.token}]
      /\ terr' = [terr EXCEPT ![loc].deadline = new,
                    ![loc].state = IF new > now THEN "Active" ELSE @]
      /\ UNCHANGED key
      /\ stranded' = IF new > now THEN stranded \ {t.token}
                     ELSE stranded \cup {t.token}
      /\ misrenewed' = IF t.state \in {"Active", "Frozen"} THEN misrenewed
                       ELSE misrenewed \cup {t.token}
      /\ UNCHANGED <<displaced, orphaned>>

InitialTerritory(loc, days) ==
  LET t   == terr[loc]
      new == now + OneDay * days
  IN  /\ new <= Horizon
      /\ terr' = [terr EXCEPT ![loc] =
           [@ EXCEPT !.state = "Active", !.rem = 0, !.locked = 0, !.used = 0,
                     !.deadline = new]]
      /\ EnqueueFrozen(frozen, frozenCounter, new, t.token)
      /\ UNCHANGED <<key, expired>>
      /\ stranded' = IF new > now THEN stranded ELSE stranded \cup {t.token}
      /\ UNCHANGED <<displaced, misrenewed, orphaned>>

\* Remove the record at `from', insert t at `to' whatever is there, and make
\* `entry' the TerritoryKey of `token'.
MoveTerritory(from, to, t, token, entry) ==
  LET removed == [terr EXCEPT ![from] = Absent]
  IN  /\ terr' = [removed EXCEPT ![to] = t]
      /\ key' = [key EXCEPT ![token] = entry]
      /\ displaced' = IF removed[to].state = "Absent" THEN displaced
                      ELSE displaced \cup {removed[to].token}
      /\ UNCHANGED <<frozen, frozenCounter, expired, stranded, misrenewed, orphaned>>
-----------------------------------------------------------------------------
(* Leases: dispatchables 0, 1, 2 and 101. *)

MintTerritory(u, n, gib, days, token) ==
  /\ InCalls
  /\ ~Exists(<<u, n>>) /\ days >= Month
  /\ key[token] = NoLoc
  /\ StorageTerritory(token, <<u, n>>, gib, days)
  /\ AddPurchasedSpace(gib)
  /\ SendToSid(u, DayPrice(gib, days))
  /\ UNCHANGED <<block, network, consign, agenda, payOrder>>

ExpandingTerritory(u, n, gib) ==
  /\ InCalls
  /\ terr[<<u, n>>].state = "Active" /\ now <= terr[<<u, n>>].deadline
  /\ AddPurchasedSpace(gib)
  /\ UpdateTerritorySpace(<<u, n>>, gib)
  /\ SendToSid(u, DayPrice(gib, RemainDay(terr[<<u, n>>].deadline)))
  /\ UNCHANGED <<block, key, frozen, frozenCounter, expired, network, consign,
                 agenda, payOrder, hist>>

RenewalTerritory(u, n, days) ==
  /\ InCalls
  /\ terr[<<u, n>>].state \in {"Active", "Frozen"}
  /\ SendToSid(u, DayPrice(terr[<<u, n>>].total, days))
  /\ UpdateTerritoryDays(<<u, n>>, days)
  /\ UNCHANGED <<block, purchased, network, consign, agenda, payOrder>>

\* Mutant: the space of a reactivated territory is not counted again.
ReactivateTerritoryUncounted(u, n, days) ==
  /\ InCalls
  /\ terr[<<u, n>>].state = "Expired"
  /\ SendToSid(u, DayPrice(terr[<<u, n>>].total, days))
  /\ InitialTerritory(<<u, n>>, days)
  /\ UNCHANGED <<block, purchased, network, consign, agenda, payOrder>>

ReactivateTerritory(u, n, days) ==
  /\ InCalls
  /\ terr[<<u, n>>].state = "Expired"
  /\ SendToSid(u, DayPrice(terr[<<u, n>>].total, days))
  /\ AddPurchasedSpace(terr[<<u, n>>].total)
  /\ InitialTerritory(<<u, n>>, days)
  /\ UNCHANGED <<block, network, consign, agenda, payOrder>>

TerritoryGrants(u, n, receiver) ==
  LET t == terr[<<u, n>>]
  IN  /\ InCalls
      /\ t.state = "Active" /\ t.total = t.rem
      /\ MoveTerritory(<<u, n>>, <<receiver, t.token>>, t, t.token,
                       <<receiver, t.token>>)
      /\ UNCHANGED <<block, purchased, network, consign, agenda, payOrder, money>>

\* Mutant: TerritoryKey keeps the old name.
TerritoryRenameKeyless(u, old, new) ==
  LET t == terr[<<u, old>>]
  IN  /\ InCalls
      /\ t.state = "Active" /\ t.total = t.rem
      /\ MoveTerritory(<<u, old>>, <<u, new>>, t, t.token, key[t.token])
      /\ UNCHANGED <<block, purchased, network, consign, agenda, payOrder, money>>

TerritoryRename(u, old, new) ==
  LET t == terr[<<u, old>>]
  IN  /\ InCalls
      /\ t.state = "Active" /\ t.total = t.rem
      /\ MoveTerritory(<<u, old>>, <<u, new>>, t, t.token,
                       <<key[t.token][1], new>>)
      /\ UNCHANGED <<block, purchased, network, consign, agenda, payOrder, money>>
-----------------------------------------------------------------------------
(* Pay orders.  The order hash is drawn from the block number alone, so an  *)
(* order is identified by the block that created it.                        *)

CreateOrder(type, loc, gib, days, life) ==
  LET t == terr[loc]
      pay == CASE type = "Buy"       -> CalculatePrice(gib, days)
               [] type = "Expansion" -> CalculatePrice(gib, RemainDay(t.deadline))
               [] type = "Renewal"   -> CalculatePrice(t.total, days)
  IN  /\ InCalls
      /\ type = "Buy" <=> ~Exists(loc)
      /\ type = "Expansion" => now <= t.deadline
      /\ payOrder' = [payOrder EXCEPT ![now] =
           [type |-> type, loc |-> loc, pay |-> pay, expired |-> now + life,
            gib |-> IF type = "Renewal" THEN 0 ELSE gib,       \* fields exec_order
            days |-> IF type = "Expansion" THEN 0 ELSE days]]  \* does not read are 0
      /\ UNCHANGED <<block, leases, purchased, network, consign, agenda, money, hist>>

\* exec_order up to its match on the order type.
OrderOpen(id, type) ==
  InCalls /\ payOrder[id].type = type /\ payOrder[id].expired > now

ExecBuyOrder(u, id, token) ==
  LET o == payOrder[id]
  IN  /\ OrderOpen(id, "Buy")
      /\ ~Exists(o.loc) /\ key[token] = NoLoc
      /\ StorageTerritory(token, o.loc, o.gib, o.days)
      /\ AddPurchasedSpace(o.gib)
      /\ SendToSid(u, o.pay)
      /\ UNCHANGED <<block, network, consign, agenda, payOrder>>

ExecExpansionOrder(u, id) ==
  LET o == payOrder[id]
      t == terr[o.loc]
  IN  /\ OrderOpen(id, "Expansion")
      /\ Exists(o.loc) /\ now <= t.deadline
      /\ CalculatePrice(o.gib, RemainDay(t.deadline)) = o.pay
      /\ AddPurchasedSpace(o.gib)
      /\ UpdateTerritorySpace(o.loc, o.gib)
      /\ SendToSid(u, o.pay)
      /\ UNCHANGED <<block, key, frozen, frozenCounter, expired, network, consign,
                     agenda, payOrder, hist>>

ExecRenewalOrder(u, id) ==
  LET o == payOrder[id]
  IN  /\ OrderOpen(id, "Renewal")
      /\ Exists(o.loc)
      /\ CalculatePrice(terr[o.loc].total, o.days) = o.pay
      /\ UpdateTerritoryDays(o.loc, o.days)
      /\ SendToSid(u, o.pay)
      /\ UNCHANGED <<block, purchased, network, consign, agenda, payOrder>>
-----------------------------------------------------------------------------
(* The consignment market: dispatchables 102 to 106. *)

TerritoryConsignment(u, n, price) ==
  LET t == terr[<<u, n>>]
  IN  /\ InCalls
      /\ t.state = "Active" /\ t.total = t.rem
      /\ t.deadline - now > ConsignmentRemainingBlock
      /\ consign[t.token] = NoConsignment
      /\ terr' = [terr EXCEPT ![<<u, n>>].state = "OnConsignment"]
      /\ consign' = [consign EXCEPT ![t.token] =
           [user |-> u, price |-> price, buyer |-> NoUser, locked |-> FALSE]]
      /\ UNCHANGED <<block, key, frozen, frozenCounter, expired, purchased, network,
                     agenda, payOrder, money, hist>>

BuyConsignment(u, token, rename) ==
  LET c == consign[token]
  IN  /\ InCalls
      /\ c # NoConsignment /\ ~c.locked /\ c.user # u
      /\ free[u] >= c.price
      /\ agenda[token] = NoTask          \* schedule_named refuses a used name
      /\ consign' = [consign EXCEPT ![token].buyer = u, ![token].locked = TRUE]
      /\ free' = [free EXCEPT ![u] = @ - c.price]
      /\ reserved' = [reserved EXCEPT ![u] = @ + c.price]
      /\ agenda' = [agenda EXCEPT ![token] =
                      [at |-> now + LockingBlock, name |-> rename]]
      /\ UNCHANGED <<block, leases, purchased, network, payOrder, sid, hist>>

\* Mutant: the listing stays.
CancelConsignmentListed(u, n) ==
  LET t == terr[<<u, n>>]
  IN  /\ InCalls
      /\ t.state = "OnConsignment"
      /\ consign[t.token] # NoConsignment /\ ~consign[t.token].locked
      /\ terr' = [terr EXCEPT ![<<u, n>>].state = "Active"]
      /\ UNCHANGED <<block, key, frozen, frozenCounter, expired, purchased, network,
                     consign, agenda, payOrder, money, hist>>

CancelConsignment(u, n) ==
  LET t == terr[<<u, n>>]
  IN  /\ InCalls
      /\ t.state = "OnConsignment"
      /\ consign[t.token] # NoConsignment /\ ~consign[t.token].locked
      /\ consign' = [consign EXCEPT ![t.token] = NoConsignment]
      /\ terr' = [terr EXCEPT ![<<u, n>>].state = "Active"]
      /\ UNCHANGED <<block, key, frozen, frozenCounter, expired, purchased, network,
                     agenda, payOrder, money, hist>>

\* Currency::unreserve: saturates at what is reserved.
Unreserve(u, amount) ==
  LET back == IF reserved[u] < amount THEN reserved[u] ELSE amount
  IN  /\ free' = [free EXCEPT ![u] = @ + back]
      /\ reserved' = [reserved EXCEPT ![u] = @ - back]

\* Mutant: the reserve stays.
CancelPurchaseActionReserved(u, token) ==
  /\ InCalls
  /\ consign[token] # NoConsignment /\ consign[token].buyer = u
  /\ agenda[token] # NoTask
  /\ consign' = [consign EXCEPT ![token].buyer = NoUser, ![token].locked = FALSE]
  /\ agenda' = [agenda EXCEPT ![token] = NoTask]
  /\ UNCHANGED <<block, leases, purchased, network, payOrder, money, hist>>

CancelPurchaseAction(u, token) ==
  /\ InCalls
  /\ consign[token] # NoConsignment /\ consign[token].buyer = u
  /\ agenda[token] # NoTask              \* cancel_named fails when no task is left
  /\ Unreserve(u, consign[token].price)
  /\ consign' = [consign EXCEPT ![token].buyer = NoUser, ![token].locked = FALSE]
  /\ agenda' = [agenda EXCEPT ![token] = NoTask]
  /\ UNCHANGED <<block, leases, purchased, network, payOrder, sid, hist>>
-----------------------------------------------------------------------------
(* Hooks.  The scheduler's on_initialize runs the tasks due, then file-bank's *)
(* on_initialize runs frozen_task, then the block's calls are applied.        *)

Due(b) == {t \in Tokens : agenda[t] # NoTask /\ agenda[t].at = b}

\* Orders that have expired are forgotten: exec_order refuses them for ever.
NextBlock ==
  /\ InCalls /\ now < MaxBlock
  /\ now' = now + 1 /\ phase' = "scheduler" /\ todo' = Due(now + 1)
  /\ payOrder' = [b \in 0 .. MaxBlock |->
                    IF payOrder[b].expired > now + 1 THEN payOrder[b] ELSE NoOrder]
  /\ UNCHANGED <<leases, purchased, network, consign, agenda, money, hist>>

\* The checks of exec_consignment that end in Error::Unexpected.
ExecUnexpected(token) ==
  /\ consign[token] # NoConsignment
  /\ \/ consign[token].buyer = NoUser
     \/ /\ consign[token].locked
        /\ free[consign[token].buyer] >= consign[token].price
        /\ \/ key[token] = NoLoc
           \/ terr[key[token]].state # "OnConsignment"

ExecAllowed(token) ==
  /\ consign[token] # NoConsignment /\ consign[token].buyer # NoUser
  /\ consign[token].locked
  /\ free[consign[token].buyer] >= consign[token].price
  /\ key[token] # NoLoc /\ terr[key[token]].state = "OnConsignment"

ExecConsignment(token) ==
  LET c      == consign[token]
      loc    == key[token]
      holder == loc[1]
      back   == IF reserved[c.buyer] < c.price THEN reserved[c.buyer] ELSE c.price
      unres  == [free EXCEPT ![c.buyer] = @ + back - c.price]
  IN  /\ MoveTerritory(loc, <<c.buyer, agenda[token].name>>,
                       [terr[loc] EXCEPT !.state = "Active"], token,
                       <<c.buyer, agenda[token].name>>)
      /\ consign' = [consign EXCEPT ![token] = NoConsignment]
      /\ reserved' = [reserved EXCEPT ![c.buyer] = @ - back]
      /\ free' = [unres EXCEPT ![holder] = @ + c.price]
      /\ UNCHANGED sid

\* The scheduler drops the task before it dispatches it, whatever the result.
RunTask(token) ==
  /\ phase = "scheduler" /\ token \in todo
  /\ todo' = todo \ {token}
  /\ agenda' = [agenda EXCEPT ![token] = NoTask]
  /\ \/ ExecAllowed(token) /\ ExecConsignment(token)
     \/ /\ ~ExecAllowed(token)
        /\ orphaned' = IF consign[token].locked THEN orphaned \cup {token} ELSE orphaned
        /\ UNCHANGED <<leases, consign, money, displaced, stranded, misrenewed>>
  /\ UNCHANGED <<now, phase, purchased, network, payOrder>>

StartFreezing ==
  /\ phase = "scheduler" /\ todo = {}
  /\ phase' = "freeze" /\ todo' = frozen[now]
  /\ UNCHANGED <<now, leases, purchased, network, consign, agenda, payOrder, money, hist>>

Reached(token) == key[token] # NoLoc /\ Exists(key[token])

\* One iteration of the first loop of frozen_task.
FreezeOne(token) ==
  LET loc == key[token]
      t   == terr[loc]
  IN  /\ phase = "freeze" /\ token \in todo
      /\ todo' = todo \ {token}
      /\ \/ /\ Reached(token)
            /\ terr' = [terr EXCEPT ![loc].state = "Frozen"]
            /\ expired' = [expired EXCEPT ![t.deadline + FrozenDays] = @ \cup {t.token}]
            /\ consign' = IF t.state = "OnConsignment"
                          THEN [consign EXCEPT ![token] = NoConsignment]
                          ELSE consign
         \/ ~Reached(token) /\ UNCHANGED <<terr, expired, consign>>
      /\ UNCHANGED <<now, phase, key, frozen, frozenCounter, purchased, network,
                     agenda, payOrder, money, hist>>

StartExpiring ==
  /\ phase = "freeze" /\ todo = {}
  /\ phase' = "expire" /\ todo' = expired[now]
  /\ UNCHANGED <<now, leases, purchased, network, consign, agenda, payOrder, money, hist>>

\* One iteration of the second loop: an underflow leaves the record as it was.
ExpireOne(token) ==
  LET loc == key[token]
      t   == terr[loc]
  IN  /\ phase = "expire" /\ token \in todo
      /\ todo' = todo \ {token}
      /\ \/ /\ Reached(token) /\ purchased >= t.total
            /\ purchased' = purchased - t.total
            /\ terr' = [terr EXCEPT ![loc].state = "Expired"]
         \/ /\ ~(Reached(token) /\ purchased >= t.total)
            /\ UNCHANGED <<purchased, terr>>
      /\ UNCHANGED <<now, phase, key, frozen, frozenCounter, expired, network,
                     consign, agenda, payOrder, money, hist>>

StartCalls ==
  /\ phase = "expire" /\ todo = {}
  /\ phase' = "calls" /\ UNCHANGED <<now, todo>>
  /\ UNCHANGED <<leases, purchased, network, consign, agenda, payOrder, money, hist>>
-----------------------------------------------------------------------------
(* StorageHandle: what file-bank and sminer call on a territory and on the    *)
(* network totals, within their own dispatchables.                            *)

Resize(loc, t) ==
  /\ InCalls
  /\ terr' = [terr EXCEPT ![loc] = t]
  /\ UNCHANGED <<block, key, frozen, frozenCounter, expired, purchased, network,
                 consign, agenda, payOrder, money, hist>>

AddTerritoryUsedSpace(loc, size) ==
  /\ terr[loc].state = "Active" /\ size <= terr[loc].rem
  /\ Resize(loc, [terr[loc] EXCEPT !.used = @ + size, !.rem = @ - size])

SubTerritoryUsedSpace(loc, size) ==
  /\ Exists(loc) /\ size <= terr[loc].used
  /\ Resize(loc, [terr[loc] EXCEPT !.used = @ - size, !.rem = @ + size])

LockUserSpace(loc, size) ==
  /\ terr[loc].state = "Active" /\ size <= terr[loc].rem
  /\ Resize(loc, [terr[loc] EXCEPT !.locked = @ + size, !.rem = @ - size])

\* Mutant: the space is returned but stays locked.
UnlockUserSpaceTwice(loc, size) ==
  /\ Exists(loc) /\ size <= terr[loc].locked
  /\ Resize(loc, [terr[loc] EXCEPT !.rem = @ + size])

UnlockUserSpace(loc, size) ==
  /\ Exists(loc) /\ size <= terr[loc].locked
  /\ Resize(loc, [terr[loc] EXCEPT !.locked = @ - size, !.rem = @ + size])

UnlockAndUsedUserSpace(loc, size) ==
  /\ Exists(loc) /\ size <= terr[loc].locked
  /\ Resize(loc, [terr[loc] EXCEPT !.locked = @ - size, !.used = @ + size])

ChangeNetworkSpace(space) ==
  /\ InCalls /\ network # space
  /\ network' = space
  /\ UNCHANGED <<block, leases, purchased, consign, agenda, payOrder, money, hist>>

\* Any transfer of free balance between users outside the pallet.
Transfer(u, v, amount) ==
  /\ InCalls /\ u # v /\ amount > 0 /\ amount <= free[u]
  /\ free' = [free EXCEPT ![u] = @ - amount, ![v] = @ + amount]
  /\ UNCHANGED <<block, leases, purchased, network, consign, agenda, payOrder,
                 reserved, sid, hist>>
-----------------------------------------------------------------------------
Lease ==
  \E u \in Users, n \in TerrNames :
    \/ \E g \in Gibs, d \in DayChoices, t \in Tokens :
         n \in Names /\ MintTerritory(u, n, g, d, t)
    \/ \E g \in Gibs : ExpandingTerritory(u, n, g)
    \/ \E d \in DayChoices : RenewalTerritory(u, n, d) \/ ReactivateTerritory(u, n, d)
    \/ \E v \in Users : TerritoryGrants(u, n, v)
    \/ \E m \in Names : TerritoryRename(u, n, m)

Order ==
  \/ \E type \in {"Buy", "Expansion", "Renewal"}, loc \in Locs, g \in Gibs,
        d \in DayChoices, life \in OrderLives : CreateOrder(type, loc, g, d, life)
  \/ \E u \in Users, id \in 0 .. MaxBlock :
        \/ \E t \in Tokens : ExecBuyOrder(u, id, t)
        \/ ExecExpansionOrder(u, id)
        \/ ExecRenewalOrder(u, id)

Market ==
  \E u \in Users :
    \/ \E n \in TerrNames : \/ \E p \in Prices : TerritoryConsignment(u, n, p)
                            \/ CancelConsignment(u, n)
    \/ \E t \in Tokens : \/ \E n \in Names : BuyConsignment(u, t, n)
                         \/ CancelPurchaseAction(u, t)
    \/ \E v \in Users, p \in Prices : Transfer(u, v, p)

Storage ==
  \/ \E loc \in Locs, s \in Sizes :
       \/ AddTerritoryUsedSpace(loc, s) \/ SubTerritoryUsedSpace(loc, s)
       \/ LockUserSpace(loc, s) \/ UnlockUserSpace(loc, s)
       \/ UnlockAndUsedUserSpace(loc, s)
  \/ \E space \in NetworkSpaces : ChangeNetworkSpace(space)

Hooks ==
  \/ NextBlock \/ StartFreezing \/ StartExpiring \/ StartCalls
  \/ \E t \in Tokens : RunTask(t) \/ FreezeOne(t) \/ ExpireOne(t)

Next == Lease \/ Order \/ Market \/ Storage \/ Hooks

Spec == Init /\ [][Next]_vars
-----------------------------------------------------------------------------
States == {"Absent", "Active", "Frozen", "Expired", "OnConsignment"}

Territories ==
  [token : Tokens \cup {NoToken}, total : Nat, used : Nat, locked : Nat, rem : Nat,
   deadline : 0 .. Horizon, state : States]

\* The storage of the pallet keeps its declared types: sizes and balances never
\* go negative (the checked_sub of every path), deadlines stay representable,
\* and a record has a token exactly when it exists.
TypeOK ==
  /\ now \in 0 .. MaxBlock
  /\ phase \in {"scheduler", "freeze", "expire", "calls"}
  /\ todo \subseteq Tokens
  /\ terr \in [Locs -> Territories]
  /\ \A l \in Locs : (terr[l].state = "Absent") <=> (terr[l].token = NoToken)
  /\ key \in [Tokens -> Locs \cup {NoLoc}]
  /\ frozen \in [Blocks -> SUBSET Tokens]
  /\ frozenCounter \in [Blocks -> Nat]
  /\ expired \in [Blocks -> SUBSET Tokens]
  /\ purchased \in Nat /\ network \in NetworkSpaces
  /\ consign \in [Tokens -> [user : Users \cup {NoUser}, price : Nat,
                             buyer : Users \cup {NoUser}, locked : BOOLEAN]]
  /\ agenda \in [Tokens -> {NoTask} \cup [at : Nat, name : Names]]
  /\ payOrder \in [0 .. MaxBlock -> {NoOrder} \cup
       [type : {"Buy", "Expansion", "Renewal"}, loc : Locs,
        gib : Nat, days : Nat, pay : Nat, expired : Nat]]
  /\ free \in [Users -> Nat] /\ reserved \in [Users -> Nat] /\ sid \in Nat
  /\ displaced \subseteq Tokens /\ stranded \subseteq Tokens
  /\ misrenewed \subseteq Tokens /\ orphaned \subseteq Tokens

\* The parts of a territory never exceed what was bought, over any mix of
\* uploads, deals, deletions, expansions, moves, expiry and reactivation.
SpaceBounded ==
  \A l \in Locs : terr[l].used + terr[l].locked + terr[l].rem <= terr[l].total

\* As long as no insert overwrote a record, TerritoryKey and Territory are
\* inverse to each other through grants, renames and sales.
KeyConsistent ==
  displaced = {} =>
    /\ \A l \in Locs : Exists(l) => key[terr[l].token] = l
    /\ \A t \in Tokens : key[t] # NoLoc => terr[key[t]].token = t

\* No insert overwrote a record, and none was renewed while consigned or expired.
Undisturbed == displaced = {} /\ misrenewed = {}

\* A token is listed for sale exactly while its territory is in the state
\* OnConsignment, and such a territory holds no data: a buyer never gets a
\* territory with files or locked space in it.  A sold one is on its way to
\* being settled: the scheduler holds its task for a future block, until an
\* execution fails.
ConsignmentMatchesState ==
  /\ Undisturbed =>
       /\ \A t \in Tokens : consign[t] # NoConsignment <=>
            key[t] # NoLoc /\ terr[key[t]].state = "OnConsignment"
       /\ \A l \in Locs : terr[l].state = "OnConsignment" => terr[l].rem = terr[l].total
  /\ InCalls =>
       \A t \in Tokens : consign[t].locked /\ t \notin orphaned =>
         agenda[t] # NoTask /\ agenda[t].at > now

\* Every lease is on its way to the next sweep of frozen_task: a live lease
\* has a future deadline at which it is queued for freezing, a frozen one is
\* queued for expiry at a future block.  Nothing stays leased for ever; and the
\* counters that limit the queues, which every extension moves apart from
\* them, count them.
SweepScheduled ==
  Undisturbed =>
    /\ \A b \in Blocks : frozenCounter[b] = Cardinality(frozen[b])
    /\ InCalls => \A l \in Locs : Exists(l) /\ terr[l].token \notin stranded =>
         LET t == terr[l]
         IN  CASE t.state \in {"Active", "OnConsignment"} ->
                    t.deadline > now /\ t.token \in frozen[t.deadline]
               [] t.state = "Frozen" ->
                    /\ t.deadline <= now /\ now < t.deadline + FrozenDays
                    /\ t.token \in expired[t.deadline + FrozenDays]
               [] t.state = "Expired" ->
                    \A b \in Blocks : b > now => t.token \notin frozen[b] \cup expired[b]

Held == [l \in Locs |-> IF terr[l].state \in {"Absent", "Expired"} THEN 0
                        ELSE terr[l].total]

\* PurchasedSpace counts exactly the leases that have not expired: each
\* purchase adds its space once and each expiry returns it once.
LeaseAccounting == Undisturbed => purchased = SumFunctionOnSet(Held, Locs)

Debts(u) == [t \in Tokens |-> IF consign[t].buyer = u THEN consign[t].price ELSE 0]

Unclaimed(u) == reserved[u] - SumFunctionOnSet(Debts(u), Tokens)

\* What a step may do to the reserves that no purchase claims.
NoLeak ==
  \A u \in Users : /\ Unclaimed(u)' >= Unclaimed(u)
                   /\ phase # "freeze" => Unclaimed(u)' = Unclaimed(u)

\* The reserve of a buyer always covers the purchases that wait for execution,
\* so no settlement or cancellation is short of money another one released.
\* More than that is reserved only through the freezing of a territory on sale:
\* frozen_task drops the consignment, not the reserve.
LeakOnlyAtFreeze == [][NoLeak]_vars
=============================================================================
