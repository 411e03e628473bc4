--------------------------- MODULE TerritorySafety ---------------------------
(***************************************************************************)
(* The storage handler's accounts, sweeps and market, proved for every set *)
(* of users, names and tokens and every number of blocks:                  *)
(*                                                                         *)
(*   AccountingSafe   the purchased space is the space of the leases;      *)
(*   SweepSafe        every lease is before the sweep that is to take it;  *)
(*   ConsignmentSafe  the listings agree with the states of the leases;    *)
(*   LeakSafe         reserves follow the purchases that claim them.       *)
(*                                                                         *)
(* Two invariants carry them: LeaseInv, which follows each token through   *)
(* its record, the two sweep queues and its listing, and SaleInv, which    *)
(* relates the purchases to their tasks and to the reserves of buyers.     *)
(* LeaseProofs has what the calls do to the first; here are the hooks of   *)
(* the block, the theorems, and all that concerns the second.              *)
(***************************************************************************)
EXTENDS LeaseProofs

(* The hooks. *)

\* A step that leaves the leases as they are.
LEMMA SameLeases ==
  ASSUME Tracks, UNCHANGED <<leases, purchased, consign>>, \A t \in Tokens : Queued(t)'
  PROVE  Tracks'
<1>1. Record' = Record /\ Held' = Held /\ frozen' = frozen /\ frozenCounter' = frozenCounter
  BY ZenonT(30) DEF Record, Held, leases
<1> QED
  BY <1>1, ZenonT(30) DEF Tracks, Counted, Listed

\* What a sweep finds in the queue of the block: a lease whose deadline this is.
LEMMA FreezesLive ==
  ASSUME Inv, Undisturbed, Sweeping, Tracks, NEW x \in Tokens, phase = "freeze", x \in todo
  PROVE  /\ key[x] \in Locs /\ key[x] # NoLoc /\ Record[x] = terr[key[x]]
         /\ terr[key[x]].token = x /\ Exists(key[x])
         /\ terr[key[x]].deadline = now /\ terr[key[x]].state \in Live
<1> DEFINE r == Record[x]
<1>1. Queued(x) /\ x \in frozen[now] /\ now \in Blocks /\ now \in Nat
  BY NowTyped DEF Sweeping, Tracks, Inv
<1>2. r.state # "Absent" /\ r.deadline = now
  BY <1>1 DEF Queued
<1>3. r.state \notin {"Frozen", "Expired"}
  BY <1>1, <1>2 DEF Queued, FreezePending
<1>4. r.state \in States
  BY RecordOf DEF Territories
<1>5. key[x] # NoLoc /\ key[x] \in Locs /\ r = terr[key[x]] /\ r.token = x
  BY <1>2, RecordOf
<1> QED
  BY <1>2, <1>3, <1>4, <1>5 DEF States, Live, Exists

\* What the second sweep finds: a frozen lease, whose space is still counted.
LEMMA ExpiresFrozen ==
  ASSUME Inv, Undisturbed, Sweeping, Tracks, NEW x \in Tokens, phase = "expire", x \in todo
  PROVE  /\ key[x] \in Locs /\ key[x] # NoLoc /\ Record[x] = terr[key[x]]
         /\ terr[key[x]].token = x /\ Exists(key[x])
         /\ terr[key[x]].deadline + FrozenDays = now /\ terr[key[x]].state = "Frozen"
         /\ purchased >= terr[key[x]].total
<1> DEFINE r == Record[x]
<1>1. Queued(x) /\ x \in expired[now] /\ now \in Blocks
  BY NowTyped DEF Sweeping, Tracks, Inv
<1>2. r.state = "Frozen" /\ now = r.deadline + FrozenDays
  BY <1>1 DEF Queued, ExpirePending
<1>3. key[x] # NoLoc /\ key[x] \in Locs /\ r = terr[key[x]] /\ r.token = x
  BY <1>2, RecordOf
<1>4. Held \in [Locs -> Nat] /\ IsFiniteSet(Locs) /\ Held[key[x]] = Weight(terr[key[x]])
  BY <1>3, HeldTyped
<1>5. Held[key[x]] <= SumFunctionOnSet(Held, Locs)
  BY <1>3, <1>4, SumElement
<1>6. Held[key[x]] = terr[key[x]].total
  BY <1>2, <1>3, <1>4, Zenon DEF Weight
<1>7. purchased = SumFunctionOnSet(Held, Locs) /\ purchased \in Nat /\ Held[key[x]] \in Nat
  BY <1>3, <1>4, MoneyTyped DEF Inv, Tracks
<1>8. purchased >= terr[key[x]].total
  BY <1>5, <1>6, <1>7
<1> QED
  BY <1>2, <1>3, <1>8 DEF Exists

-----------------------------------------------------------------------------
(* The invariant, and what follows from it. *)

\* What every call does: it leaves the hooks of the block where they are, at their
\* end, and what disturbed the leases once is not forgotten.
CallFrame ==
  /\ phase = "calls" /\ UNCHANGED block
  /\ displaced \subseteq displaced' /\ misrenewed \subseteq misrenewed'

\* What all but the market and the scheduler leave alone.
NoSale == UNCHANGED <<consign, agenda, reserved, orphaned>>

\* What no lease call touches: the block, its sweeps, the listings, their
\* tasks and the reserves.
LEMMA LeaseFrame ==
  ASSUME Lease
  PROVE  CallFrame /\ NoSale
<1> USE DEF InCalls, CallFrame, NoSale
<1> PICK u \in Users, n \in TerrNames :
    \/ \E g \in Gibs, d \in DayChoices, t \in Tokens :
         n \in Names /\ MintTerritory(u, n, g, d, t)
    \/ \E g \in Gibs : ExpandingTerritory(u, n, g)
    \/ \E d \in DayChoices : RenewalTerritory(u, n, d) \/ ReactivateTerritory(u, n, d)
    \/ \E v \in Users : TerritoryGrants(u, n, v)
    \/ \E m \in Names : TerritoryRename(u, n, m)
  BY DEF Lease
<1>1. ASSUME NEW g \in Gibs, NEW d \in DayChoices, NEW t \in Tokens, MintTerritory(u, n, g, d, t)
      PROVE  CallFrame /\ NoSale
  BY <1>1, ZenonT(30) DEF MintTerritory, StorageTerritory, SendToSid
<1>2. ASSUME NEW g \in Gibs, ExpandingTerritory(u, n, g)
      PROVE  CallFrame /\ NoSale
  BY <1>2, ZenonT(30) DEF ExpandingTerritory, SendToSid, hist
<1>3. ASSUME NEW d \in DayChoices, RenewalTerritory(u, n, d)
      PROVE  CallFrame /\ NoSale
  BY <1>3, ZenonT(30) DEF RenewalTerritory, UpdateTerritoryDays, SendToSid
<1>4. ASSUME NEW d \in DayChoices, ReactivateTerritory(u, n, d)
      PROVE  CallFrame /\ NoSale
  BY <1>4, ZenonT(30) DEF ReactivateTerritory, InitialTerritory, SendToSid
<1>5. ASSUME NEW v \in Users, TerritoryGrants(u, n, v)
      PROVE  CallFrame /\ NoSale
  BY <1>5, ZenonT(30) DEF TerritoryGrants, MoveTerritory, money
<1>6. ASSUME NEW m \in Names, TerritoryRename(u, n, m)
      PROVE  CallFrame /\ NoSale
  BY <1>6, ZenonT(30) DEF TerritoryRename, MoveTerritory, money
<1> HIDE DEF CallFrame, NoSale
<1> QED
  BY <1>1, <1>2, <1>3, <1>4, <1>5, <1>6, Zenon

\* The same for the calls on pay orders.
LEMMA OrderFrame ==
  ASSUME Order
  PROVE  CallFrame /\ NoSale
<1> USE DEF InCalls, CallFrame, NoSale, OrderOpen
<1>1. ASSUME NEW type \in {"Buy", "Expansion", "Renewal"}, NEW l \in Locs, NEW g \in Gibs,
             NEW d \in DayChoices, NEW life \in OrderLives, CreateOrder(type, l, g, d, life)
      PROVE  CallFrame /\ NoSale
  BY <1>1 DEF CreateOrder, hist, money
<1>2. ASSUME NEW u \in Users, NEW id \in 0 .. MaxBlock, NEW t \in Tokens, ExecBuyOrder(u, id, t)
      PROVE  CallFrame /\ NoSale
  BY <1>2, ZenonT(30) DEF ExecBuyOrder, StorageTerritory, SendToSid
<1>3. ASSUME NEW u \in Users, NEW id \in 0 .. MaxBlock, ExecExpansionOrder(u, id)
      PROVE  CallFrame /\ NoSale
  BY <1>3, ZenonT(30) DEF ExecExpansionOrder, SendToSid, hist
<1>4. ASSUME NEW u \in Users, NEW id \in 0 .. MaxBlock, ExecRenewalOrder(u, id)
      PROVE  CallFrame /\ NoSale
  BY <1>4, ZenonT(30) DEF ExecRenewalOrder, UpdateTerritoryDays, SendToSid
<1> HIDE DEF CallFrame, NoSale
<1> QED
  BY <1>1, <1>2, <1>3, <1>4, Zenon DEF Order

\* The market changes listings, tasks and reserves, and neither the block nor
\* its sweeps.
LEMMA MarketFrame ==
  ASSUME Market
  PROVE  CallFrame /\ UNCHANGED orphaned
<1> USE DEF InCalls, CallFrame, hist
<1>1. ASSUME NEW u \in Users, NEW n \in TerrNames, NEW p \in Prices, TerritoryConsignment(u, n, p)
      PROVE  CallFrame /\ UNCHANGED orphaned
  BY <1>1 DEF TerritoryConsignment
<1>2. ASSUME NEW u \in Users, NEW n \in TerrNames, CancelConsignment(u, n)
      PROVE  CallFrame /\ UNCHANGED orphaned
  BY <1>2 DEF CancelConsignment
<1>3. ASSUME NEW u \in Users, NEW t \in Tokens, NEW n \in Names, BuyConsignment(u, t, n)
      PROVE  CallFrame /\ UNCHANGED orphaned
  BY <1>3 DEF BuyConsignment
<1>4. ASSUME NEW u \in Users, NEW t \in Tokens, CancelPurchaseAction(u, t)
      PROVE  CallFrame /\ UNCHANGED orphaned
  BY <1>4 DEF CancelPurchaseAction
<1>5. ASSUME NEW u \in Users, NEW v \in Users, NEW p \in Prices, Transfer(u, v, p)
      PROVE  CallFrame /\ UNCHANGED orphaned
  BY <1>5 DEF Transfer
<1> HIDE DEF CallFrame, hist
<1> QED
  BY <1>1, <1>2, <1>3, <1>4, <1>5, Zenon DEF Market

\* The storage calls touch none of these.
LEMMA StorageFrame ==
  ASSUME Storage
  PROVE  CallFrame /\ NoSale
  BY ZenonT(30) DEF Storage, AddTerritoryUsedSpace, SubTerritoryUsedSpace, LockUserSpace,
     UnlockUserSpace, UnlockAndUsedUserSpace, Resize, ChangeNetworkSpace, InCalls,
     CallFrame, NoSale, hist, money

\* No call moves the block or its sweeps.
LEMMA CallsFramed ==
  ASSUME Lease \/ Order \/ Market \/ Storage
  PROVE  CallFrame
  BY LeaseFrame, OrderFrame, MarketFrame, StorageFrame

\* The initial state satisfies the inductive invariant: nothing is leased.
LEMMA InitLease == Init => LeaseInv
<1> SUFFICES ASSUME Init PROVE LeaseInv
  OBVIOUS
<1>1. Inv /\ Sweeping
  BY InitInv DEF Init, Sweeping
<1>2. ASSUME NEW t \in Tokens
      PROVE  Queued(t) /\ Listed(t)
  <2>1. Record[t] = Absent
    BY DEF Init, Record
  <2> QED
    BY <2>1 DEF Init, Queued, Listed, Absent, Live
<1>3. Counted
  BY CardinalityEmpty DEF Init, Counted
<1>4. IsFiniteSet(Locs) /\ \A l \in Locs : Held[l] = 0
  BY <1>1, HeldTyped, ZenonT(30) DEF Init, Absent, Weight
<1>5. purchased = SumFunctionOnSet(Held, Locs)
  BY <1>4, SumZero, Zenon DEF Init
<1> QED
  BY <1>1, <1>2, <1>3, <1>5 DEF LeaseInv, Tracks

\* Every step keeps it, one case per call, task and sweep.
LEMMA NextLease == LeaseInv /\ [Next]_vars => LeaseInv'
\* Moving from one part of a block to the next puts every entry of the block
\* before the sweep that is to take it.
<1>BlockTracks. ASSUME Inv, Undisturbed, Tracks, NextBlock \/ StartFreezing \/ StartExpiring \/ StartCalls
                PROVE  Tracks'
  <2> USE <1>BlockTracks
  \* When the hooks of a block move on, what is pending stays so if it is queued.
  <2>PhaseQueued. ASSUME Inv, Undisturbed, NEW t \in Tokens, Queued(t), UNCHANGED <<leases, stranded>>,
                         now' \in Int, now' >= now,
                         \A b \in Blocks :
                           /\ FreezePending(t, b)' => FreezePending(t, b)
                           /\ ExpirePending(t, b)' => ExpirePending(t, b)
                           /\ t \in frozen[b] /\ FreezePending(t, b) => FreezePending(t, b)'
                           /\ t \in expired[b] /\ ExpirePending(t, b) => ExpirePending(t, b)'
                  PROVE  Queued(t)'
    <3> USE <2>PhaseQueued
    <3> DEFINE d == Record[t].deadline
    <3>1. Record' = Record /\ frozen' = frozen /\ expired' = expired /\ stranded' = stranded
      BY ZenonT(30) DEF Record, leases
    <3>2. d \in 0 .. Horizon
      BY RecordOf, ZenonT(30) DEF Territories
    <3>3. d \in Blocks /\ d + FrozenDays \in Blocks
      BY <3>2, TerritoryConstants DEF Blocks
    <3>4. now \in Int
      BY NowTyped DEF Inv
    <3>5. \A b \in Blocks : b < now => b < now'
      BY <3>4 DEF Blocks
    <3>6. d + FrozenDays <= now => d + FrozenDays <= now'
      BY <3>2, <3>4, TerritoryConstants
    <3> QED
      BY <3>1, <3>3, <3>5, <3>6, ZenonT(30) DEF Queued, Live
  <2>1. UNCHANGED <<leases, purchased, consign, stranded>>
    BY DEF NextBlock, StartFreezing, StartExpiring, StartCalls, hist
  <2>2. now \in Int /\ now' \in Int /\ now' >= now
    BY NowTyped DEF Inv, NextBlock, StartFreezing, StartExpiring, StartCalls
  <2>3. ASSUME NEW t \in Tokens PROVE Queued(t)'
    <3>1. ASSUME NEW b \in Blocks
          PROVE  /\ FreezePending(t, b)' => FreezePending(t, b)
                 /\ ExpirePending(t, b)' => ExpirePending(t, b)
                 /\ t \in frozen[b] /\ FreezePending(t, b) => FreezePending(t, b)'
                 /\ t \in expired[b] /\ ExpirePending(t, b) => ExpirePending(t, b)'
      <4>1. b \in Int
        BY DEF Blocks
      <4>2. CASE NextBlock
        <5>1. now' = now + 1 /\ phase = "calls" /\ phase' = "scheduler"
          BY <4>2, ZenonT(30) DEF NextBlock, InCalls
        <5> QED
          BY <2>2, <4>1, <5>1 DEF FreezePending, ExpirePending
      <4>3. CASE StartFreezing
        <5>1. now' = now /\ phase = "scheduler" /\ phase' = "freeze" /\ todo' = frozen[now]
          BY <4>3 DEF StartFreezing
        <5> QED
          BY <5>1, ZenonT(30) DEF FreezePending, ExpirePending
      <4>4. CASE StartExpiring
        <5>1. /\ now' = now /\ phase = "freeze" /\ phase' = "expire"
              /\ todo = {} /\ todo' = expired[now]
          BY <4>4 DEF StartExpiring
        <5> QED
          BY <5>1 DEF FreezePending, ExpirePending
      <4>5. CASE StartCalls
        <5>1. now' = now /\ phase = "expire" /\ phase' = "calls" /\ todo = {}
          BY <4>5 DEF StartCalls
        <5> QED
          BY <5>1 DEF FreezePending, ExpirePending
      <4> QED
        BY <4>2, <4>3, <4>4, <4>5, ZenonT(30)
    <3>2. Queued(t)
      BY DEF Tracks
    <3> QED
      BY <2>1, <2>2, <3>1, <3>2, <2>PhaseQueued, ZenonT(30)
  <2> QED
    BY <2>1, <2>3, SameLeases, Zenon
\* exec_consignment moves the territory and drops the listing; a task that fails
\* changes nothing that is tracked.
<1>TaskTracks. ASSUME Inv, Inv', Undisturbed, Undisturbed', Tracks, NEW x \in Tokens, RunTask(x)
               PROVE  Tracks'
  <2> USE <1>TaskTracks
  <2>1. phase = "scheduler" /\ x \in todo /\ UNCHANGED <<now, phase, purchased>>
    BY DEF RunTask
  <2>2. CASE ExecAllowed(x) /\ ExecConsignment(x)
    <3> DEFINE from == key[x]
               to == <<consign[x].buyer, agenda[x].name>>
               r == [terr[from] EXCEPT !.state = "Active"]
    <3>1. from \in Locs /\ Record[x] = terr[from] /\ terr[from].token = x
      BY <2>2, RecordOf, ZenonT(30) DEF ExecAllowed
    <3>2. terr[from].state = "OnConsignment" /\ Exists(from)
      BY <2>2, ZenonT(30) DEF ExecAllowed, Exists
    <3>3. to \in Locs
      <4>1. agenda[x] # NoTask /\ agenda \in [Tokens -> {NoTask} \cup [at : Nat, name : Names]]
        BY <2>1, ZenonT(30) DEF Inv, TasksNamed, TypeOK
      <4>2. agenda[x].name \in Names
        BY <4>1
      <4>3. consign[x].buyer \in Users
        BY <2>2, SaleTyped, ZenonT(30) DEF ExecAllowed, Inv
      <4> QED
        BY <4>2, <4>3, ZenonT(30) DEF Locs, TerrNames
    <3>4. terr[from] \in Territories
      BY <3>1, <3>2, RecordTyped, ZenonT(30)
    <3>5. r.deadline = terr[from].deadline /\ r.total = terr[from].total /\ r.state = "Active"
      BY <3>4 DEF Territories
    <3>6. MoveTerritory(from, to, r, x, to) /\ consign' = [consign EXCEPT ![x] = NoConsignment]
      BY <2>2, Zenon DEF ExecConsignment
    <3>7. consign \in [Tokens -> Sales]
      BY DEF Inv, TypeOK, Sales
    <3>8. consign'[x] = NoConsignment /\ \A y \in Tokens \ {x} : consign'[y] = consign[y]
      BY <3>6, <3>7
    <3> HIDE DEF r, to, from
    <3>9. MoveTerritory(from, to, r, terr[from].token, to)
      BY <3>1, <3>6, ZenonT(30)
    <3>10. Record' = [Record EXCEPT ![terr[from].token] = r]
      BY <3>1, <3>2, <3>3, <3>9, ViewMove, ZenonT(30)
    <3>11. Record'[x] = r
      BY <3>1, <3>10, ViewAt, ZenonT(30)
    <3>12. Listed(x)'
      BY <3>5, <3>8, <3>11 DEF Listed
    <3>13. r.state \in Live /\ terr[from].state \in Live
      BY <3>2, <3>5 DEF Live
    <3> QED
      BY <2>1, <3>1, <3>2, <3>3, <3>5, <3>6, <3>8, <3>12, <3>13, MoveTracks, ZenonT(30)
  <2>3. CASE UNCHANGED <<leases, consign, stranded>>
    <3>1. Record' = Record /\ frozen' = frozen /\ expired' = expired
      BY <2>3 DEF Record, leases
    <3>2. ASSUME NEW t \in Tokens PROVE Queued(t)'
      <4>1. Queued(t) /\ Record[t].deadline \in 0 .. Horizon
        BY RecordOf, ZenonT(30) DEF Tracks, Territories
      <4> QED
        BY <2>1, <2>3, <3>1, <4>1, StillQueued, ZenonT(30)
    <3> QED
      BY <2>1, <2>3, <3>2, SameLeases, SMTT(20)
  <2> QED
    BY <2>2, <2>3, ZenonT(30) DEF RunTask
\* Freezing a territory queues it for the expiry sweep of a later block.
<1>FreezeTracks. ASSUME Inv, Inv', Undisturbed, Sweeping, Tracks, NEW x \in Tokens, FreezeOne(x)
                 PROVE  Tracks'
  <2> USE <1>FreezeTracks
  <2> DEFINE l == key[x]
             t == terr[l]
             r == [t EXCEPT !.state = "Frozen"]
  <2>1. phase = "freeze" /\ x \in todo
    BY DEF FreezeOne
  <2>2. /\ l \in Locs /\ l # NoLoc /\ Record[x] = t /\ t.token = x /\ Exists(l)
        /\ t.deadline = now /\ t.state \in Live
    BY <2>1, FreezesLive
  <2>3. /\ todo' = todo \ {x}
        /\ UNCHANGED <<now, phase, key, frozen, frozenCounter, purchased, stranded>>
    BY DEF FreezeOne, hist
  <2>4. /\ terr' = [terr EXCEPT ![l].state = "Frozen"]
        /\ expired' = [expired EXCEPT ![now + FrozenDays] = @ \cup {x}]
        /\ consign' = IF t.state = "OnConsignment"
                      THEN [consign EXCEPT ![x] = NoConsignment] ELSE consign
    BY <2>2 DEF FreezeOne, Reached
  <2>5. terr' = [terr EXCEPT ![l] = r]
    BY <2>4 DEF Inv, LeasesOK
  <2>6. t \in Territories /\ t.total \in Nat /\ t.deadline \in 0 .. Horizon
    BY <2>2, RecordTyped
  <2>7. r.state = "Frozen" /\ r.deadline = now /\ r.total = t.total
    BY <2>2, <2>6 DEF Territories
  <2>8. Weight(r) = Weight(t) /\ Weight(t) \in Nat
    BY <2>2, <2>6, <2>7 DEF Weight, Live
  <2> HIDE DEF r
  <2>9. Record' = [Record EXCEPT ![x] = r]
    BY <2>2, <2>3, <2>5, ViewRewrite, ZenonT(30)
  <2>10. Record'[x] = r
    BY <2>9, ViewAt, Zenon
  <2>11. now \in Nat /\ now \in Blocks /\ now + FrozenDays \in Blocks /\ now + FrozenDays > now
    BY <2>2, <2>6, NowTyped, TerritoryConstants DEF Inv, Blocks
  <2>12. expired \in [Blocks -> SUBSET Tokens] /\ consign \in [Tokens -> Sales]
    BY Zenon DEF Inv, LeasesOK, TypeOK, Sales
  <2>13. \A y \in Tokens, b \in Blocks :
           y \in expired'[b] <=> y \in expired[b] \/ (y = x /\ b = now + FrozenDays)
    BY <2>4, <2>11, <2>12
  <2> HIDE DEF t, l
  <2>14. Queued(x) /\ Listed(x)
    BY DEF Tracks
  <2>15. Queued(x)'
    <3>1. \A b \in Blocks : x \in expired[b] => ~ExpirePending(x, b)
      BY <2>2, <2>14, Zenon DEF Queued, Live
    <3>2. \A b : ExpirePending(x, b)' <=> ExpirePending(x, b)
      BY <2>1, <2>3 DEF ExpirePending
    <3>3. \A b \in Blocks : x \in expired'[b] /\ ExpirePending(x, b)' => b = now + FrozenDays
      BY <2>13, <3>1, <3>2
    <3>4. x \in expired'[now + FrozenDays] /\ ExpirePending(x, now + FrozenDays)'
      BY <2>3, <2>11, <2>13, ZenonT(30) DEF ExpirePending
    <3>5. ~FreezePending(x, now)'
      BY <2>1, <2>3, <2>11 DEF FreezePending
    <3>6. /\ \A b \in Blocks : x \in frozen'[b] => b = now' \/ (b < now' /\ b < now')
          /\ x \in frozen'[now']
      BY <2>2, <2>3, <2>14, ZenonT(30) DEF Queued, Live
    <3>7. Record'[x].state = "Frozen" /\ Record'[x].deadline = now /\ now' = now
      BY <2>3, <2>7, <2>10
    <3> QED
      BY <3>3, <3>4, <3>5, <3>6, <3>7, Zenon DEF Queued, Live
  <2>16. \A y \in Tokens \ {x} : (y \in todo' <=> y \in todo) /\ consign'[y] = consign[y]
    BY <2>3, <2>4, <2>12
  <2>17. \A y \in Tokens : Queued(y)'
    BY <2>3, <2>9, <2>13, <2>15, <2>16, OneQueued, Zenon DEF Tracks
  <2>18. Listed(x)'
    <3>1. consign'[x] = NoConsignment
      BY <2>2, <2>4, <2>12, <2>14 DEF Listed
    <3> QED
      BY <2>7, <2>10, <3>1 DEF Listed
  <2>19. \A y \in Tokens : Listed(y)'
    BY <2>9, <2>16, <2>18, OneListed, ZenonT(30) DEF Tracks
  <2>20. purchased' = SumFunctionOnSet(Held', Locs)
    <3>1. purchased' \in Nat /\ purchased' = SumFunctionOnSet(Held, Locs)
      BY <2>3, MoneyTyped DEF Inv, Tracks
    <3>2. SumFunctionOnSet(Held', Locs) =
            SumFunctionOnSet(Held, Locs) + Weight(r) - Weight(terr[l])
      BY <2>2, <2>5, HeldRewrite, ZenonT(30)
    <3> QED
      BY <2>8, <3>1, <3>2, SMTT(20) DEF t
  <2> QED
    BY <2>3, <2>17, <2>19, <2>20, Zenon DEF Tracks, Counted
\* Expiring a territory takes its space out of the purchased total and its
\* count out of the block's counter.
<1>ExpireTracks. ASSUME Inv, Inv', Undisturbed, Sweeping, Tracks, NEW x \in Tokens, ExpireOne(x)
                 PROVE  Tracks'
  <2> USE <1>ExpireTracks
  <2> DEFINE l == key[x]
             t == terr[l]
             r == [t EXCEPT !.state = "Expired"]
  <2>1. phase = "expire" /\ x \in todo
    BY DEF ExpireOne
  <2>2. /\ l \in Locs /\ l # NoLoc /\ Record[x] = t /\ t.token = x /\ Exists(l)
        /\ t.deadline + FrozenDays = now /\ t.state = "Frozen" /\ purchased >= t.total
    BY <2>1, ExpiresFrozen
  <2>3. /\ todo' = todo \ {x}
        /\ UNCHANGED <<now, phase, key, frozen, frozenCounter, expired, consign, stranded>>
    BY DEF ExpireOne, hist
  <2>4. terr' = [terr EXCEPT ![l].state = "Expired"] /\ purchased' = purchased - t.total
    BY <2>2 DEF ExpireOne, Reached
  <2>5. terr' = [terr EXCEPT ![l] = r]
    BY <2>4, Zenon DEF Inv, LeasesOK
  <2>6. t \in Territories /\ t.total \in Nat /\ t.deadline \in 0 .. Horizon
    BY <2>2, RecordTyped
  <2>7. r.state = "Expired" /\ r.deadline = t.deadline
    BY <2>2, <2>6 DEF Territories
  <2>8. Weight(r) = 0 /\ Weight(t) = t.total
    BY <2>2, <2>7 DEF Weight
  <2> HIDE DEF r
  <2>9. Record' = [Record EXCEPT ![x] = r]
    BY <2>2, <2>3, <2>5, ViewRewrite, ZenonT(30)
  <2>10. Record'[x] = r
    BY <2>9, ViewAt, Zenon
  <2>11. now \in Nat /\ t.deadline < now
    BY <2>2, <2>6, NowTyped, TerritoryConstants DEF Inv
  <2>12. Queued(x) /\ Listed(x)
    BY DEF Tracks
  <2> HIDE DEF t, l
  <2>13. Queued(x)'
    <3> PICK d \in 0 .. Horizon : d = t.deadline
      BY <2>6
    <3>1. ASSUME NEW b \in Blocks, x \in expired'[b] PROVE ~ExpirePending(x, b)'
      <4>1. ExpirePending(x, b) => b = now
        BY <2>2, <2>3, <2>12, <3>1, ZenonT(30) DEF Queued
      <4> QED
        BY <2>1, <2>3, <2>11, <4>1 DEF ExpirePending
    <3>2. ~FreezePending(x, d)'
      BY <2>1, <2>3, <2>6, <2>11 DEF FreezePending
    <3>3. /\ \A b \in Blocks : x \in frozen'[b] => b = d \/ (b < now /\ b < d)
          /\ x \in frozen'[d]
      BY <2>2, <2>3, <2>12, ZenonT(30) DEF Queued
    <3>4. Record'[x].state = "Expired" /\ Record'[x].deadline = d /\ now' = now
      BY <2>3, <2>7, <2>10, Zenon
    <3>5. d + FrozenDays <= now
      BY <2>2, <2>11
    <3> QED
      BY <3>1, <3>2, <3>3, <3>4, <3>5, Zenon DEF Queued, Live
  <2>14. \A y \in Tokens \ {x} : y \in todo' <=> y \in todo
    BY <2>3
  <2>15. \A y \in Tokens : Queued(y)'
    BY <2>3, <2>9, <2>13, <2>14, OneQueued, Zenon DEF Tracks
  <2>16. Listed(x)'
    BY <2>2, <2>3, <2>7, <2>10, <2>12, Zenon DEF Listed
  <2>17. \A y \in Tokens : Listed(y)'
    BY <2>3, <2>9, <2>16, OneListed, Zenon DEF Tracks
  <2>18. purchased' = SumFunctionOnSet(Held', Locs)
    <3>1. purchased \in Nat /\ purchased = SumFunctionOnSet(Held, Locs)
      BY MoneyTyped DEF Inv, Tracks
    <3>2. SumFunctionOnSet(Held', Locs) =
            SumFunctionOnSet(Held, Locs) + Weight(r) - Weight(terr[l])
      BY <2>2, <2>5, HeldRewrite, Zenon
    <3> QED
      BY <2>4, <2>6, <2>8, <3>1, <3>2, SMTT(20) DEF t
  <2> QED
    BY <2>3, <2>15, <2>17, <2>18, Zenon DEF Tracks, Counted
\* A sweep takes its tokens from the queue of the block, and only removes them.
<1>SweepingNext. ASSUME Sweeping, Next
                 PROVE  Sweeping'
  <2> USE <1>SweepingNext
  <2>1. CASE Lease \/ Order \/ Market \/ Storage
    BY <2>1, CallsFramed DEF CallFrame, block, Sweeping
  <2>2. CASE Hooks
    <3>1. CASE NextBlock \/ StartFreezing \/ StartExpiring \/ StartCalls
      BY <3>1, Zenon DEF NextBlock, StartFreezing, StartExpiring, StartCalls, leases, Sweeping
    <3>2. ASSUME NEW t \in Tokens, RunTask(t) \/ FreezeOne(t) \/ ExpireOne(t)
          PROVE  Sweeping'
      BY <3>2 DEF RunTask, FreezeOne, ExpireOne, Sweeping
    <3> QED
      BY <2>2, <3>1, <3>2, Zenon DEF Hooks
  <2> QED
    BY <2>1, <2>2 DEF Next
\* What disturbed the leases once is never forgotten.
<1>DisturbedStays. ASSUME Next
                   PROVE  displaced \subseteq displaced' /\ misrenewed \subseteq misrenewed'
  <2> USE <1>DisturbedStays
  <2>1. CASE Lease \/ Order \/ Market \/ Storage
    BY <2>1, CallsFramed DEF CallFrame
  <2>2. CASE Hooks
    <3>1. CASE NextBlock \/ StartFreezing \/ StartExpiring \/ StartCalls
      BY <3>1 DEF NextBlock, StartFreezing, StartExpiring, StartCalls, hist
    <3>2. ASSUME NEW t \in Tokens, RunTask(t) \/ FreezeOne(t) \/ ExpireOne(t)
          PROVE  displaced \subseteq displaced' /\ misrenewed \subseteq misrenewed'
      BY <3>2, Zenon DEF RunTask, ExecConsignment, MoveTerritory, FreezeOne, ExpireOne, hist
    <3> QED
      BY <2>2, <3>1, <3>2, Zenon DEF Hooks
  <2> QED
    BY <2>1, <2>2 DEF Next
<1> SUFFICES ASSUME LeaseInv, [Next]_vars PROVE LeaseInv'
  OBVIOUS
<1>1. Inv /\ Inv' /\ Sweeping
  BY NextInv DEF LeaseInv
<1>2. CASE UNCHANGED vars
  <2>1. UNCHANGED <<block, leases, purchased, consign, hist>>
    BY <1>2, Zenon DEF vars
  <2>2. (Undisturbed' <=> Undisturbed) /\ Sweeping'
    BY <1>1, <2>1 DEF Undisturbed, Sweeping, hist, block, leases
  <2> QED
    BY <1>1, <2>1, <2>2, IdleTracks, Zenon DEF LeaseInv
<1>3. CASE Next
  <2>1. Sweeping'
    BY <1>1, <1>3, <1>SweepingNext, Zenon
  <2>2. ASSUME Undisturbed' PROVE Tracks'
    <3>1. Undisturbed /\ Tracks
      <4>1. Undisturbed
        BY <1>3, <2>2, <1>DisturbedStays, Zenon DEF Undisturbed
      <4> QED
        BY <4>1 DEF LeaseInv
    <3>2. CASE Lease
      BY <1>1, <2>2, <3>1, <3>2, LeaseTracks, Zenon
    <3>3. CASE Order
      BY <1>1, <2>2, <3>1, <3>3, OrderTracks, Zenon
    <3>4. CASE Market
      BY <1>1, <3>1, <3>4, MarketTracks, Zenon
    <3>5. CASE Storage
      BY <1>1, <3>1, <3>5, SpaceMoveTracks, Zenon
    <3>6. CASE NextBlock \/ StartFreezing \/ StartExpiring \/ StartCalls
      BY <1>1, <3>1, <3>6, <1>BlockTracks, Zenon
    <3>7. ASSUME NEW t \in Tokens, RunTask(t) PROVE Tracks'
      BY <1>1, <2>2, <3>1, <3>7, <1>TaskTracks, Zenon
    <3>8. ASSUME NEW t \in Tokens, FreezeOne(t) PROVE Tracks'
      BY <1>1, <3>1, <3>8, <1>FreezeTracks, Zenon
    <3>9. ASSUME NEW t \in Tokens, ExpireOne(t) PROVE Tracks'
      BY <1>1, <3>1, <3>9, <1>ExpireTracks
    <3> QED
      BY <1>3, <3>2, <3>3, <3>4, <3>5, <3>6, <3>7, <3>8, <3>9, Zenon DEF Next, Hooks
  <2> QED
    BY <1>1, <2>1, <2>2, Zenon DEF LeaseInv
<1> QED
  BY <1>2, <1>3

\* PurchasedSpace counts exactly the leases that have not expired.
THEOREM AccountingSafe == Spec => []LeaseAccounting
<1>1. LeaseInv => LeaseAccounting
  BY Zenon DEF LeaseInv, LeaseAccounting, Tracks
<1> QED
  BY <1>1, InitLease, NextLease, PTL, ZenonT(30) DEF Spec

\* Every lease is on its way to the next sweep of frozen_task.
THEOREM SweepSafe == Spec => []SweepScheduled
<1>1. LeaseInv => SweepScheduled
  <2> SUFFICES ASSUME LeaseInv, Undisturbed
               PROVE  /\ Counted
                      /\ InCalls => \A l \in Locs : Exists(l) /\ terr[l].token \notin stranded =>
                           LET t == terr[l]
                           IN  CASE t.state \in {"Active", "OnConsignment"} ->
                                      t.deadline > now /\ t.token \in frozen[t.deadline]
                                 [] t.state = "Frozen" ->
                                      /\ t.deadline <= now /\ now < t.deadline + FrozenDays
                                      /\ t.token \in expired[t.deadline + FrozenDays]
                                 [] t.state = "Expired" ->
                                      \A b \in Blocks : b > now =>
                                        t.token \notin frozen[b] \cup expired[b]
    BY Zenon DEF SweepScheduled, Counted
  <2>1. Inv /\ Tracks
    BY DEF LeaseInv
  <2>2. Counted
    BY <2>1 DEF Tracks
  <2>3. ASSUME InCalls, NEW l \in Locs, Exists(l), terr[l].token \notin stranded
        PROVE  LET t == terr[l]
               IN  CASE t.state \in {"Active", "OnConsignment"} ->
                          t.deadline > now /\ t.token \in frozen[t.deadline]
                     [] t.state = "Frozen" ->
                          /\ t.deadline <= now /\ now < t.deadline + FrozenDays
                          /\ t.token \in expired[t.deadline + FrozenDays]
                     [] t.state = "Expired" ->
                          \A b \in Blocks : b > now => t.token \notin frozen[b] \cup expired[b]
    <3> DEFINE t == terr[l]
               x == t.token
               d == t.deadline
    <3>1. x \in Tokens /\ Record[x] = t
      BY <2>1, <2>3, RecordAt, Zenon
    <3>2. Queued(x) /\ x \notin stranded
      BY <2>1, <2>3, <3>1, Zenon DEF Tracks
    <3>3. t.state \in States \ {"Absent"} /\ d \in 0 .. Horizon
      BY <2>1, <2>3, RecordTyped
    <3>4. \A b : (FreezePending(x, b) <=> b > now) /\ (ExpirePending(x, b) <=> b > now)
      BY <2>3 DEF FreezePending, ExpirePending, InCalls
    <3>5. now \in Nat
      BY <2>1, NowTyped DEF Inv
    <3> HIDE DEF t, x, d
    <3>6. t.state \in {"Active", "OnConsignment"} => d > now /\ x \in frozen[d]
      BY <3>1, <3>2, <3>4, ZenonT(30) DEF Queued, Live, d
    <3>7. t.state = "Frozen" => /\ d <= now /\ now < d + FrozenDays
                                /\ x \in expired[d + FrozenDays]
      <4>1. t.state = "Frozen" => ~(d > now) /\ d + FrozenDays > now /\ x \in expired[d + FrozenDays]
        BY <3>1, <3>2, <3>4, ZenonT(30) DEF Queued, d
      <4> QED
        BY <3>3, <3>5, <4>1, TerritoryConstants
    <3>8. ASSUME t.state = "Expired", NEW b \in Blocks, b > now
          PROVE  x \notin frozen[b] \cup expired[b]
      <4>1. ~(d > now) /\ (x \in frozen[b] => b = d \/ b < now)
        BY <3>1, <3>2, <3>4, <3>8, Zenon DEF Queued, d
      <4>2. x \notin expired[b]
        BY <3>1, <3>2, <3>4, <3>8, Zenon DEF Queued
      <4>3. x \notin frozen[b]
        BY <3>3, <3>5, <3>8, <4>1 DEF Blocks
      <4> QED
        BY <4>2, <4>3
    <3>9. t.state = "Active" \/ t.state = "OnConsignment" \/ t.state = "Frozen" \/ t.state = "Expired"
      BY <3>3 DEF States
    <3> QED
      BY <3>6, <3>7, <3>8, <3>9, ZenonT(30) DEF t, x, d
  <2> QED
    BY <2>2, <2>3, Zenon
<1> QED
  BY <1>1, InitLease, NextLease, PTL DEF Spec
-----------------------------------------------------------------------------
(* Purchases: their tasks and their reserves. *)

\* A purchase has its task ahead until the scheduler has run it.
TaskAhead(t) ==
  consign[t].locked /\ t \notin orphaned =>
    /\ agenda[t] # NoTask
    /\ agenda[t].at > now \/ (phase = "scheduler" /\ agenda[t].at = now /\ t \in todo)

\* Only a locked listing has a buyer, whose reserve covers it.
Sold ==
  /\ \A t \in Tokens : consign[t].buyer # NoUser => consign[t].locked
  /\ \A u \in Users : Unclaimed(u) >= 0

SaleInv == Inv /\ (\A t \in Tokens : TaskAhead(t)) /\ Sold

LEMMA Difference == \A a, b \in Nat : a - b \in Int
  OBVIOUS

LEMMA DebtChange ==
  ASSUME NEW f, NEW g, NEW x \in Tokens, \A t \in Tokens : f[t] \in Nat,
         \A t \in Tokens : g[t] \in Nat, \A t \in Tokens \ {x} : f[t] = g[t]
  PROVE  SumFunctionOnSet(g, Tokens) = SumFunctionOnSet(f, Tokens) + g[x] - f[x]
<1>1. \A t \in Tokens : f[t] \in Int /\ g[t] \in Int
  OBVIOUS
<1>2. IsFiniteSet(Tokens)
  BY TerritoryConstants
<1> QED
  BY <1>1, <1>2, SumChange, Zenon

\* What each token's purchase claims from a user, as numbers.
LEMMA DebtsTyped ==
  ASSUME Inv, NEW u \in Users
  PROVE  /\ \A t \in Tokens : Debts(u)[t] = IF consign[t].buyer = u THEN consign[t].price ELSE 0
         /\ \A t \in Tokens : Debts(u)[t] \in Nat
         /\ SumFunctionOnSet(Debts(u), Tokens) \in Nat /\ reserved[u] \in Nat
<1>1. \A t \in Tokens : consign[t].price \in Nat
  BY SaleTyped DEF Inv
<1>2. \A t \in Tokens : Debts(u)[t] = IF consign[t].buyer = u THEN consign[t].price ELSE 0
  BY DEF Debts
<1>3. \A t \in Tokens : Debts(u)[t] \in Nat
  BY <1>1, <1>2
<1>4. SumFunctionOnSet(Debts(u), Tokens) \in Nat
  BY <1>3, SumNat, TerritoryConstants
<1>5. reserved[u] \in Nat
  BY MoneyTyped DEF Inv
<1> QED
  BY <1>2, <1>3, <1>4, <1>5, ZenonT(30)

\* The same after a step.
LEMMA DebtsTypedNext ==
  ASSUME Inv', NEW u \in Users
  PROVE  /\ \A t \in Tokens : Debts(u)'[t] = IF consign'[t].buyer = u THEN consign'[t].price ELSE 0
         /\ \A t \in Tokens : Debts(u)'[t] \in Nat /\ reserved'[u] \in Nat
<1>1. consign' \in [Tokens -> Sales] /\ reserved' \in [Users -> Nat]
  BY DEF Inv, TypeOK, Sales
<1>2. \A t \in Tokens : consign'[t].price \in Nat
  BY <1>1 DEF Sales
<1>3. \A t \in Tokens : Debts(u)'[t] = IF consign'[t].buyer = u THEN consign'[t].price ELSE 0
  BY DEF Debts
<1> QED
  BY <1>1, <1>2, <1>3, SMTT(20)

LEMMA NoListing == NoConsignment.buyer = NoUser /\ ~NoConsignment.locked
BY DEF NoConsignment

\* A fresh consignment has none either.
LEMMA NewListing ==
  ASSUME NEW c, NEW u, NEW p, c = [user |-> u, price |-> p, buyer |-> NoUser, locked |-> FALSE]
  PROVE  c.buyer = NoUser /\ ~c.locked
OBVIOUS

LEMMA NoDebtNext ==
  ASSUME Inv', NEW u \in Users, NEW x \in Tokens, consign'[x].buyer = NoUser
  PROVE  Debts(u)'[x] = 0
BY DebtsTypedNext, TerritoryConstants, Zenon

\* One listing changes: the unclaimed reserve of a user moves with the reserve, and
\* against what the listing claims.
LEMMA UnclaimedMoves ==
  ASSUME Inv, Inv', NEW x \in Tokens, \A y \in Tokens \ {x} : consign'[y] = consign[y],
         NEW u \in Users
  PROVE  /\ Unclaimed(u) \in Int
         /\ Unclaimed(u)' = Unclaimed(u) + (reserved'[u] - Debts(u)'[x]) - (reserved[u] - Debts(u)[x])
<1> DEFINE f == Debts(u)
           g == Debts(u)'
           F == SumFunctionOnSet(f, Tokens)
           G == SumFunctionOnSet(g, Tokens)
<1>1. /\ \A t \in Tokens : f[t] = IF consign[t].buyer = u THEN consign[t].price ELSE 0
      /\ \A t \in Tokens : f[t] \in Nat
      /\ F \in Nat /\ reserved[u] \in Nat
  BY DebtsTyped, ZenonT(30)
<1>2. /\ \A t \in Tokens : g[t] = IF consign'[t].buyer = u THEN consign'[t].price ELSE 0
      /\ \A t \in Tokens : g[t] \in Nat
      /\ reserved'[u] \in Nat
  BY DebtsTypedNext, Zenon
<1>3. Unclaimed(u) = reserved[u] - F /\ Unclaimed(u)' = reserved'[u] - G
  BY Zenon DEF Unclaimed
<1> HIDE DEF f, g
<1>4. G = F + g[x] - f[x]
  <2>1. \A t \in Tokens \ {x} : f[t] = g[t]
    BY <1>1, <1>2, Zenon
  <2> QED
    BY <1>1, <1>2, <2>1, DebtChange, Zenon
<1>5. f[x] \in Nat /\ g[x] \in Nat
  BY <1>1, <1>2, Zenon
<1> HIDE DEF F, G
<1>6. /\ reserved[u] - F \in Int
      /\ reserved'[u] - G = reserved[u] - F + (reserved'[u] - g[x]) - (reserved[u] - f[x])
  BY <1>1, <1>2, <1>4, <1>5, SMTT(20)
<1> QED
  BY <1>3, <1>6, ZenonT(30) DEF f, g

\* A step that changes one listing, and no user's reserve beyond what it claims.
LEMMA OneSale ==
  ASSUME Inv, Inv', Sold, NEW x \in Tokens, \A y \in Tokens \ {x} : consign'[y] = consign[y],
         consign'[x].buyer # NoUser => consign'[x].locked,
         \A u \in Users : reserved'[u] - Debts(u)'[x] = reserved[u] - Debts(u)[x]
  PROVE  Sold' /\ NoLeak
<1>1. ASSUME NEW u \in Users PROVE Unclaimed(u)' = Unclaimed(u) /\ Unclaimed(u) \in Int
  <2>1. reserved[u] \in Nat /\ Debts(u)[x] \in Nat
    BY DebtsTyped, ZenonT(30)
  <2>2. /\ Unclaimed(u) \in Int
        /\ Unclaimed(u)' = Unclaimed(u) + (reserved'[u] - Debts(u)'[x]) - (reserved[u] - Debts(u)[x])
    BY UnclaimedMoves, ZenonT(30)
  <2>3. reserved'[u] - Debts(u)'[x] = reserved[u] - Debts(u)[x]
    BY Zenon
  <2> QED
    BY <2>1, <2>2, <2>3, SMTT(20)
<1>2. NoLeak
  BY <1>1 DEF NoLeak
<1>3. \A u \in Users : Unclaimed(u)' >= 0
  BY <1>1 DEF Sold
<1>4. \A t \in Tokens : consign'[t].buyer # NoUser => consign'[t].locked
  BY ZenonT(30) DEF Sold
<1> QED
  BY <1>2, <1>3, <1>4, Zenon DEF Sold

\* The reserve of a buyer covers the purchase.
LEMMA Covers ==
  ASSUME Inv, Sold, NEW x \in Tokens, consign[x].buyer \in Users
  PROVE  reserved[consign[x].buyer] >= consign[x].price
<1> DEFINE u == consign[x].buyer
           F == SumFunctionOnSet(Debts(u), Tokens)
<1>1. /\ Debts(u)[x] = consign[x].price /\ Debts(u)[x] \in Nat
      /\ F \in Nat /\ reserved[u] \in Nat
  BY DebtsTyped
<1>2. Debts(u)[x] <= F
  BY DebtsTyped, SumElement, TerritoryConstants, ZenonT(30)
<1>3. reserved[u] - F >= 0
  BY Zenon DEF Sold, Unclaimed
<1> HIDE DEF F, u
<1> QED
  BY <1>1, <1>2, <1>3, SMTT(20) DEF u

\* A task is still ahead when neither it nor its listing is touched.
LEMMA TaskKept ==
  ASSUME NEW t, TaskAhead(t), consign'[t].locked => consign[t].locked, agenda'[t] = agenda[t],
         orphaned \subseteq orphaned', now' = now,
         phase # "scheduler" \/ todo = {} \/ (phase' = phase /\ (t \in todo' <=> t \in todo))
  PROVE  TaskAhead(t)'
  BY DEF TaskAhead

\* A step of which the market knows nothing.
LEMMA NoSaleKept ==
  ASSUME SaleInv, Inv', NoSale, now' = now,
         phase # "scheduler" \/ todo = {} \/ UNCHANGED <<phase, todo>>
  PROVE  SaleInv' /\ NoLeak
<1>1. consign' = consign /\ agenda' = agenda /\ reserved' = reserved /\ orphaned' = orphaned
  BY Zenon DEF NoSale
<1>2. \A t \in Tokens : TaskAhead(t)'
  BY <1>1, TaskKept, Zenon DEF SaleInv
<1>3. \A u \in Users : Unclaimed(u)' = Unclaimed(u) /\ Unclaimed(u) >= 0
  BY <1>1 DEF Unclaimed, Debts, SaleInv, Sold
<1>4. \A u \in Users : Unclaimed(u) \in Int
  BY DebtsTyped DEF SaleInv, Unclaimed
<1>5. NoLeak
  BY <1>3, <1>4 DEF NoLeak
<1>6. Sold'
  BY <1>1, <1>3, Zenon DEF Sold, SaleInv
<1> QED
  BY <1>2, <1>5, <1>6, Zenon DEF SaleInv
\* A step that changes the listing and the task of one token.
LEMMA SaleStep ==
  ASSUME SaleInv, Inv', NEW x \in Tokens, now' = now, orphaned \subseteq orphaned',
         phase # "scheduler" \/
           (phase' = phase /\ \A y \in Tokens \ {x} : y \in todo' <=> y \in todo),
         \A y \in Tokens \ {x} : consign'[y] = consign[y] /\ agenda'[y] = agenda[y],
         TaskAhead(x)', consign'[x].buyer # NoUser => consign'[x].locked,
         \A u \in Users : reserved'[u] - Debts(u)'[x] = reserved[u] - Debts(u)[x]
  PROVE  SaleInv' /\ NoLeak
<1>1. Sold' /\ NoLeak
  BY OneSale, Zenon DEF SaleInv
<1>2. ASSUME NEW y \in Tokens, y # x PROVE TaskAhead(y)'
  BY <1>2, TaskKept, Zenon DEF SaleInv
<1> QED
  BY <1>1, <1>2, Zenon DEF SaleInv

\* Initially nothing is sold and nothing reserved.
LEMMA InitSale == Init => SaleInv
<1> SUFFICES ASSUME Init PROVE SaleInv
  OBVIOUS
<1>1. Inv
  BY InitInv, Zenon
<1>2. \A t \in Tokens : consign[t] = NoConsignment /\ TaskAhead(t)
  BY DEF Init, TaskAhead, NoConsignment
<1>3. ASSUME NEW u \in Users PROVE Unclaimed(u) >= 0
  <2>1. \A t \in Tokens : Debts(u)[t] = 0
    BY <1>1, <1>2, DebtsTyped, TerritoryConstants, SMTT(20) DEF NoConsignment
  <2>2. SumFunctionOnSet(Debts(u), Tokens) = 0 /\ reserved[u] = 0
    BY <2>1, SumZero, TerritoryConstants, ZenonT(30) DEF Init
  <2> QED
    BY <2>2, SMTT(20) DEF Unclaimed
<1> QED
  BY <1>1, <1>2, <1>3, SMTT(20) DEF SaleInv, Sold, NoConsignment

\* Every step keeps the purchases covered and their tasks ahead, and releases
\* exactly what a settled or cancelled purchase had claimed.
LEMMA NextSale == SaleInv /\ [Next]_vars => SaleInv' /\ [NoLeak]_vars
\* Listing, delisting and transfers claim nothing; a purchase reserves its
\* price, and its cancellation releases exactly that.
<1>MarketSale. ASSUME SaleInv, Inv', Market
               PROVE  SaleInv' /\ NoLeak
  <2> USE <1>MarketSale
  \* A listing without a buyer is nobody's debt.
  <2>NoDebt. ASSUME Inv, NEW u \in Users, NEW x \in Tokens, consign[x].buyer = NoUser
             PROVE  Debts(u)[x] = 0
    BY <2>NoDebt, DebtsTyped, TerritoryConstants, Zenon
  <2>1. /\ phase = "calls" /\ now' = now /\ phase' = phase /\ todo' = todo /\ orphaned' = orphaned
        /\ Inv /\ consign \in [Tokens -> Sales] /\ reserved \in [Users -> Nat]
    BY MarketFrame, ZenonT(30) DEF CallFrame, block, SaleInv, Inv, TypeOK, Sales
  <2>2. ASSUME NEW x \in Tokens, consign[x].buyer = NoUser, consign'[x].buyer = NoUser,
               ~consign'[x].locked, reserved' = reserved, agenda' = agenda,
               \A y \in Tokens \ {x} : consign'[y] = consign[y]
        PROVE  SaleInv' /\ NoLeak
    <3>1. \A u \in Users : Debts(u)[x] = 0 /\ Debts(u)'[x] = 0
      BY <2>1, <2>2, <2>NoDebt, NoDebtNext, Zenon
    <3>2. TaskAhead(x)'
      BY <2>2 DEF TaskAhead
    <3> QED
      BY <2>1, <2>2, <3>1, <3>2, SaleStep, ZenonT(30)
  <2> PICK u \in Users :
      \/ \E n \in TerrNames : \/ \E p \in Prices : TerritoryConsignment(u, n, p)
                              \/ CancelConsignment(u, n)
      \/ \E t \in Tokens : \/ \E n \in Names : BuyConsignment(u, t, n)
                           \/ CancelPurchaseAction(u, t)
      \/ \E v \in Users, p \in Prices : Transfer(u, v, p)
    BY DEF Market
  <2>3. ASSUME NEW n \in TerrNames, NEW p \in Prices, TerritoryConsignment(u, n, p)
        PROVE  SaleInv' /\ NoLeak
    <3>1. PICK x \in Tokens : x = terr[<<u, n>>].token
      BY <2>1, <2>3, LocTyped, RecordTyped, ZenonT(30) DEF TerritoryConsignment, Exists
    <3>2. /\ consign[x] = NoConsignment /\ reserved' = reserved /\ agenda' = agenda
          /\ consign' = [consign EXCEPT ![x] =
               [user |-> u, price |-> p, buyer |-> NoUser, locked |-> FALSE]]
      BY <2>3, <3>1, ZenonT(30) DEF TerritoryConsignment, money
    <3>3. consign[x].buyer = NoUser
      BY <3>2, NoListing, Zenon
    <3>4. consign'[x] = [user |-> u, price |-> p, buyer |-> NoUser, locked |-> FALSE]
      BY <2>1, <3>2, Zenon
    <3>5. consign'[x].buyer = NoUser /\ ~consign'[x].locked
      BY <3>4, NewListing, Zenon
    <3>6. \A y \in Tokens \ {x} : consign'[y] = consign[y]
      BY <2>1, <3>2, Zenon
    <3> QED
      BY <2>2, <3>2, <3>3, <3>5, <3>6, Zenon
  <2>4. ASSUME NEW n \in TerrNames, CancelConsignment(u, n)
        PROVE  SaleInv' /\ NoLeak
    <3>1. PICK x \in Tokens : x = terr[<<u, n>>].token
      BY <2>1, <2>4, LocTyped, RecordTyped, ZenonT(30) DEF CancelConsignment, Exists
    <3>2. /\ ~consign[x].locked /\ reserved' = reserved /\ agenda' = agenda
          /\ consign' = [consign EXCEPT ![x] = NoConsignment]
      BY <2>4, <3>1 DEF CancelConsignment, money
    <3>3. consign'[x].buyer = NoUser /\ ~consign'[x].locked
      <4>1. consign'[x] = NoConsignment
        BY <2>1, <3>2, Zenon
      <4> QED
        BY <4>1, NoListing, Zenon
    <3>4. consign[x].buyer = NoUser
      BY <3>2 DEF SaleInv, Sold
    <3> QED
      BY <2>1, <2>2, <3>2, <3>3, <3>4, Zenon
  <2>5. ASSUME NEW x \in Tokens, NEW n \in Names, BuyConsignment(u, x, n)
        PROVE  SaleInv' /\ NoLeak
    <3> DEFINE c == consign[x]
               task == [at |-> now + LockingBlock, name |-> n]
    <3>1. /\ ~c.locked /\ reserved' = [reserved EXCEPT ![u] = @ + c.price]
          /\ agenda' = [agenda EXCEPT ![x] = task]
          /\ consign' = [consign EXCEPT ![x].buyer = u, ![x].locked = TRUE]
      BY <2>5 DEF BuyConsignment
    <3>2. c.buyer = NoUser /\ c \in Sales /\ c.price \in Nat
      BY <2>1, <3>1 DEF SaleInv, Sold, Sales
    <3>3. /\ consign'[x].buyer = u /\ consign'[x].locked /\ consign'[x].price = c.price
          /\ \A y \in Tokens \ {x} : consign'[y] = consign[y]
      BY <2>1, <3>1, <3>2, Zenon DEF Sales
    <3>4. agenda \in [Tokens -> {NoTask} \cup [at : Nat, name : Names]] /\ now \in Nat
      BY <2>1, NowTyped, ZenonT(30) DEF Inv, TypeOK
    <3>5. agenda'[x] = task /\ \A y \in Tokens \ {x} : agenda'[y] = agenda[y]
      BY <3>1, <3>4, Zenon
    <3>6. task # NoTask /\ task.at > now
      BY <3>4, TerritoryConstants DEF NoTask
    <3>7. TaskAhead(x)'
      BY <2>1, <3>5, <3>6, ZenonT(30) DEF TaskAhead
    <3>8. ASSUME NEW v \in Users
          PROVE  reserved'[v] - Debts(v)'[x] = reserved[v] - Debts(v)[x]
      <4>1. Debts(v)[x] = 0
        BY <2>1, <3>2, <2>NoDebt, Zenon
      <4>2. reserved[v] \in Nat /\ (v = u => reserved'[v] = reserved[v] + c.price)
            /\ (v # u => reserved'[v] = reserved[v])
        BY <2>1, <3>1
      <4>3. (v = u => Debts(v)'[x] = c.price) /\ (v # u => Debts(v)'[x] = 0)
        BY <3>3, DebtsTypedNext, Zenon
      <4> HIDE DEF c
      <4>4. \A r, p \in Nat : (r + p) - p = r - 0
        OBVIOUS
      <4> QED
        BY <3>2, <4>1, <4>2, <4>3, <4>4, Zenon
    <3> HIDE DEF c, task
    <3> QED
      BY <2>1, <3>3, <3>5, <3>7, <3>8, SaleStep, ZenonT(30)
  <2>6. ASSUME NEW x \in Tokens, CancelPurchaseAction(u, x)
        PROVE  SaleInv' /\ NoLeak
    <3> DEFINE c == consign[x]
    <3>1. /\ c.buyer = u /\ Unreserve(u, c.price) /\ agenda' = [agenda EXCEPT ![x] = NoTask]
          /\ consign' = [consign EXCEPT ![x].buyer = NoUser, ![x].locked = FALSE]
      BY <2>6 DEF CancelPurchaseAction
    <3>2. c \in Sales /\ c.price \in Nat /\ reserved[u] \in Nat /\ reserved[u] >= c.price
      BY <2>1, <3>1, Covers, Zenon DEF SaleInv, Sales
    <3>3. /\ consign'[x].buyer = NoUser /\ ~consign'[x].locked
          /\ \A y \in Tokens \ {x} : consign'[y] = consign[y]
      BY <2>1, <3>1, <3>2, Zenon DEF Sales
    <3>4. agenda \in [Tokens -> {NoTask} \cup [at : Nat, name : Names]]
      BY <2>1, ZenonT(30) DEF Inv, TypeOK
    <3>5. \A y \in Tokens \ {x} : agenda'[y] = agenda[y]
      BY <3>1, <3>4
    <3>6. TaskAhead(x)'
      BY <3>3, Zenon DEF TaskAhead
    <3>7. reserved' = [reserved EXCEPT ![u] = @ - c.price]
      <4>1. (IF reserved[u] < c.price THEN reserved[u] ELSE c.price) = c.price
        BY <3>2
      <4>2. reserved' = [reserved EXCEPT ![u] =
              @ - (IF reserved[u] < c.price THEN reserved[u] ELSE c.price)]
        BY <3>1 DEF Unreserve
      <4> HIDE DEF c
      <4> QED
        BY <4>1, <4>2, ZenonT(30)
    <3>8. ASSUME NEW v \in Users
          PROVE  reserved'[v] - Debts(v)'[x] = reserved[v] - Debts(v)[x]
      <4>1. Debts(v)'[x] = 0
        BY <3>3, NoDebtNext, Zenon
      <4>2. reserved[v] \in Nat /\ (v = u => reserved'[v] = reserved[v] - c.price)
            /\ (v # u => reserved'[v] = reserved[v])
        BY <2>1, <3>7
      <4>3. (v = u => Debts(v)[x] = c.price) /\ (v # u => Debts(v)[x] = 0)
        BY <2>1, <3>1, DebtsTyped, Zenon
      <4> HIDE DEF c
      <4>4. \A r, p \in Nat : (r - p) - 0 = r - p
        OBVIOUS
      <4> QED
        BY <3>2, <4>1, <4>2, <4>3, <4>4, Zenon
    <3> HIDE DEF c
    <3> QED
      BY <2>1, <3>3, <3>5, <3>6, <3>8, SaleStep, ZenonT(30)
  <2>7. ASSUME NEW v \in Users, NEW p \in Prices, Transfer(u, v, p)
        PROVE  SaleInv' /\ NoLeak
    BY <2>1, <2>7, NoSaleKept, ZenonT(30) DEF Transfer, NoSale
  <2> QED
    BY <2>3, <2>4, <2>5, <2>6, <2>7, Zenon
\* A purchase is settled from the reserve that was made for it; a task that fails
\* leaves its purchase without one.
<1>TaskSale. ASSUME SaleInv, Inv', NEW x \in Tokens, RunTask(x)
             PROVE  SaleInv' /\ NoLeak
  <2> USE <1>TaskSale
  <2>1. /\ phase = "scheduler" /\ now' = now /\ phase' = phase /\ todo' = todo \ {x}
        /\ agenda' = [agenda EXCEPT ![x] = NoTask]
    BY DEF RunTask
  <2>2. /\ Inv /\ consign \in [Tokens -> Sales] /\ reserved \in [Users -> Nat]
        /\ agenda \in [Tokens -> {NoTask} \cup [at : Nat, name : Names]]
    BY Zenon DEF SaleInv, Inv, TypeOK, Sales
  <2>3. \A y \in Tokens \ {x} : agenda'[y] = agenda[y] /\ (y \in todo' <=> y \in todo)
    BY <2>1, <2>2
  <2>4. CASE ExecAllowed(x) /\ ExecConsignment(x)
    <3> DEFINE c == consign[x]
               b == c.buyer
    <3>1. c \in Sales /\ c.price \in Nat /\ b \in Users
      BY <2>2, <2>4, ZenonT(30) DEF ExecAllowed, Sales
    <3>2. reserved[b] \in Nat /\ reserved[b] >= c.price
      BY <2>2, <3>1, Covers, Zenon DEF SaleInv
    <3>3. /\ consign' = [consign EXCEPT ![x] = NoConsignment] /\ orphaned' = orphaned
          /\ reserved' = [reserved EXCEPT ![b] =
               @ - (IF reserved[b] < c.price THEN reserved[b] ELSE c.price)]
      BY <2>4 DEF ExecConsignment, MoveTerritory
    <3>4. reserved' = [reserved EXCEPT ![b] = @ - c.price]
      <4>1. (IF reserved[b] < c.price THEN reserved[b] ELSE c.price) = c.price
        BY <3>1, <3>2
      <4> HIDE DEF c, b
      <4> QED
        BY <3>3, <4>1, ZenonT(30)
    <3>5. /\ consign'[x].buyer = NoUser /\ ~consign'[x].locked
          /\ \A y \in Tokens \ {x} : consign'[y] = consign[y]
      <4>1. consign'[x] = NoConsignment
        BY <2>2, <3>3, Zenon
      <4>2. \A y \in Tokens \ {x} : consign'[y] = consign[y]
        BY <2>2, <3>3, Zenon
      <4> QED
        BY <4>1, <4>2, NoListing, Zenon
    <3>6. TaskAhead(x)'
      BY <3>5, ZenonT(30) DEF TaskAhead
    <3>7. ASSUME NEW v \in Users
          PROVE  reserved'[v] - Debts(v)'[x] = reserved[v] - Debts(v)[x]
      <4>1. Debts(v)'[x] = 0 /\ Debts(v)[x] = IF v = b THEN c.price ELSE 0
        BY <2>2, <3>1, <3>5, DebtsTyped, DebtsTypedNext, TerritoryConstants, ZenonT(30)
      <4>2. reserved'[v] = IF v = b THEN reserved[v] - c.price ELSE reserved[v]
        BY <2>2, <3>4
      <4>3. reserved[v] \in Nat
        BY <2>2
      <4> QED
        BY <3>1, <4>1, <4>2, <4>3, SMTT(20)
    <3> HIDE DEF c, b
    <3> QED
      BY <2>1, <2>3, <3>3, <3>5, <3>6, <3>7, SaleStep, ZenonT(30)
  <2>5. CASE /\ orphaned' = IF consign[x].locked THEN orphaned \cup {x} ELSE orphaned
             /\ consign' = consign /\ reserved' = reserved
    <3>1. TaskAhead(x)'
      BY <2>5, ZenonT(30) DEF TaskAhead
    <3>2. \A u \in Users : Debts(u)' = Debts(u)
      BY <2>5 DEF Debts
    <3>3. consign'[x].buyer # NoUser => consign'[x].locked
      BY <2>5 DEF SaleInv, Sold
    <3> QED
      BY <2>1, <2>3, <2>5, <3>1, <3>2, <3>3, SaleStep, ZenonT(30)
  <2> QED
    BY <2>4, <2>5, Zenon DEF RunTask, money
\* frozen_task drops a listing and leaves its reserve.
<1>FreezeSale. ASSUME SaleInv, Inv', NEW x \in Tokens, FreezeOne(x)
               PROVE  SaleInv' /\ NoLeak
  <2> USE <1>FreezeSale
  <2>1. /\ phase = "freeze" /\ now' = now /\ agenda' = agenda /\ orphaned' = orphaned
        /\ reserved' = reserved
        /\ consign' = [consign EXCEPT ![x] = NoConsignment] \/ consign' = consign
    BY DEF FreezeOne, money, hist
  <2>2. Inv /\ consign \in [Tokens -> Sales] /\ Sold
    BY ZenonT(30) DEF SaleInv, Inv, TypeOK, Sales
  <2>3. /\ \A y \in Tokens \ {x} : consign'[y] = consign[y]
        /\ consign'[x] = NoConsignment \/ consign'[x] = consign[x]
    BY <2>1, <2>2, Zenon
  <2>4. \A t \in Tokens : /\ consign'[t].buyer # NoUser => consign'[t].locked
                          /\ consign'[t].locked => consign[t].locked
    BY <2>2, <2>3, SMTT(20) DEF Sold, NoConsignment
  <2>5. ASSUME NEW u \in Users PROVE Unclaimed(u)' >= Unclaimed(u) /\ Unclaimed(u)' >= 0
    <3>1. /\ Unclaimed(u) \in Int
          /\ Unclaimed(u)' = Unclaimed(u) + (reserved'[u] - Debts(u)'[x]) - (reserved[u] - Debts(u)[x])
      BY <2>2, <2>3, UnclaimedMoves, ZenonT(30)
    <3>2. Debts(u)[x] \in Nat /\ Debts(u)'[x] \in Nat /\ reserved[u] \in Nat /\ Unclaimed(u) >= 0
      BY <2>2, DebtsTyped, DebtsTypedNext, ZenonT(30) DEF Sold
    <3>3. Debts(u)'[x] = 0 \/ Debts(u)'[x] = Debts(u)[x]
      <4>1. CASE consign'[x] = NoConsignment
        BY <4>1, NoDebtNext, NoListing, Zenon
      <4>2. CASE consign'[x] = consign[x]
        <5>1. Debts(u)[x] = IF consign[x].buyer = u THEN consign[x].price ELSE 0
          BY <2>2, DebtsTyped, Zenon
        <5>2. Debts(u)'[x] = IF consign'[x].buyer = u THEN consign'[x].price ELSE 0
          BY DebtsTypedNext, Zenon
        <5> QED
          BY <4>2, <5>1, <5>2
      <4> QED
        BY <2>3, <4>1, <4>2, Zenon
    <3> QED
      BY <2>1, <3>1, <3>2, <3>3
  <2>6. Sold' /\ NoLeak
    BY <2>1, <2>4, <2>5, Zenon DEF Sold, NoLeak
  <2>7. \A t \in Tokens : TaskAhead(t)'
    BY <2>1, <2>4, TaskKept DEF SaleInv
  <2> QED
    BY <2>6, <2>7, Zenon DEF SaleInv
\* The tasks that become due are those the scheduler takes up.
<1>BlockSale. ASSUME SaleInv, Inv', NextBlock
              PROVE  SaleInv' /\ NoLeak
  <2> USE <1>BlockSale
  <2>1. /\ phase = "calls" /\ now' = now + 1 /\ phase' = "scheduler" /\ todo' = Due(now + 1)
        /\ consign' = consign /\ agenda' = agenda /\ reserved' = reserved /\ orphaned' = orphaned
    BY Zenon DEF NextBlock, InCalls, money, hist
  <2>2. Inv /\ now \in Nat /\ agenda \in [Tokens -> {NoTask} \cup [at : Nat, name : Names]]
    BY NowTyped, ZenonT(30) DEF SaleInv, Inv, TypeOK
  <2>3. ASSUME NEW t \in Tokens PROVE TaskAhead(t)'
    <3> SUFFICES ASSUME consign[t].locked, t \notin orphaned
                 PROVE  /\ agenda[t] # NoTask
                        /\ agenda[t].at > now + 1 \/ (agenda[t].at = now + 1 /\ t \in Due(now + 1))
      BY <2>1, ZenonT(30) DEF TaskAhead
    <3>1. agenda[t] # NoTask /\ agenda[t].at > now
      BY <2>1, ZenonT(30) DEF SaleInv, TaskAhead
    <3>2. agenda[t].at \in Nat
      BY <2>2, <3>1
    <3> QED
      BY <2>2, <3>1, <3>2 DEF Due
  <2>4. \A u \in Users : Unclaimed(u)' = Unclaimed(u) /\ Unclaimed(u) >= 0
    BY <2>1, ZenonT(30) DEF Unclaimed, Debts, SaleInv, Sold
  <2>5. \A u \in Users : Unclaimed(u) \in Int
    BY <2>2, DebtsTyped, Difference, Zenon DEF Unclaimed
  <2>6. Sold' /\ NoLeak
    BY <2>1, <2>4, <2>5 DEF Sold, NoLeak, SaleInv
  <2> QED
    BY <2>3, <2>6 DEF SaleInv
<1> SUFFICES ASSUME SaleInv, [Next]_vars PROVE SaleInv' /\ (NoLeak \/ UNCHANGED vars)
  OBVIOUS
<1>1. Inv'
  BY NextInv DEF SaleInv
<1>2. CASE UNCHANGED vars
  BY <1>1, <1>2, NoSaleKept, ZenonT(30) DEF vars, NoSale, block, hist, money
<1>3. CASE Lease \/ Order \/ Storage
  <2>1. CallFrame /\ NoSale
    BY <1>3, LeaseFrame, OrderFrame, StorageFrame, Zenon
  <2> QED
    BY <1>1, <2>1, NoSaleKept DEF CallFrame, block
<1>4. CASE Market
  BY <1>1, <1>4, <1>MarketSale
<1>5. CASE NextBlock
  BY <1>1, <1>5, <1>BlockSale
<1>6. CASE StartFreezing \/ StartExpiring \/ StartCalls
  BY <1>1, <1>6, NoSaleKept, ZenonT(30) DEF StartFreezing, StartExpiring, StartCalls, NoSale, money, hist
<1>7. ASSUME NEW t \in Tokens, RunTask(t) PROVE SaleInv' /\ NoLeak
  BY <1>1, <1>7, <1>TaskSale, Zenon
<1>8. ASSUME NEW t \in Tokens, FreezeOne(t) PROVE SaleInv' /\ NoLeak
  BY <1>1, <1>8, <1>FreezeSale, Zenon
<1>9. ASSUME NEW t \in Tokens, ExpireOne(t) PROVE SaleInv' /\ NoLeak
  BY <1>1, <1>9, NoSaleKept, Zenon DEF ExpireOne, NoSale, money, hist
<1> QED
  BY <1>2, <1>3, <1>4, <1>5, <1>6, <1>7, <1>8, <1>9, Zenon DEF Next, Hooks

\* The reserve of a buyer always covers the purchases that wait, and only the freezing
\* of a territory on sale leaves a reserve that no purchase claims.
THEOREM LeakSafe == Spec => LeakOnlyAtFreeze
<1>1. SaleInv /\ [Next]_vars => SaleInv' /\ [NoLeak]_vars
  BY NextSale
<1> QED
  BY <1>1, InitSale, PTL, ZenonT(30) DEF Spec, LeakOnlyAtFreeze

\* What is listed is on sale and empty, and a sold territory has its task ahead.
THEOREM ConsignmentSafe == Spec => []ConsignmentMatchesState
<1>1. LeaseInv /\ SaleInv => ConsignmentMatchesState
  <2> SUFFICES ASSUME LeaseInv, SaleInv PROVE ConsignmentMatchesState
    BY Zenon
  <2>1. ASSUME Undisturbed, NEW t \in Tokens
        PROVE  consign[t] # NoConsignment <=>
                 key[t] # NoLoc /\ terr[key[t]].state = "OnConsignment"
    <3>1. Inv /\ Listed(t)
      BY <2>1, Zenon DEF LeaseInv, Tracks
    <3>2. /\ Record[t].state # "Absent" <=> key[t] # NoLoc
          /\ key[t] # NoLoc => Record[t] = terr[key[t]]
      BY <2>1, <3>1, RecordOf, Zenon
    <3> QED
      BY <3>1, <3>2 DEF Listed
  <2>2. ASSUME Undisturbed, NEW l \in Locs, terr[l].state = "OnConsignment"
        PROVE  terr[l].rem = terr[l].total
    <3>1. Inv /\ Tracks /\ Exists(l)
      BY <2>2, Zenon DEF LeaseInv, Exists
    <3>2. terr[l].token \in Tokens /\ Record[terr[l].token] = terr[l]
      BY <2>2, <3>1, RecordAt, Zenon
    <3> QED
      BY <2>2, <3>1, <3>2, Zenon DEF Tracks, Listed
  <2>3. ASSUME InCalls, NEW t \in Tokens, consign[t].locked, t \notin orphaned
        PROVE  agenda[t] # NoTask /\ agenda[t].at > now
    BY <2>3 DEF SaleInv, TaskAhead, InCalls
  <2> QED
    BY <2>1, <2>2, <2>3, Zenon DEF ConsignmentMatchesState
<1> QED
  BY <1>1, InitLease, NextLease, InitSale, NextSale, PTL, ZenonT(30) DEF Spec
=============================================================================
