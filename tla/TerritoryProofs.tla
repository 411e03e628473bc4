--------------------------- MODULE TerritoryProofs ---------------------------
(***************************************************************************)
(* Proofs about Territory for every set of users, names and tokens, and    *)
(* every price, size and duration.                                         *)
(***************************************************************************)
EXTENDS Territory, TLAPS

\* Sizes, prices and remaining days are naturals.
LEMMA ProductNat ==
  ASSUME NEW a \in Nat, NEW b \in Nat
  PROVE  a * b \in Nat
  OBVIOUS

LEMMA QuotientNat ==
  ASSUME NEW a \in Nat, NEW b \in Nat \ {0}
  PROVE  a \div b \in Nat
  OBVIOUS

\* The block number is one of the blocks of the model: what a step that computes a
\* deadline takes from TypeOK.
LEMMA NowTyped ==
  ASSUME TypeOK
  PROVE  now \in Nat /\ now \in Blocks
<1>1. now \in 0 .. MaxBlock
  BY DEF TypeOK
<1> QED
  BY <1>1, TerritoryConstants DEF Blocks

\* Balances and the purchased space are naturals.
LEMMA MoneyTyped ==
  ASSUME TypeOK
  PROVE  /\ free \in [Users -> Nat] /\ reserved \in [Users -> Nat]
         /\ purchased \in Nat
  BY DEF TypeOK

\* A listing has a price, and a user or nobody as its buyer.
LEMMA SaleTyped ==
  ASSUME TypeOK, NEW t \in Tokens
  PROVE  /\ consign[t].price \in Nat
         /\ consign[t].buyer \in Users \cup {NoUser}
<1>1. consign \in [Tokens -> [user : Users \cup {NoUser}, price : Nat,
                             buyer : Users \cup {NoUser}, locked : BOOLEAN]]
  BY DEF TypeOK
<1> QED
  BY <1>1

\* The price of a direct purchase is a natural.
LEMMA DayPriceNat ==
  ASSUME NEW g \in Nat, NEW d \in Nat
  PROVE  DayPrice(g, d) \in Nat
<1>1. UnitPrice \div Month \in Nat
  BY QuotientNat, TerritoryConstants
<1>2. (UnitPrice \div Month) * g \in Nat
  BY <1>1, ProductNat
<1> QED
  BY <1>2, ProductNat DEF DayPrice

\* The price of a pay order is a natural.
LEMMA CalculatePriceNat ==
  ASSUME NEW g \in Nat, NEW d \in Nat
  PROVE  CalculatePrice(g, d) \in Nat
<1>1. g * d \in Nat
  BY ProductNat
<1> QED
  BY <1>1, ProductNat, TerritoryConstants DEF CalculatePrice

\* A lease that is not over has a natural number of days left.
LEMMA RemainDayNat ==
  ASSUME TypeOK, NEW d \in 0 .. Horizon, now <= d
  PROVE  RemainDay(d) \in Nat
<1>1. d - now + OneDay - 1 \in Nat
  BY TerritoryConstants DEF TypeOK
<1> QED
  BY <1>1, QuotientNat, TerritoryConstants DEF RemainDay
\* A deadline accepted by the bound is a block of the model.
LEMMA DeadlineTyped ==
  ASSUME NEW b \in Nat, NEW d \in Nat, b + OneDay * d <= Horizon
  PROVE  b + OneDay * d \in 0 .. Horizon /\ b + OneDay * d \in Blocks
<1>1. OneDay * d \in Nat
  BY ProductNat, TerritoryConstants
<1> DEFINE m == OneDay * d
<1> HIDE DEF m
<1>2. m \in Nat /\ b + m <= Horizon
  BY <1>1 DEF m
<1>3. b + m \in 0 .. Horizon /\ b + m \in Blocks
  BY <1>2, TerritoryConstants DEF Blocks
<1> QED
  BY <1>3 DEF m
-----------------------------------------------------------------------------
(* The inductive invariant.  TypeOK is not inductive alone: a rename reads   *)
(* TerritoryKey of the record's token (Keyed), and a task that runs must     *)
(* carry the name its buyer chose (TasksNamed).  LeasesOK collects what is   *)
(* to be shown of the lease storage, so that each helper of the pallet is    *)
(* treated once, for all the dispatchables that call it.                     *)

RecordOK(r) ==
  /\ r \in Territories
  /\ (r.state = "Absent") <=> (r.token = NoToken)
  /\ r.used + r.locked + r.rem <= r.total

Keyed      == \A l \in Locs : Exists(l) => key[terr[l].token] # NoLoc
TasksNamed == phase = "scheduler" => \A t \in todo : agenda[t] # NoTask

LeasesOK ==
  /\ terr \in [Locs -> Territories] /\ \A l \in Locs : RecordOK(terr[l])
  /\ key \in [Tokens -> Locs \cup {NoLoc}]
  /\ frozen \in [Blocks -> SUBSET Tokens] /\ frozenCounter \in [Blocks -> Nat]
  /\ expired \in [Blocks -> SUBSET Tokens]
  /\ displaced \subseteq Tokens /\ stranded \subseteq Tokens
  /\ misrenewed \subseteq Tokens /\ orphaned \subseteq Tokens
  /\ Keyed /\ KeyConsistent

Inv == TypeOK /\ LeasesOK /\ TasksNamed

LEMMA InitInv == Init => Inv
<1> SUFFICES ASSUME Init PROVE Inv
  OBVIOUS
<1> USE TerritoryConstants DEF Init
<1>1. Absent \in Territories /\ RecordOK(Absent)
  BY DEF Absent, RecordOK, Territories, States
<1>2. LeasesOK
  BY <1>1 DEF LeasesOK, Keyed, KeyConsistent, Exists, Absent
<1>3. TasksNamed
  BY DEF TasksNamed
<1>4. TypeOK
  BY <1>1 DEF TypeOK, RecordOK, NoConsignment, NoTask, NoOrder, Blocks
<1> QED
  BY <1>2, <1>3, <1>4 DEF Inv

USE DEF Inv, InCalls, block, leases, money, hist

\* Writing one record that is in order, where KeyConsistent survives.
LEMMA WriteRecord ==
  ASSUME LeasesOK, NEW l \in Locs, NEW r, RecordOK(r),
         terr' = [terr EXCEPT ![l] = r], key' = key,
         r.token = terr[l].token, displaced' = displaced
  PROVE  /\ terr' \in [Locs -> Territories] /\ \A m \in Locs : RecordOK(terr'[m])
         /\ Keyed' /\ KeyConsistent'
<1>1. terr' \in [Locs -> Territories] /\ \A m \in Locs : RecordOK(terr'[m])
  BY DEF LeasesOK, RecordOK
<1>2. \A m \in Locs : terr'[m].token = terr[m].token
  BY DEF LeasesOK
<1>3. \A m \in Locs : Exists(m)' <=> Exists(m)
  BY <1>1, <1>2 DEF LeasesOK, RecordOK, Exists
<1>4. Keyed'
  BY <1>2, <1>3 DEF LeasesOK, Keyed
<1>5. KeyConsistent'
  BY <1>2, <1>3 DEF LeasesOK, KeyConsistent
<1> QED
  BY <1>1, <1>4, <1>5

\* Queueing a token for freezing keeps the queue and its counter typed.
LEMMA EnqueueTyped ==
  ASSUME NEW q \in [Blocks -> SUBSET Tokens], NEW c \in [Blocks -> Nat],
         NEW b \in Blocks, NEW t \in Tokens, EnqueueFrozen(q, c, b, t)
  PROVE  frozen' \in [Blocks -> SUBSET Tokens] /\ frozenCounter' \in [Blocks -> Nat]
  BY DEF EnqueueFrozen

\* A paid fee keeps balances typed.
LEMMA PayTyped ==
  ASSUME TypeOK, NEW u \in Users, NEW p \in Nat, SendToSid(u, p)
  PROVE  free' \in [Users -> Nat] /\ reserved' \in [Users -> Nat] /\ sid' \in Nat
  BY DEF TypeOK, SendToSid

\* storage_territory, called where neither the place nor the token is taken.
LEMMA StorageTerritoryOK ==
  ASSUME Inv, NEW l \in Locs, NEW g \in Nat, NEW d \in Nat, NEW t \in Tokens,
         ~Exists(l), key[t] = NoLoc, StorageTerritory(t, l, g, d)
  PROVE  LeasesOK'
<1> DEFINE dl == now + OneDay * d
           r == [token |-> t, total |-> g, used |-> 0, locked |-> 0,
                 rem |-> g, deadline |-> dl, state |-> "Active"]
<1>1. dl <= Horizon /\ now \in Nat
  BY DEF StorageTerritory, TypeOK
<1>2. dl \in 0 .. Horizon /\ dl \in Blocks
  BY <1>1, DeadlineTyped
<1>3. terr' = [terr EXCEPT ![l] = r] /\ key' = [key EXCEPT ![t] = l]
  BY DEF StorageTerritory
<1>4. EnqueueFrozen(frozen, frozenCounter, dl, t)
  BY DEF StorageTerritory
<1> HIDE DEF dl
<1>5. RecordOK(r) /\ r.token = t /\ r.state = "Active"
  BY <1>2, TerritoryConstants DEF RecordOK, Territories, States
<1> HIDE DEF r
<1>6. terr' \in [Locs -> Territories] /\ \A m \in Locs : RecordOK(terr'[m])
  BY <1>3, <1>5 DEF LeasesOK, RecordOK
<1>7. frozen' \in [Blocks -> SUBSET Tokens] /\ frozenCounter' \in [Blocks -> Nat]
  BY <1>2, <1>4, EnqueueTyped DEF LeasesOK
<1>8. l # NoLoc
  BY TerritoryConstants DEF Locs, TerrNames
<1>9. Keyed'
  BY <1>3, <1>5, <1>8 DEF Keyed, Exists, LeasesOK, RecordOK
<1>10. KeyConsistent'
  <2> SUFFICES ASSUME displaced = {}
               PROVE  /\ \A m \in Locs : Exists(m)' => key'[terr'[m].token] = m
                      /\ \A x \in Tokens : key'[x] # NoLoc => terr'[key'[x]].token = x
    BY DEF KeyConsistent, StorageTerritory
  <2>1. \A m \in Locs : m # l => terr'[m] = terr[m]
    BY <1>3 DEF LeasesOK
  <2>2. terr'[l] = r /\ key'[t] = l
    BY <1>3 DEF LeasesOK
  <2>3. \A x \in Tokens : x # t => key'[x] = key[x] /\ (key[x] # NoLoc => key[x] # l)
    BY <1>3, TerritoryConstants DEF LeasesOK, KeyConsistent, Exists, RecordOK, Territories
  <2>4. ASSUME NEW m \in Locs, m # l, Exists(m) PROVE key'[terr[m].token] = m
    <3>1. terr[m].token \in Tokens
      BY <2>4 DEF LeasesOK, RecordOK, Exists, Territories
    <3>2. key[terr[m].token] = m /\ m # NoLoc
      BY <2>4, TerritoryConstants DEF LeasesOK, KeyConsistent, Locs, TerrNames
    <3> QED
      BY <2>3, <3>1, <3>2
  <2> QED
    BY <1>5, <2>1, <2>2, <2>3, <2>4 DEF LeasesOK, KeyConsistent, Exists
<1> QED
  BY <1>3, <1>6, <1>7, <1>9, <1>10, <1>8 DEF LeasesOK, StorageTerritory

\* What the lease storage needs of a step that rewrites one record in place.
LEMMA RewriteOK ==
  ASSUME Inv, NEW l \in Locs, NEW r, RecordOK(r), r.token = terr[l].token,
         terr' = [terr EXCEPT ![l] = r], key' = key, displaced' = displaced,
         frozen' \in [Blocks -> SUBSET Tokens], frozenCounter' \in [Blocks -> Nat],
         expired' \in [Blocks -> SUBSET Tokens], stranded' \subseteq Tokens,
         misrenewed' \subseteq Tokens, orphaned' \subseteq Tokens
  PROVE  LeasesOK'
<1>1. /\ terr' \in [Locs -> Territories] /\ \A m \in Locs : RecordOK(terr'[m])
      /\ Keyed' /\ KeyConsistent'
  BY WriteRecord, Zenon
<1> QED
  BY <1>1 DEF LeasesOK

\* update_territory_space.
LEMMA GrowRecord ==
  ASSUME NEW r, RecordOK(r), NEW a \in Nat, NEW b \in Nat,
         a + r.total = b + r.rem, b >= r.total
  PROVE  RecordOK([r EXCEPT !.rem = a, !.total = b])
<1> DEFINE x == [r EXCEPT !.rem = a, !.total = b]
<1>1. x \in Territories
  BY Zenon DEF RecordOK, Territories
<1>2. /\ x.rem = a /\ x.total = b /\ x.used = r.used /\ x.locked = r.locked
      /\ x.token = r.token /\ x.state = r.state
  BY DEF RecordOK, Territories
<1> HIDE DEF x
<1>3. RecordOK(x)
  BY <1>1, <1>2 DEF RecordOK, Territories
<1> QED
  BY <1>3 DEF x

LEMMA UpdateTerritorySpaceOK ==
  ASSUME Inv, NEW l \in Locs, NEW g \in Nat, UpdateTerritorySpace(l, g),
         UNCHANGED <<key, frozen, frozenCounter, expired, hist>>
  PROVE  LeasesOK'
<1> DEFINE a == terr[l].rem + g
           b == terr[l].total + g
           r == [terr[l] EXCEPT !.rem = a, !.total = b]
<1>1. terr' = [terr EXCEPT ![l] = r]
  BY ZenonT(30) DEF UpdateTerritorySpace, LeasesOK
<1>2. terr[l] \in Territories /\ RecordOK(terr[l])
  BY DEF LeasesOK
<1>3. a \in Nat /\ b \in Nat /\ a + terr[l].total = b + terr[l].rem /\ b >= terr[l].total
  BY <1>2 DEF Territories
<1> HIDE DEF a, b
<1>4. RecordOK(r)
  BY <1>2, <1>3, GrowRecord, Zenon
<1>5. r.token = terr[l].token
  BY <1>2 DEF Territories
<1> HIDE DEF r
<1> QED
  BY <1>1, <1>4, <1>5, RewriteOK, Zenon DEF LeasesOK

\* update_territory_days.
LEMMA UpdateTerritoryDaysOK ==
  ASSUME Inv, NEW l \in Locs, NEW d \in Nat, Exists(l), UpdateTerritoryDays(l, d)
  PROVE  LeasesOK'
<1> DEFINE t == terr[l]
           base == IF now > t.deadline THEN now ELSE t.deadline
           new == base + OneDay * d
           r == [t EXCEPT !.deadline = new,
                          !.state = IF new > now THEN "Active" ELSE @]
           q == [frozen EXCEPT ![t.deadline] = @ \ {t.token}]
           c == [frozenCounter EXCEPT ![t.deadline] = @ - 1]
<1>1. RecordOK(t) /\ t.state # "Absent" /\ t.token \in Tokens /\ t.deadline \in 0 .. Horizon
  BY DEF LeasesOK, RecordOK, Territories, Exists
<1>2. base \in Nat
  BY <1>1 DEF TypeOK
<1>3. new <= Horizon /\ frozenCounter[t.deadline] >= 1 /\ EnqueueFrozen(q, c, new, t.token)
  BY DEF UpdateTerritoryDays
<1> HIDE DEF base
<1>4. new \in 0 .. Horizon /\ new \in Blocks
  BY <1>2, <1>3, DeadlineTyped
<1> HIDE DEF new
<1>5. q \in [Blocks -> SUBSET Tokens] /\ c \in [Blocks -> Nat]
  <2>1. frozen \in [Blocks -> SUBSET Tokens] /\ frozenCounter \in [Blocks -> Nat]
    BY DEF LeasesOK
  <2>2. Horizon \in Nat /\ FrozenDays \in Nat
    BY TerritoryConstants
  <2>3. t.deadline \in Blocks
    BY <1>1, <2>2 DEF Blocks
  <2> QED
    BY <1>1, <1>3, <2>1, <2>3
<1>6. frozen' \in [Blocks -> SUBSET Tokens] /\ frozenCounter' \in [Blocks -> Nat]
  BY <1>1, <1>3, <1>4, <1>5, EnqueueTyped, Zenon
<1>7. RecordOK(r) /\ r.token = t.token
  BY <1>1, <1>4, Zenon DEF RecordOK, Territories, States
<1>8. terr' = [terr EXCEPT ![l] = r]
  BY Zenon DEF UpdateTerritoryDays, LeasesOK, new, base
<1>9. /\ expired' \in [Blocks -> SUBSET Tokens] /\ stranded' \subseteq Tokens
      /\ misrenewed' \subseteq Tokens /\ orphaned' \subseteq Tokens
      /\ key' = key /\ displaced' = displaced
  BY <1>1, Zenon DEF UpdateTerritoryDays, LeasesOK
<1> HIDE DEF t, r
<1> QED
  BY <1>6, <1>7, <1>8, <1>9, RewriteOK, Zenon DEF t

\* initial_territory.
LEMMA InitialTerritoryOK ==
  ASSUME Inv, NEW l \in Locs, NEW d \in Nat, Exists(l), InitialTerritory(l, d)
  PROVE  LeasesOK'
<1> DEFINE t == terr[l]
           new == now + OneDay * d
           r == [t EXCEPT !.state = "Active", !.rem = 0, !.locked = 0, !.used = 0,
                          !.deadline = new]
<1>1. RecordOK(t) /\ t.state # "Absent" /\ t.token \in Tokens
  BY DEF LeasesOK, RecordOK, Territories, Exists
<1>2. new <= Horizon /\ EnqueueFrozen(frozen, frozenCounter, new, t.token) /\ now \in Nat
  BY DEF InitialTerritory, TypeOK
<1>3. new \in 0 .. Horizon /\ new \in Blocks
  BY <1>2, DeadlineTyped
<1>4. terr' = [terr EXCEPT ![l] = r]
  BY DEF InitialTerritory, LeasesOK
<1> HIDE DEF new
<1>5. frozen' \in [Blocks -> SUBSET Tokens] /\ frozenCounter' \in [Blocks -> Nat]
  BY <1>1, <1>2, <1>3, EnqueueTyped DEF LeasesOK
<1>6. RecordOK(r) /\ r.token = t.token
  <2>1. r \in Territories
    BY <1>1, <1>3, Zenon DEF RecordOK, Territories, States
  <2>2. /\ r.rem = 0 /\ r.used = 0 /\ r.locked = 0 /\ r.total = t.total
        /\ r.token = t.token /\ r.state = "Active"
    BY <1>1 DEF RecordOK, Territories
  <2> HIDE DEF r
  <2> QED
    BY <1>1, <2>1, <2>2, TerritoryConstants DEF RecordOK, Territories
<1>7. /\ expired' \in [Blocks -> SUBSET Tokens] /\ stranded' \subseteq Tokens
      /\ misrenewed' \subseteq Tokens /\ orphaned' \subseteq Tokens
      /\ key' = key /\ displaced' = displaced
  BY <1>1 DEF InitialTerritory, LeasesOK
<1> HIDE DEF t, r
<1> QED
  BY <1>4, <1>5, <1>6, <1>7, RewriteOK, Zenon DEF t

\* A change of state alone keeps a record in order.
LEMMA StateRecord ==
  ASSUME NEW r, RecordOK(r), r.state # "Absent", NEW s \in States \ {"Absent"}
  PROVE  /\ RecordOK([r EXCEPT !.state = s])
         /\ [r EXCEPT !.state = s].token = r.token
<1> DEFINE x == [r EXCEPT !.state = s]
<1>1. x \in Territories
  BY DEF RecordOK, Territories
<1>2. /\ x.rem = r.rem /\ x.total = r.total /\ x.used = r.used /\ x.locked = r.locked
      /\ x.token = r.token /\ x.state = s
  BY DEF RecordOK, Territories
<1> HIDE DEF x
<1>3. RecordOK(x)
  BY <1>1, <1>2 DEF RecordOK
<1> QED
  BY <1>2, <1>3 DEF x

\* Removing a record, inserting it elsewhere, and pointing its key there.
LEMMA MoveTerritoryOK ==
  ASSUME Inv, NEW from \in Locs, NEW to \in Locs, NEW r, NEW token \in Tokens,
         NEW entry \in Locs, MoveTerritory(from, to, r, token, entry),
         RecordOK(r), r.state # "Absent", Exists(from), r.token = terr[from].token,
         displaced = {} => entry = to /\ r.token = token
  PROVE  LeasesOK'
<1> DEFINE removed == [terr EXCEPT ![from] = Absent]
<1>1. RecordOK(Absent)
  BY TerritoryConstants DEF Absent, RecordOK, Territories, States
<1>2. /\ terr' = [removed EXCEPT ![to] = r] /\ key' = [key EXCEPT ![token] = entry]
      /\ removed \in [Locs -> Territories] /\ \A m \in Locs : RecordOK(removed[m])
  BY <1>1 DEF MoveTerritory, LeasesOK, RecordOK
<1>a. Absent.state = "Absent"
  BY DEF Absent
<1>3. \A m \in Locs : m # to => terr'[m] = IF m = from THEN Absent ELSE terr[m]
  BY <1>2 DEF LeasesOK
<1>4. terr'[to] = r /\ key'[token] = entry /\ \A x \in Tokens : x # token => key'[x] = key[x]
  BY <1>2 DEF LeasesOK
<1>5. terr' \in [Locs -> Territories] /\ \A m \in Locs : RecordOK(terr'[m])
  BY <1>2, <1>3, <1>4, <1>1 DEF RecordOK, LeasesOK
<1>6. /\ key' \in [Tokens -> Locs \cup {NoLoc}]
      /\ displaced' \subseteq Tokens
  <2>1. key \in [Tokens -> Locs \cup {NoLoc}]
    BY DEF LeasesOK
  <2>2. displaced' \subseteq Tokens
    BY <1>2, TerritoryConstants DEF MoveTerritory, LeasesOK, RecordOK, Territories
  <2> QED
    BY <1>2, <2>1, <2>2
<1>7. entry # NoLoc /\ \A m \in Locs : m # NoLoc
  BY TerritoryConstants DEF Locs, TerrNames
<1>8. r.token \in Tokens /\ key[r.token] # NoLoc
  BY DEF RecordOK, Territories, LeasesOK, Keyed, Exists
<1>9. \A x \in Tokens : key[x] # NoLoc => key'[x] # NoLoc
  BY <1>4, <1>7
<1>10. Keyed'
  <2> SUFFICES ASSUME NEW m \in Locs, Exists(m)' PROVE key'[terr'[m].token] # NoLoc
    BY DEF Keyed
  <2>1. CASE m = to
    BY <1>4, <1>8, <1>9, <2>1
  <2>2. CASE m # to
    <3>1. terr'[m] = terr[m] /\ Exists(m)
      BY <1>3, <1>a, <2>2 DEF Exists
    <3>2. terr[m].token \in Tokens /\ key[terr[m].token] # NoLoc
      BY <3>1 DEF LeasesOK, RecordOK, Territories, Keyed, Exists
    <3> QED
      BY <3>1, <3>2, <1>9
  <2> QED
    BY <2>1, <2>2, Zenon
<1>11. KeyConsistent'
  <2> SUFFICES ASSUME displaced' = {}
               PROVE  /\ \A m \in Locs : Exists(m)' => key'[terr'[m].token] = m
                      /\ \A x \in Tokens : key'[x] # NoLoc => terr'[key'[x]].token = x
    BY DEF KeyConsistent
  <2>1. displaced = {} /\ removed[to].state = "Absent"
    BY DEF MoveTerritory
  <2>2. entry = to /\ r.token = token /\ key[token] = from
    BY <2>1 DEF LeasesOK, KeyConsistent
  <2>3. \A m \in Locs : m # from /\ m # to /\ Exists(m) =>
           terr[m].token \in Tokens /\ key[terr[m].token] = m /\ terr[m].token # token
    BY <2>1, <2>2 DEF LeasesOK, KeyConsistent, RecordOK, Territories, Exists
  <2>4. \A m \in Locs : Exists(m)' => key'[terr'[m].token] = m
    BY <1>3, <1>4, <1>a, <2>2, <2>3 DEF Exists
  <2>5. to # from => terr[to].token = NoToken
    BY <2>1 DEF LeasesOK, RecordOK
  <2>6. \A x \in Tokens : x # token /\ key[x] # NoLoc =>
           key[x] \in Locs /\ terr[key[x]].token = x /\ key[x] # from /\ key[x] # to
    BY <2>1, <2>2, <2>5, TerritoryConstants DEF LeasesOK, KeyConsistent
  <2>7. \A x \in Tokens : key'[x] # NoLoc => terr'[key'[x]].token = x
    BY <1>3, <1>4, <2>2, <2>6
  <2> QED
    BY <2>4, <2>7
<1> QED
  BY <1>5, <1>6, <1>10, <1>11 DEF LeasesOK, MoveTerritory
-----------------------------------------------------------------------------
(* What the dispatchables read is typed, and the rewrites they share. *)

\* An owner and a name make a location.
LEMMA LocTyped ==
  ASSUME NEW u \in Users, NEW n \in TerrNames
  PROVE  <<u, n>> \in Locs
  BY DEF Locs

\* A record that exists has sizes, a deadline and a token of the declared types.
LEMMA RecordTyped ==
  ASSUME Inv, NEW l \in Locs, Exists(l)
  PROVE  /\ terr[l] \in Territories /\ RecordOK(terr[l]) /\ terr[l].token \in Tokens
         /\ terr[l].total \in Nat /\ terr[l].deadline \in 0 .. Horizon
         /\ terr[l].state \in States \ {"Absent"}
  BY DEF LeasesOK, RecordOK, Territories, Exists

\* An order that is found open has typed fields.
LEMMA OrderTyped ==
  ASSUME Inv, NEW id \in 0 .. MaxBlock, NEW type \in {"Buy", "Expansion", "Renewal"},
         OrderOpen(id, type)
  PROVE  /\ payOrder[id].loc \in Locs /\ payOrder[id].gib \in Nat
         /\ payOrder[id].days \in Nat /\ payOrder[id].pay \in Nat
<1>1. payOrder[id] \in [type : {"Buy", "Expansion", "Renewal"}, loc : Locs,
                        gib : Nat, days : Nat, pay : Nat, expired : Nat]
  <2>1. payOrder[id].type = type /\ NoOrder.type = "None"
    BY DEF OrderOpen, NoOrder
  <2>2. payOrder[id] # NoOrder
    BY <2>1
  <2> QED
    BY <2>2, Zenon DEF TypeOK
<1> QED
  BY <1>1

\* The lease storage is in order when only the state of one record changes.
LEMMA SetStateOK ==
  ASSUME Inv, NEW l \in Locs, Exists(l), NEW s \in States \ {"Absent"},
         terr' = [terr EXCEPT ![l].state = s],
         UNCHANGED <<key, frozen, frozenCounter, hist>>,
         expired' \in [Blocks -> SUBSET Tokens]
  PROVE  LeasesOK'
<1> DEFINE r == [terr[l] EXCEPT !.state = s]
<1>1. terr' = [terr EXCEPT ![l] = r]
  BY DEF LeasesOK
<1>2. RecordOK(r) /\ r.token = terr[l].token
  BY RecordTyped, StateRecord DEF Exists
<1> HIDE DEF r
<1> QED
  BY <1>1, <1>2, RewriteOK, Zenon DEF LeasesOK

Sales == [user : Users \cup {NoUser}, price : Nat, buyer : Users \cup {NoUser},
          locked : BOOLEAN]

\* A record whose three parts are rebalanced within the same sum.
LEMMA ResizeInv ==
  ASSUME Inv, NEW l \in Locs, Exists(l), NEW used \in Nat, NEW locked \in Nat,
         NEW rem \in Nat,
         used + locked + rem = terr[l].used + terr[l].locked + terr[l].rem,
         NEW r, r = [terr[l] EXCEPT !.used = used, !.locked = locked, !.rem = rem],
         Resize(l, r)
  PROVE  Inv'
<1>1. terr[l] \in Territories /\ RecordOK(terr[l])
  BY RecordTyped
<1>2. r \in Territories
  BY <1>1, Zenon DEF Territories
<1>3. /\ r.used = used /\ r.locked = locked /\ r.rem = rem /\ r.total = terr[l].total
      /\ r.token = terr[l].token /\ r.state = terr[l].state
  BY <1>1 DEF Territories
<1>4. RecordOK(r)
  BY <1>1, <1>2, <1>3 DEF RecordOK
<1>5. LeasesOK'
  BY <1>3, <1>4, RewriteOK, Zenon DEF Resize, LeasesOK
<1>6. TypeOK'
  BY <1>5, Zenon DEF Resize, TypeOK, LeasesOK, RecordOK
<1> QED
  BY <1>5, <1>6 DEF Resize, TasksNamed

-----------------------------------------------------------------------------
\* Every step of the pallet keeps the invariant.
LEMMA NextInv == Inv /\ [Next]_vars => Inv'
<1>MintInv. ASSUME Inv, NEW u \in Users, NEW n \in Names, NEW g \in Gibs, NEW d \in DayChoices,
                   NEW t \in Tokens, MintTerritory(u, n, g, d, t)
            PROVE  Inv'
  <2> USE <1>MintInv
  <2>1. DayPrice(g, d) \in Nat
    BY DayPriceNat, TerritoryConstants
  <2>2. <<u, n>> \in Locs /\ g \in Nat /\ d \in Nat
    BY TerritoryConstants DEF Locs, TerrNames
  <2>3. LeasesOK'
    BY <2>2, StorageTerritoryOK DEF MintTerritory
  <2>4. free' \in [Users -> Nat] /\ reserved' \in [Users -> Nat] /\ sid' \in Nat
    BY <2>1, PayTyped DEF MintTerritory
  <2>5. purchased' \in Nat
    BY <2>2 DEF MintTerritory, AddPurchasedSpace, TypeOK
  <2>6. TypeOK'
    BY <2>3, <2>4, <2>5, Zenon DEF MintTerritory, TypeOK, LeasesOK, RecordOK
  <2> QED
    BY <2>3, <2>6 DEF TasksNamed, MintTerritory
<1>ExpandingInv. ASSUME Inv, NEW u \in Users, NEW n \in TerrNames, NEW g \in Gibs,
                        ExpandingTerritory(u, n, g)
                 PROVE  Inv'
  <2> USE <1>ExpandingInv
  <2> DEFINE l == <<u, n>>
  <2>1. l \in Locs /\ g \in Nat
    BY LocTyped, TerritoryConstants
  <2> USE DEF ExpandingTerritory
  <2>2. Exists(l) /\ now <= terr[l].deadline
    BY DEF Exists
  <2> HIDE DEF l
  <2>3. DayPrice(g, RemainDay(terr[l].deadline)) \in Nat
    BY <2>1, <2>2, RecordTyped, RemainDayNat, DayPriceNat, Zenon
  <2>4. LeasesOK'
    BY <2>1, UpdateTerritorySpaceOK DEF l
  <2>5. free' \in [Users -> Nat] /\ reserved' \in [Users -> Nat] /\ sid' \in Nat
    BY <2>3, PayTyped DEF l
  <2>6. purchased' \in Nat
    BY <2>1 DEF AddPurchasedSpace, TypeOK
  <2>7. TypeOK'
    BY <2>4, <2>5, <2>6, Zenon DEF TypeOK, LeasesOK, RecordOK
  <2> QED
    BY <2>4, <2>7, Zenon DEF TasksNamed
<1>RenewalInv. ASSUME Inv, NEW u \in Users, NEW n \in TerrNames, NEW d \in DayChoices,
                      RenewalTerritory(u, n, d)
               PROVE  Inv'
  <2> USE <1>RenewalInv
  <2> DEFINE l == <<u, n>>
  <2>1. l \in Locs /\ d \in Nat
    BY LocTyped, TerritoryConstants
  <2> USE DEF RenewalTerritory
  <2>2. Exists(l)
    BY DEF Exists
  <2>3. LeasesOK'
    BY <2>1, <2>2, UpdateTerritoryDaysOK
  <2> HIDE DEF l
  <2>4. DayPrice(terr[l].total, d) \in Nat
    BY <2>1, <2>2, RecordTyped, DayPriceNat, Zenon
  <2>5. free' \in [Users -> Nat] /\ reserved' \in [Users -> Nat] /\ sid' \in Nat
    BY <2>4, PayTyped DEF l
  <2>6. TypeOK'
    BY <2>3, <2>5, ZenonT(30) DEF TypeOK, LeasesOK, RecordOK
  <2> QED
    BY <2>3, <2>6, Zenon DEF TasksNamed
<1>ReactivateInv. ASSUME Inv, NEW u \in Users, NEW n \in TerrNames, NEW d \in DayChoices,
                         ReactivateTerritory(u, n, d)
                  PROVE  Inv'
  <2> USE <1>ReactivateInv
  <2> DEFINE l == <<u, n>>
  <2>1. l \in Locs /\ d \in Nat
    BY LocTyped, TerritoryConstants
  <2> USE DEF ReactivateTerritory
  <2>2. Exists(l)
    BY Zenon DEF Exists
  <2>3. LeasesOK'
    BY <2>1, <2>2, InitialTerritoryOK
  <2> HIDE DEF l
  <2>4. terr[l].total \in Nat /\ DayPrice(terr[l].total, d) \in Nat
    BY <2>1, <2>2, RecordTyped, DayPriceNat, Zenon
  <2>5. free' \in [Users -> Nat] /\ reserved' \in [Users -> Nat] /\ sid' \in Nat
    BY <2>4, PayTyped DEF l
  <2>6. purchased' \in Nat
    BY <2>4 DEF AddPurchasedSpace, TypeOK, l
  <2>7. TypeOK'
    BY <2>3, <2>5, <2>6, ZenonT(30) DEF TypeOK, LeasesOK, RecordOK
  <2> QED
    BY <2>3, <2>7, Zenon DEF TasksNamed
<1>GrantsInv. ASSUME Inv, NEW u \in Users, NEW n \in TerrNames, NEW v \in Users,
                     TerritoryGrants(u, n, v)
              PROVE  Inv'
  <2> USE <1>GrantsInv
  <2> DEFINE l == <<u, n>>
             t == terr[l]
  <2>1. l \in Locs /\ Exists(l)
    BY LocTyped, ZenonT(30) DEF TerritoryGrants, Exists
  <2>2. RecordOK(t) /\ t.token \in Tokens /\ t.state # "Absent"
    BY <2>1, RecordTyped, ZenonT(30) DEF Exists
  <2>3. <<v, t.token>> \in Locs
    BY <2>2, Zenon DEF Locs, TerrNames
  <2>4. MoveTerritory(l, <<v, t.token>>, t, t.token, <<v, t.token>>)
    BY DEF TerritoryGrants
  <2>5. LeasesOK'
    BY <2>1, <2>2, <2>3, <2>4, MoveTerritoryOK, ZenonT(30)
  <2>6. TypeOK'
    BY <2>5, ZenonT(30) DEF TerritoryGrants, TypeOK, LeasesOK, RecordOK
  <2> QED
    BY <2>5, <2>6, Zenon DEF TasksNamed, TerritoryGrants
<1>RenameInv. ASSUME Inv, NEW u \in Users, NEW n \in TerrNames, NEW m \in Names,
                     TerritoryRename(u, n, m)
              PROVE  Inv'
  <2> USE <1>RenameInv
  <2> DEFINE l == <<u, n>>
             t == terr[l]
             entry == <<key[t.token][1], m>>
  <2>1. l \in Locs /\ Exists(l) /\ <<u, m>> \in Locs
    BY LocTyped, ZenonT(30) DEF TerritoryRename, Exists, Locs, TerrNames
  <2>2. RecordOK(t) /\ t.token \in Tokens /\ t.state # "Absent"
    BY <2>1, RecordTyped, Zenon DEF Exists
  <2>3. key[t.token] \in Users \X TerrNames
    BY <2>1, <2>2 DEF LeasesOK, Keyed, Locs
  <2>4. entry \in Locs
    BY <2>3 DEF Locs, TerrNames
  <2>5. displaced = {} => entry = <<u, m>>
    BY <2>1 DEF LeasesOK, KeyConsistent
  <2>6. MoveTerritory(l, <<u, m>>, t, t.token, entry)
    BY DEF TerritoryRename
  <2> HIDE DEF entry
  <2>7. LeasesOK'
    BY <2>1, <2>2, <2>4, <2>5, <2>6, MoveTerritoryOK, ZenonT(30)
  <2>8. TypeOK'
    BY <2>7, Zenon DEF TerritoryRename, TypeOK, LeasesOK, RecordOK
  <2> QED
    BY <2>7, <2>8, ZenonT(30) DEF TasksNamed, TerritoryRename
<1>CreateOrderInv. ASSUME Inv, NEW type \in {"Buy", "Expansion", "Renewal"}, NEW l \in Locs,
                          NEW g \in Gibs, NEW d \in DayChoices, NEW life \in OrderLives,
                          CreateOrder(type, l, g, d, life)
                   PROVE  Inv'
  <2> USE <1>CreateOrderInv
  <2> DEFINE t == terr[l]
             pay == CASE type = "Buy"       -> CalculatePrice(g, d)
                      [] type = "Expansion" -> CalculatePrice(g, RemainDay(t.deadline))
                      [] type = "Renewal"   -> CalculatePrice(t.total, d)
             o == [type |-> type, loc |-> l, pay |-> pay, expired |-> now + life,
                   gib |-> IF type = "Renewal" THEN 0 ELSE g,
                   days |-> IF type = "Expansion" THEN 0 ELSE d]
  <2>1. g \in Nat /\ d \in Nat /\ life \in Nat /\ now \in Nat
    <3>1. now \in Nat
      BY NowTyped DEF Inv
    <3> QED
      BY <3>1, TerritoryConstants
  <2>2. pay \in Nat
    <3>1. CASE type = "Buy"
      BY <2>1, <3>1, CalculatePriceNat
    <3>2. CASE type = "Expansion"
      <4>1. Exists(l) /\ now <= t.deadline
        BY <3>2 DEF CreateOrder
      <4>2. RemainDay(t.deadline) \in Nat
        BY <4>1, RecordTyped, RemainDayNat
      <4> QED
        BY <2>1, <3>2, <4>2, CalculatePriceNat
    <3>3. CASE type = "Renewal"
      <4>1. Exists(l)
        BY <3>3 DEF CreateOrder
      <4>2. t.total \in Nat
        BY <4>1, RecordTyped
      <4> QED
        BY <2>1, <3>3, <4>2, CalculatePriceNat
    <3> QED
      BY <3>1, <3>2, <3>3
  <2>3. payOrder' = [payOrder EXCEPT ![now] = o]
    BY DEF CreateOrder
  <2> HIDE DEF pay
  <2>4. o \in [type : {"Buy", "Expansion", "Renewal"}, loc : Locs,
               gib : Nat, days : Nat, pay : Nat, expired : Nat]
    BY <2>1, <2>2
  <2> HIDE DEF o
  <2>5. TypeOK'
    BY <2>3, <2>4 DEF CreateOrder, TypeOK
  <2>6. LeasesOK'
    BY DEF CreateOrder, LeasesOK, Keyed, KeyConsistent, Exists
  <2> QED
    BY <2>5, <2>6 DEF TasksNamed, CreateOrder
<1>ExecBuyOrderInv. ASSUME Inv, NEW u \in Users, NEW id \in 0 .. MaxBlock, NEW t \in Tokens,
                           ExecBuyOrder(u, id, t)
                    PROVE  Inv'
  <2> USE <1>ExecBuyOrderInv
  <2> DEFINE o == payOrder[id]
  <2>1. o.loc \in Locs /\ o.gib \in Nat /\ o.days \in Nat /\ o.pay \in Nat
    BY OrderTyped, ZenonT(30) DEF ExecBuyOrder
  <2>2. LeasesOK'
    BY <2>1, StorageTerritoryOK, ZenonT(30) DEF ExecBuyOrder
  <2>3. free' \in [Users -> Nat] /\ reserved' \in [Users -> Nat] /\ sid' \in Nat
    BY <2>1, PayTyped DEF ExecBuyOrder
  <2>4. purchased' \in Nat
    BY <2>1 DEF ExecBuyOrder, AddPurchasedSpace, TypeOK
  <2>5. TypeOK'
    BY <2>2, <2>3, <2>4, ZenonT(30) DEF ExecBuyOrder, TypeOK, LeasesOK, RecordOK
  <2> QED
    BY <2>2, <2>5 DEF TasksNamed, ExecBuyOrder
<1>ExecExpansionOrderInv. ASSUME Inv, NEW u \in Users, NEW id \in 0 .. MaxBlock, ExecExpansionOrder(u, id)
                          PROVE  Inv'
  <2> USE <1>ExecExpansionOrderInv
  <2> DEFINE o == payOrder[id]
  <2>1. o.loc \in Locs /\ o.gib \in Nat /\ o.pay \in Nat
    BY OrderTyped, ZenonT(30) DEF ExecExpansionOrder
  <2>2. LeasesOK'
    BY <2>1, UpdateTerritorySpaceOK, ZenonT(30) DEF ExecExpansionOrder
  <2>3. free' \in [Users -> Nat] /\ reserved' \in [Users -> Nat] /\ sid' \in Nat
    BY <2>1, PayTyped, Zenon DEF ExecExpansionOrder
  <2>4. purchased' \in Nat
    <3>1. purchased' = purchased + o.gib
      BY Zenon DEF ExecExpansionOrder, AddPurchasedSpace
    <3>2. purchased \in Nat
      BY MoneyTyped DEF Inv
    <3> HIDE DEF o
    <3> QED
      BY <2>1, <3>1, <3>2
  <2>5. TypeOK'
    BY <2>2, <2>3, <2>4, ZenonT(30) DEF ExecExpansionOrder, TypeOK, LeasesOK, RecordOK
  <2> QED
    BY <2>2, <2>5, ZenonT(30) DEF TasksNamed, ExecExpansionOrder
<1>ExecRenewalOrderInv. ASSUME Inv, NEW u \in Users, NEW id \in 0 .. MaxBlock, ExecRenewalOrder(u, id)
                        PROVE  Inv'
  <2> USE <1>ExecRenewalOrderInv
  <2> DEFINE o == payOrder[id]
  <2>1. o.loc \in Locs /\ o.days \in Nat /\ o.pay \in Nat
    BY OrderTyped, ZenonT(30) DEF ExecRenewalOrder
  <2>2. LeasesOK'
    BY <2>1, UpdateTerritoryDaysOK, ZenonT(30) DEF ExecRenewalOrder
  <2>3. free' \in [Users -> Nat] /\ reserved' \in [Users -> Nat] /\ sid' \in Nat
    BY <2>1, PayTyped, ZenonT(30) DEF ExecRenewalOrder
  <2>4. TypeOK'
    BY <2>2, <2>3, Zenon DEF ExecRenewalOrder, TypeOK, LeasesOK, RecordOK
  <2> QED
    BY <2>2, <2>4, ZenonT(30) DEF TasksNamed, ExecRenewalOrder
<1>ConsignmentInv. ASSUME Inv, NEW u \in Users, NEW n \in TerrNames, NEW p \in Prices,
                          TerritoryConsignment(u, n, p)
                   PROVE  Inv'
  <2> USE <1>ConsignmentInv
  <2> DEFINE l == <<u, n>>
  <2>1. l \in Locs /\ Exists(l) /\ p \in Nat
    BY LocTyped, TerritoryConstants DEF TerritoryConsignment, Exists
  <2>2. LeasesOK'
    BY <2>1, SetStateOK, Zenon DEF TerritoryConsignment, LeasesOK, States
  <2>3. TypeOK'
    BY <2>1, <2>2, Zenon DEF TerritoryConsignment, TypeOK, LeasesOK, RecordOK
  <2> QED
    BY <2>2, <2>3 DEF TasksNamed, TerritoryConsignment
<1>BuyConsignmentInv. ASSUME Inv, NEW u \in Users, NEW t \in Tokens, NEW m \in Names,
                             BuyConsignment(u, t, m)
                      PROVE  Inv'
  <2> USE <1>BuyConsignmentInv
  <2>1. consign[t].price \in Nat /\ now + LockingBlock \in Nat
    <3>1. TypeOK
      BY DEF Inv
    <3>3. LockingBlock \in Nat
      BY TerritoryConstants
    <3>2. now \in Nat /\ consign[t].price \in Nat
      BY <3>1, NowTyped, SaleTyped
    <3> QED
      BY <3>2, <3>3
  <2>2. free' \in [Users -> Nat] /\ reserved' \in [Users -> Nat]
    BY <2>1 DEF BuyConsignment, TypeOK
  <2>3. consign' \in [Tokens -> Sales]
    <3>1. consign' = [consign EXCEPT ![t] = [@ EXCEPT !.buyer = u, !.locked = TRUE]]
      BY Zenon DEF BuyConsignment, TypeOK
    <3>a. consign[t] \in Sales
      BY DEF TypeOK, Sales
    <3>2. [consign[t] EXCEPT !.buyer = u, !.locked = TRUE] \in Sales
      BY <3>a, Zenon DEF Sales
    <3> QED
      BY <3>1, <3>2 DEF TypeOK, Sales
  <2>a. agenda' \in [Tokens -> {NoTask} \cup [at : Nat, name : Names]]
    BY <2>1 DEF BuyConsignment, TypeOK
  <2>4. TypeOK'
    BY <2>2, <2>3, <2>a, Zenon DEF BuyConsignment, TypeOK, Sales
  <2>5. LeasesOK'
    BY DEF BuyConsignment, LeasesOK, Keyed, KeyConsistent, Exists
  <2> QED
    BY <2>4, <2>5 DEF TasksNamed, BuyConsignment
<1>CancelConsignmentInv. ASSUME Inv, NEW u \in Users, NEW n \in TerrNames, CancelConsignment(u, n)
                         PROVE  Inv'
  <2> USE <1>CancelConsignmentInv
  <2> DEFINE l == <<u, n>>
  <2>1. l \in Locs /\ Exists(l)
    BY LocTyped DEF CancelConsignment, Exists
  <2>2. LeasesOK'
    BY <2>1, SetStateOK, Zenon DEF CancelConsignment, LeasesOK, States
  <2>3. TypeOK'
    BY <2>2, Zenon DEF CancelConsignment, TypeOK, LeasesOK, RecordOK, NoConsignment
  <2> QED
    BY <2>2, <2>3 DEF TasksNamed, CancelConsignment
<1>CancelPurchaseInv. ASSUME Inv, NEW u \in Users, NEW t \in Tokens, CancelPurchaseAction(u, t)
                      PROVE  Inv'
  <2> USE <1>CancelPurchaseInv
  <2>1. consign[t].price \in Nat
    BY DEF TypeOK
  <2>2. free' \in [Users -> Nat] /\ reserved' \in [Users -> Nat]
    BY <2>1 DEF CancelPurchaseAction, Unreserve, TypeOK
  <2>3. consign' \in [Tokens -> Sales]
    <3>1. consign' = [consign EXCEPT ![t] = [@ EXCEPT !.buyer = NoUser, !.locked = FALSE]]
      BY Zenon DEF CancelPurchaseAction, TypeOK
    <3>a. consign[t] \in Sales
      BY DEF TypeOK, Sales
    <3>2. [consign[t] EXCEPT !.buyer = NoUser, !.locked = FALSE] \in Sales
      BY <3>a, Zenon DEF Sales
    <3> QED
      BY <3>1, <3>2 DEF TypeOK, Sales
  <2>a. agenda' \in [Tokens -> {NoTask} \cup [at : Nat, name : Names]]
    BY DEF CancelPurchaseAction, TypeOK
  <2>4. TypeOK'
    BY <2>2, <2>3, <2>a, Zenon DEF CancelPurchaseAction, TypeOK, Sales
  <2>5. LeasesOK'
    BY DEF CancelPurchaseAction, LeasesOK, Keyed, KeyConsistent, Exists
  <2> QED
    BY <2>4, <2>5 DEF TasksNamed, CancelPurchaseAction
<1>TransferInv. ASSUME Inv, NEW u \in Users, NEW v \in Users, NEW p \in Prices, Transfer(u, v, p)
                PROVE  Inv'
  <2> USE <1>TransferInv
  <2>1. p \in Nat
    BY TerritoryConstants
  <2>2. free' \in [Users -> Nat]
    <3> DEFINE paid == [free EXCEPT ![u] = @ - p]
    <3>a. free \in [Users -> Nat] /\ p <= free[u]
      BY MoneyTyped DEF Inv, Transfer
    <3>1. paid \in [Users -> Nat]
      BY <2>1, <3>a
    <3>2. free' = [paid EXCEPT ![v] = @ + p]
      BY Zenon DEF Transfer, TypeOK
    <3> HIDE DEF paid
    <3> QED
      BY <2>1, <3>1, <3>2
  <2>3. TypeOK'
    BY <2>2, Zenon DEF Transfer, TypeOK
  <2>4. LeasesOK'
    BY DEF Transfer, LeasesOK, Keyed, KeyConsistent, Exists
  <2> QED
    BY <2>3, <2>4 DEF TasksNamed, Transfer
\* The hooks of a block: a task of the scheduler, and the two sweeps.
<1>RunTaskInv. ASSUME Inv, NEW t \in Tokens, RunTask(t)
               PROVE  Inv'
  <2> USE <1>RunTaskInv
  <2> USE DEF RunTask
  <2>1. agenda' \in [Tokens -> {NoTask} \cup [at : Nat, name : Names]]
    BY DEF TypeOK
  <2>2. TasksNamed'
    BY DEF TasksNamed, TypeOK
  <2>3. CASE ExecAllowed(t) /\ ExecConsignment(t)
    <3> DEFINE c == consign[t]
               l == key[t]
               to == <<c.buyer, agenda[t].name>>
               r == [terr[l] EXCEPT !.state = "Active"]
    <3>1. c.buyer \in Users /\ c.price \in Nat /\ free[c.buyer] >= c.price
      BY <2>3 DEF ExecAllowed, TypeOK
    <3>2. l \in Locs /\ Exists(l) /\ terr[l].state = "OnConsignment"
      BY <2>3, ZenonT(30) DEF ExecAllowed, LeasesOK, Exists
    <3>3. agenda[t] # NoTask
      BY ZenonT(30) DEF TasksNamed
    <3>4. to \in Locs
      BY <3>1, <3>3 DEF TypeOK, Locs, TerrNames
    <3>5. RecordOK(r) /\ r.token = terr[l].token /\ r.state = "Active"
      BY <3>2, RecordTyped, StateRecord, ZenonT(30) DEF States, Exists, Territories
    <3>6. displaced = {} => r.token = t
      BY <3>2, <3>5, TerritoryConstants DEF LeasesOK, KeyConsistent, Locs, TerrNames
    <3>7. MoveTerritory(l, to, r, t, to)
      BY <2>3 DEF ExecConsignment
    <3> HIDE DEF to, r
    <3>8. LeasesOK'
      BY <3>2, <3>4, <3>5, <3>6, <3>7, MoveTerritoryOK, ZenonT(30)
    <3>9. free' \in [Users -> Nat] /\ reserved' \in [Users -> Nat]
      <4> DEFINE back == IF reserved[c.buyer] < c.price THEN reserved[c.buyer] ELSE c.price
                 unres == [free EXCEPT ![c.buyer] = @ + back - c.price]
      <4>a. free \in [Users -> Nat] /\ reserved \in [Users -> Nat]
        BY MoneyTyped DEF Inv
      <4> HIDE DEF c, l
      <4>1. back \in Nat /\ back <= reserved[c.buyer]
        BY <3>1, <4>a
      <4>2. l[1] \in Users
        BY <3>2 DEF Locs
      <4>3. /\ reserved' = [reserved EXCEPT ![c.buyer] = @ - back]
            /\ free' = [unres EXCEPT ![l[1]] = @ + c.price]
        BY <2>3 DEF ExecConsignment, c, l
      <4> HIDE DEF back, RunTask, Inv
      <4>b. free[c.buyer] \in Nat /\ reserved[c.buyer] \in Nat
        BY <3>1, <4>a
      <4>c. free[c.buyer] + back - c.price \in Nat /\ reserved[c.buyer] - back \in Nat
        BY <3>1, <4>1, <4>b
      <4>4. reserved' \in [Users -> Nat] /\ unres \in [Users -> Nat]
        BY <4>a, <4>c, <4>3, Zenon
      <4> HIDE DEF unres
      <4>5. unres[l[1]] + c.price \in Nat
        BY <3>1, <4>2, <4>4
      <4> QED
        BY <4>2, <4>3, <4>4, <4>5
    <3>10. TypeOK'
      BY <2>1, <2>3, <3>8, <3>9, Zenon
      DEF ExecConsignment, TypeOK, LeasesOK, RecordOK, NoConsignment
    <3> QED
      BY <2>2, <3>8, <3>10
  <2>4. CASE ~ExecAllowed(t)
    <3>1. TypeOK'
      BY <2>1, <2>4 DEF TypeOK
    <3>2. LeasesOK'
      BY <2>4, Zenon DEF LeasesOK, Keyed, KeyConsistent, Exists
    <3> QED
      BY <2>2, <3>1, <3>2
  <2> QED
    BY <2>3, <2>4
<1>FreezeInv. ASSUME Inv, NEW t \in Tokens, FreezeOne(t)
              PROVE  Inv'
  <2> USE <1>FreezeInv
  <2> USE DEF FreezeOne
  <2> DEFINE l == key[t]
  <2>1. TasksNamed' /\ todo' \subseteq Tokens
    BY DEF TasksNamed, TypeOK
  <2>2. CASE Reached(t)
    <3>1. l \in Locs /\ Exists(l)
      BY <2>2 DEF Reached, LeasesOK
    <3>2. terr[l].token \in Tokens
      BY <3>1, RecordTyped
    <3>3. expired' \in [Blocks -> SUBSET Tokens]
      BY <2>2, <3>2 DEF LeasesOK
    <3>4. LeasesOK'
      BY <2>2, <3>1, <3>3, SetStateOK DEF States
    <3>a. consign' = consign \/ consign' = [consign EXCEPT ![t] = NoConsignment]
      BY <2>2
    <3>b. consign' \in [Tokens -> Sales]
      <4>1. NoConsignment \in Sales /\ consign \in [Tokens -> Sales]
        BY DEF TypeOK, Sales, NoConsignment
      <4> QED
        BY <3>a, <4>1
    <3>5. TypeOK'
      BY <2>1, <2>2, <3>4, <3>b DEF TypeOK, LeasesOK, RecordOK, Sales
    <3> QED
      BY <2>1, <3>4, <3>5
  <2>3. CASE ~Reached(t)
    <3>1. TypeOK'
      BY <2>1, <2>3 DEF TypeOK
    <3>2. LeasesOK'
      BY <2>3 DEF LeasesOK, Keyed, KeyConsistent, Exists
    <3> QED
      BY <2>1, <3>1, <3>2
  <2> QED
    BY <2>2, <2>3
<1>ExpireInv. ASSUME Inv, NEW t \in Tokens, ExpireOne(t)
              PROVE  Inv'
  <2> USE <1>ExpireInv
  <2> USE DEF ExpireOne
  <2> DEFINE l == key[t]
  <2>1. TasksNamed' /\ todo' \subseteq Tokens
    BY DEF TasksNamed, TypeOK
  <2>2. CASE Reached(t) /\ purchased >= terr[l].total
    <3>1. l \in Locs /\ Exists(l)
      BY <2>2 DEF Reached, LeasesOK
    <3>2. LeasesOK'
      BY <2>2, <3>1, SetStateOK, Zenon DEF States, LeasesOK
    <3>3. purchased' \in Nat
      BY <2>2, <3>1, RecordTyped DEF TypeOK
    <3>4. TypeOK'
      BY <2>1, <2>2, <3>2, <3>3 DEF TypeOK, LeasesOK, RecordOK
    <3> QED
      BY <2>1, <3>2, <3>4
  <2>3. CASE ~(Reached(t) /\ purchased >= terr[l].total)
    <3>1. TypeOK'
      BY <2>1, <2>3 DEF TypeOK
    <3>2. LeasesOK'
      BY <2>3 DEF LeasesOK, Keyed, KeyConsistent, Exists
    <3> QED
      BY <2>1, <3>1, <3>2
  <2> QED
    BY <2>2, <2>3
\* The steps between the loops of a block's hooks touch no lease.
<1>BlockInv. ASSUME Inv, NextBlock \/ StartFreezing \/ StartExpiring \/ StartCalls
             PROVE  Inv'
  <2> USE <1>BlockInv
  <2>1. LeasesOK'
    BY Zenon DEF NextBlock, StartFreezing, StartExpiring, StartCalls, LeasesOK, Keyed,
           KeyConsistent, Exists
  <2>2. CASE NextBlock
    <3>1. payOrder' \in [0 .. MaxBlock -> {NoOrder} \cup
            [type : {"Buy", "Expansion", "Renewal"}, loc : Locs,
             gib : Nat, days : Nat, pay : Nat, expired : Nat]]
      BY <2>2 DEF NextBlock, TypeOK
    <3>2. now' \in 0 .. MaxBlock /\ todo' \subseteq Tokens
      <4>1. todo' \subseteq Tokens
        BY <2>2 DEF NextBlock, Due
      <4>2. now \in Nat
        BY NowTyped DEF Inv
      <4>3. now < MaxBlock /\ now' = now + 1
        BY <2>2 DEF NextBlock
      <4> QED
        BY <4>1, <4>2, <4>3, TerritoryConstants
    <3>3. TypeOK'
      BY <2>2, <3>1, <3>2, ZenonT(30) DEF NextBlock, TypeOK
    <3>4. TasksNamed'
      BY <2>2, ZenonT(30) DEF NextBlock, TasksNamed, Due
    <3> QED
      BY <2>1, <3>3, <3>4
  <2>3. CASE StartFreezing \/ StartExpiring \/ StartCalls
    <3>1. now \in Blocks
      BY NowTyped DEF Inv
    <3> QED
      BY <2>1, <2>3, <3>1, Zenon
      DEF StartFreezing, StartExpiring, StartCalls, TypeOK, TasksNamed, LeasesOK
  <2> QED
    BY <2>2, <2>3
<1>StorageInv. ASSUME Inv, NEW l \in Locs, NEW s \in Sizes,
                      \/ AddTerritoryUsedSpace(l, s) \/ SubTerritoryUsedSpace(l, s)
                      \/ LockUserSpace(l, s) \/ UnlockUserSpace(l, s)
                      \/ UnlockAndUsedUserSpace(l, s)
               PROVE  Inv'
  <2> USE <1>StorageInv
  <2> DEFINE t == terr[l]
  <2>1. s \in Nat
    BY TerritoryConstants
  <2>2. Exists(l)
    BY DEF AddTerritoryUsedSpace, SubTerritoryUsedSpace, LockUserSpace,
           UnlockUserSpace, UnlockAndUsedUserSpace, Exists
  <2>3. t \in Territories /\ t.used \in Nat /\ t.locked \in Nat /\ t.rem \in Nat
    BY <2>2, RecordTyped, ZenonT(30) DEF Territories
  <2>4. CASE AddTerritoryUsedSpace(l, s)
    <3> DEFINE a == t.used + s
               b == t.rem - s
    <3>1. a \in Nat /\ b \in Nat /\ a + t.locked + b = t.used + t.locked + t.rem
      BY <2>1, <2>3, <2>4 DEF AddTerritoryUsedSpace
    <3>2. Resize(l, [t EXCEPT !.used = a, !.rem = b])
      BY <2>4 DEF AddTerritoryUsedSpace
    <3> HIDE DEF a, b
    <3>3. [t EXCEPT !.used = a, !.rem = b] = [t EXCEPT !.used = a, !.locked = t.locked, !.rem = b]
      BY <2>3, Zenon DEF Territories
    <3> HIDE DEF t
    <3> QED
      BY <2>2, <2>3, <3>1, <3>2, <3>3, ResizeInv, Zenon DEF t
  <2>5. CASE SubTerritoryUsedSpace(l, s)
    <3> DEFINE a == t.used - s
               b == t.rem + s
    <3>1. a \in Nat /\ b \in Nat /\ a + t.locked + b = t.used + t.locked + t.rem
      BY <2>1, <2>3, <2>5 DEF SubTerritoryUsedSpace
    <3>2. Resize(l, [t EXCEPT !.used = a, !.rem = b])
      BY <2>5 DEF SubTerritoryUsedSpace
    <3> HIDE DEF a, b
    <3>3. [t EXCEPT !.used = a, !.rem = b] = [t EXCEPT !.used = a, !.locked = t.locked, !.rem = b]
      BY <2>3, Zenon DEF Territories
    <3> HIDE DEF t
    <3> QED
      BY <2>2, <2>3, <3>1, <3>2, <3>3, ResizeInv, Zenon DEF t
  <2>6. CASE LockUserSpace(l, s)
    <3> DEFINE a == t.locked + s
               b == t.rem - s
    <3>1. a \in Nat /\ b \in Nat /\ t.used + a + b = t.used + t.locked + t.rem
      BY <2>1, <2>3, <2>6 DEF LockUserSpace
    <3>2. Resize(l, [t EXCEPT !.locked = a, !.rem = b])
      BY <2>6 DEF LockUserSpace
    <3> HIDE DEF a, b
    <3>3. [t EXCEPT !.locked = a, !.rem = b] = [t EXCEPT !.used = t.used, !.locked = a, !.rem = b]
      BY <2>3, Zenon DEF Territories
    <3> HIDE DEF t
    <3> QED
      BY <2>2, <2>3, <3>1, <3>2, <3>3, ResizeInv, Zenon DEF t
  <2>7. CASE UnlockUserSpace(l, s)
    <3> DEFINE a == t.locked - s
               b == t.rem + s
    <3>1. a \in Nat /\ b \in Nat /\ t.used + a + b = t.used + t.locked + t.rem
      BY <2>1, <2>3, <2>7 DEF UnlockUserSpace
    <3>2. Resize(l, [t EXCEPT !.locked = a, !.rem = b])
      BY <2>7 DEF UnlockUserSpace
    <3> HIDE DEF a, b
    <3>3. [t EXCEPT !.locked = a, !.rem = b] = [t EXCEPT !.used = t.used, !.locked = a, !.rem = b]
      BY <2>3, Zenon DEF Territories
    <3> HIDE DEF t
    <3> QED
      BY <2>2, <2>3, <3>1, <3>2, <3>3, ResizeInv, Zenon DEF t
  <2>8. CASE UnlockAndUsedUserSpace(l, s)
    <3> DEFINE a == t.used + s
               b == t.locked - s
    <3>1. a \in Nat /\ b \in Nat /\ a + b + t.rem = t.used + t.locked + t.rem
      BY <2>1, <2>3, <2>8 DEF UnlockAndUsedUserSpace
    <3>2. Resize(l, [t EXCEPT !.locked = b, !.used = a])
      BY <2>8 DEF UnlockAndUsedUserSpace
    <3> HIDE DEF a, b
    <3>3. [t EXCEPT !.locked = b, !.used = a] = [t EXCEPT !.used = a, !.locked = b, !.rem = t.rem]
      BY <2>3, ZenonT(30) DEF Territories
    <3> HIDE DEF t
    <3> QED
      BY <2>2, <2>3, <3>1, <3>2, <3>3, ResizeInv, Zenon DEF t
  <2> QED
    BY <2>4, <2>5, <2>6, <2>7, <2>8
<1>NetworkInv. ASSUME Inv, NEW s \in NetworkSpaces, ChangeNetworkSpace(s)
               PROVE  Inv'
  <2> USE <1>NetworkInv
  <2>1. LeasesOK'
    BY DEF ChangeNetworkSpace, LeasesOK, Keyed, KeyConsistent, Exists
  <2>2. TypeOK'
    BY DEF ChangeNetworkSpace, TypeOK
  <2> QED
    BY <2>1, <2>2 DEF ChangeNetworkSpace, TasksNamed
<1> SUFFICES ASSUME Inv, [Next]_vars PROVE Inv'
  OBVIOUS
<1>1. CASE Lease
  BY <1>1, <1>MintInv, <1>ExpandingInv, <1>RenewalInv, <1>ReactivateInv, <1>GrantsInv, <1>RenameInv
  DEF Lease
<1>2. CASE Order
  BY <1>2, <1>CreateOrderInv, <1>ExecBuyOrderInv, <1>ExecExpansionOrderInv, <1>ExecRenewalOrderInv
  DEF Order
<1>3. CASE Market
  BY <1>3, <1>ConsignmentInv, <1>CancelConsignmentInv, <1>BuyConsignmentInv, <1>CancelPurchaseInv,
     <1>TransferInv
  DEF Market
<1>4. CASE Storage
  BY <1>4, <1>StorageInv, <1>NetworkInv DEF Storage
<1>5. CASE Hooks
  BY <1>5, <1>BlockInv, <1>RunTaskInv, <1>FreezeInv, <1>ExpireInv DEF Hooks
<1>6. CASE UNCHANGED vars
  <2>1. TypeOK'
    BY <1>6, ZenonT(30) DEF vars, TypeOK
  <2>2. LeasesOK'
    BY <1>6 DEF vars, LeasesOK, Keyed, KeyConsistent, Exists
  <2> QED
    BY <1>6, <2>1, <2>2 DEF vars, TasksNamed
<1> QED
  BY <1>1, <1>2, <1>3, <1>4, <1>5, <1>6 DEF Next

\* The storage of the pallet keeps its types on every path.
THEOREM TypeCorrect == Spec => []TypeOK
<1>1. Inv => TypeOK
  OBVIOUS
<1> QED
  BY <1>1, InitInv, NextInv, PTL DEF Spec

\* The parts of a territory never exceed what was bought.
THEOREM SpaceSafe == Spec => []SpaceBounded
<1>1. Inv => SpaceBounded
  BY DEF LeasesOK, RecordOK, SpaceBounded
<1> QED
  BY <1>1, InitInv, NextInv, PTL DEF Spec

\* TerritoryKey and Territory stay inverse to each other until an insert
\* overwrites a record.
THEOREM KeysSafe == Spec => []KeyConsistent
<1>1. Inv => KeyConsistent
  BY DEF LeasesOK
<1> QED
  BY <1>1, InitInv, NextInv, PTL DEF Spec
=============================================================================
