----------------------------- MODULE LeaseProofs -----------------------------
(***************************************************************************)
(* What the calls of the storage handler do to its leases.  The invariant  *)
(* LeaseInv follows each token through its record, the two sweep queues    *)
(* and its listing; the lemmas about the calls show that they keep it.     *)
(***************************************************************************)
EXTENDS TerritoryProofs, SumTheorems

(* The inductive invariant.  It is stated per token, through the record its   *)
(* key names: a move to another owner or name then changes no more than a     *)
(* state.                                                                     *)
Record == [t \in Tokens |-> IF key[t] = NoLoc THEN Absent ELSE terr[key[t]]]

\* The sweep of block b still has token t before it.
FreezePending(t, b) ==
  b > now \/ (b = now /\ (phase = "scheduler" \/ (phase = "freeze" /\ t \in todo)))
ExpirePending(t, b) ==
  b > now \/ (b = now /\ (phase \in {"scheduler", "freeze"} \/ (phase = "expire" /\ t \in todo)))

Live == {"Active", "OnConsignment"}

\* Where the two queues hold a token, by the state and the deadline of its
\* record.  A reactivation leaves entries of the past behind.
Queued(t) ==
  LET r == Record[t]
  IN  /\ \A b \in Blocks : t \in frozen[b] =>
           r.state # "Absent" /\ (b = r.deadline \/ (b < now /\ b < r.deadline))
      /\ r.state # "Absent" => t \in frozen[r.deadline]
      /\ \A b \in Blocks : t \in expired[b] /\ ExpirePending(t, b) =>
           r.state = "Frozen" /\ b = r.deadline + FrozenDays
      /\ r.state \in Live /\ t \notin stranded => FreezePending(t, r.deadline)
      /\ r.state = "Frozen" /\ t \notin stranded =>
           /\ t \in expired[r.deadline + FrozenDays]
           /\ ExpirePending(t, r.deadline + FrozenDays)
      /\ r.state \in {"Frozen", "Expired"} => ~FreezePending(t, r.deadline)
      /\ r.state = "Expired" => r.deadline + FrozenDays <= now

\* What is listed for sale, by the record of the token.
Listed(t) ==
  /\ consign[t] # NoConsignment <=> Record[t].state = "OnConsignment"
  /\ consign[t] # NoConsignment => consign[t].user \in Users
  /\ Record[t].state = "OnConsignment" => Record[t].rem = Record[t].total

Counted == \A b \in Blocks : frozenCounter[b] = Cardinality(frozen[b])

Tracks ==
  /\ \A t \in Tokens : Queued(t)
  /\ \A t \in Tokens : Listed(t)
  /\ Counted
  /\ purchased = SumFunctionOnSet(Held, Locs)

Sweeping ==
  /\ phase = "freeze" => todo \subseteq frozen[now]
  /\ phase = "expire" => todo \subseteq expired[now]

LeaseInv == Inv /\ Sweeping /\ (Undisturbed => Tracks)
-----------------------------------------------------------------------------
(* Arithmetic. *)

LEMMA NotBelow == \A a, b \in Int : a >= b => ~(a < b)
  OBVIOUS

LEMMA BelowBoth == \A a, b, c \in Int : a < b /\ c >= b => a < b /\ a < c
  OBVIOUS

LEMMA AddBelow == \A a, n \in Nat, k \in Nat \ {0} : a + k <= n => a < n
  OBVIOUS

LEMMA AddAbove == \A a, n \in Nat, k \in Nat \ {0} : a + k <= n => ~(n <= a)
  OBVIOUS

LEMMA AddZero == \A a, b \in Nat : a + (b - 0) = a + b
  OBVIOUS

LEMMA AddBack == \A a \in Int, b \in Nat : (a + (0 - b)) + (b - 0) = a
  OBVIOUS

LEMMA BlocksInt == Blocks \subseteq Int /\ 0 .. Horizon \subseteq Nat
  BY TerritoryConstants DEF Blocks

LEMMA Later ==
  ASSUME NEW b \in Nat, NEW d \in Nat, b + OneDay * d <= Horizon
  PROVE  /\ b + OneDay * d \in 0 .. Horizon /\ b + OneDay * d \in Blocks
         /\ b + OneDay * d >= b
<1>1. OneDay * d \in Nat
  BY ProductNat, TerritoryConstants
<1>2. b + OneDay * d >= b
  BY <1>1
<1> QED
  BY <1>2, DeadlineTyped, Zenon

\* A sum over the leases of which one changes.
LEMMA HeldChange ==
  ASSUME IsFiniteSet(Locs), NEW f \in [Locs -> Nat], NEW g \in [Locs -> Nat],
         NEW l \in Locs, \A m \in Locs \ {l} : f[m] = g[m]
  PROVE  SumFunctionOnSet(g, Locs) = SumFunctionOnSet(f, Locs) + g[l] - f[l]
<1>1. \A m \in Locs : f[m] \in Int /\ g[m] \in Int
  OBVIOUS
<1> QED
  BY <1>1, SumChange, Zenon

-----------------------------------------------------------------------------
(* The records seen from the tokens. *)

\* While no key is disturbed, the key of a token leads to the record that
\* carries the token, or to nothing.
LEMMA RecordOf ==
  ASSUME Inv, Undisturbed, NEW t \in Tokens
  PROVE  /\ Record[t] \in Territories /\ RecordOK(Record[t])
         /\ Record[t].state # "Absent" <=> key[t] # NoLoc
         /\ key[t] # NoLoc => key[t] \in Locs /\ Record[t] = terr[key[t]] /\ Record[t].token = t
<1>1. key[t] \in Locs \cup {NoLoc} /\ LeasesOK
  BY DEF Inv, LeasesOK
<1>2. CASE key[t] = NoLoc
  <2>1. Record[t] = Absent
    BY <1>2 DEF Record
  <2>2. RecordOK(Absent) /\ Absent \in Territories /\ Absent.state = "Absent"
    BY TerritoryConstants DEF Absent, RecordOK, Territories, States
  <2> QED
    BY <1>2, <2>1, <2>2
<1>3. CASE key[t] # NoLoc
  <2>1. Record[t] = terr[key[t]] /\ key[t] \in Locs
    BY <1>1, <1>3 DEF Record
  <2>2. RecordOK(terr[key[t]]) /\ terr[key[t]].token = t
    BY <1>1, <1>3, <2>1 DEF LeasesOK, KeyConsistent, Undisturbed
  <2>3. terr[key[t]].state # "Absent" /\ terr[key[t]] \in Territories
    BY <2>2, TerritoryConstants DEF RecordOK
  <2> QED
    BY <1>3, <2>1, <2>2, <2>3
<1> QED
  BY <1>2, <1>3

\* Every territory on record is the one its token's key leads to.
LEMMA RecordAt ==
  ASSUME Inv, Undisturbed, NEW l \in Locs, Exists(l)
  PROVE  /\ terr[l].token \in Tokens /\ key[terr[l].token] = l
         /\ Record[terr[l].token] = terr[l]
<1>1. terr[l].token \in Tokens
  BY RecordTyped
<1>2. key[terr[l].token] = l /\ l # NoLoc
  BY TerritoryConstants DEF Inv, LeasesOK, KeyConsistent, Undisturbed, Locs, TerrNames
<1> QED
  BY <1>1, <1>2 DEF Record

\* A record rewritten in place.
LEMMA ViewRewrite ==
  ASSUME Inv, Undisturbed, NEW l \in Locs, Exists(l), NEW r,
         terr' = [terr EXCEPT ![l] = r], key' = key
  PROVE  Record' = [Record EXCEPT ![terr[l].token] = r]
<1> DEFINE x == terr[l].token
<1>1. x \in Tokens /\ key[x] = l /\ l # NoLoc
  BY RecordAt, TerritoryConstants, Zenon DEF Locs, TerrNames
<1>2. terr \in [Locs -> Territories] /\ key \in [Tokens -> Locs \cup {NoLoc}]
  BY DEF Inv, LeasesOK
<1>3. ASSUME NEW t \in Tokens, t # x, key[t] # NoLoc PROVE key[t] \in Locs /\ key[t] # l
  BY <1>3, RecordOf, RecordAt
<1> HIDE DEF x
<1>4. \A t \in Tokens : Record'[t] = IF t = x THEN r ELSE Record[t]
  BY <1>1, <1>2, <1>3, Zenon DEF Record
<1>5. Record = [t \in Tokens |-> Record[t]] /\ Record' = [t \in Tokens |-> Record'[t]]
  BY DEF Record
<1> QED
  BY <1>1, <1>4, <1>5 DEF x

\* A record written at a place that is free, for a token that has none.
LEMMA ViewMint ==
  ASSUME Inv, Undisturbed, NEW l \in Locs, ~Exists(l), NEW x \in Tokens, key[x] = NoLoc,
         NEW r, terr' = [terr EXCEPT ![l] = r], key' = [key EXCEPT ![x] = l]
  PROVE  Record' = [Record EXCEPT ![x] = r]
<1>1. l # NoLoc
  BY TerritoryConstants DEF Locs, TerrNames
<1>2. terr \in [Locs -> Territories] /\ key \in [Tokens -> Locs \cup {NoLoc}]
  BY DEF Inv, LeasesOK
<1>3. ASSUME NEW t \in Tokens, t # x, key[t] # NoLoc PROVE key[t] \in Locs /\ key[t] # l
  BY <1>3, RecordOf DEF Exists
<1>4. \A t \in Tokens : Record'[t] = IF t = x THEN r ELSE Record[t]
  BY <1>1, <1>2, <1>3 DEF Record
<1>5. Record = [t \in Tokens |-> Record[t]] /\ Record' = [t \in Tokens |-> Record'[t]]
  BY DEF Record
<1> QED
  BY <1>4, <1>5

\* A record that is moved, perhaps changed on the way.
LEMMA ViewMove ==
  ASSUME Inv, Undisturbed, Undisturbed', NEW from \in Locs, NEW to \in Locs, NEW r,
         Exists(from), MoveTerritory(from, to, r, terr[from].token, to)
  PROVE  /\ Record' = [Record EXCEPT ![terr[from].token] = r]
         /\ to = from \/ ~Exists(to)
<1> DEFINE x == terr[from].token
           removed == [terr EXCEPT ![from] = Absent]
<1>1. x \in Tokens /\ key[x] = from /\ to # NoLoc
  BY RecordAt, TerritoryConstants DEF Locs, TerrNames
<1>2. terr \in [Locs -> Territories] /\ key \in [Tokens -> Locs \cup {NoLoc}]
  BY DEF Inv, LeasesOK
<1>3. removed[to].state = "Absent"
  BY DEF MoveTerritory, Undisturbed
<1>4. to = from \/ ~Exists(to)
  BY <1>2, <1>3 DEF Exists
<1>5. ASSUME NEW t \in Tokens, t # x, key[t] # NoLoc
      PROVE  key[t] \in Locs /\ key[t] # from /\ key[t] # to
  BY <1>1, <1>4, <1>5, RecordOf, RecordAt DEF Exists
<1>6. terr' = [removed EXCEPT ![to] = r] /\ key' = [key EXCEPT ![x] = to]
  BY DEF MoveTerritory
<1>7. \A m \in Locs : terr'[m] = IF m = to THEN r ELSE IF m = from THEN Absent ELSE terr[m]
  BY <1>2, <1>6, Zenon
<1> HIDE DEF x, removed
<1>8. \A t \in Tokens : Record'[t] = IF t = x THEN r ELSE Record[t]
  BY <1>1, <1>2, <1>5, <1>6, <1>7, Zenon DEF Record
<1>9. Record = [t \in Tokens |-> Record[t]] /\ Record' = [t \in Tokens |-> Record'[t]]
  BY DEF Record
<1> QED
  BY <1>1, <1>4, <1>8, <1>9, Zenon DEF x
-----------------------------------------------------------------------------
(* The space that is counted. *)

Weight(r) == IF r.state \in {"Absent", "Expired"} THEN 0 ELSE r.total

\* The space each location holds against the purchased total is a natural
\* number, and there are finitely many locations.
LEMMA HeldTyped ==
  ASSUME Inv
  PROVE  /\ Held \in [Locs -> Nat] /\ IsFiniteSet(Locs)
         /\ \A l \in Locs : Held[l] = Weight(terr[l])
<1>1. IsFiniteSet(Locs)
  BY FiniteUnion, FiniteProduct, TerritoryConstants, ZenonT(30) DEF Locs, TerrNames
<1>2. terr \in [Locs -> Territories]
  BY DEF Inv, LeasesOK
<1>3. \A l \in Locs : terr[l].total \in Nat
  BY <1>2 DEF Territories
<1> QED
  BY <1>1, <1>3 DEF Held, Weight

\* The same after a step.
LEMMA HeldTypedNext ==
  ASSUME Inv'
  PROVE  Held' \in [Locs -> Nat] /\ \A l \in Locs : Held'[l] = Weight(terr'[l])
<1>1. terr' \in [Locs -> Territories]
  BY DEF Inv, LeasesOK
<1>2. \A l \in Locs : terr'[l].total \in Nat
  BY <1>1 DEF Territories
<1> QED
  BY <1>2 DEF Held, Weight

\* Rewriting one record changes the space held by the difference of the two
\* weights.
LEMMA HeldRewrite ==
  ASSUME Inv, Inv', NEW l \in Locs, NEW r, terr' = [terr EXCEPT ![l] = r]
  PROVE  SumFunctionOnSet(Held', Locs) =
           SumFunctionOnSet(Held, Locs) + Weight(r) - Weight(terr[l])
<1>1. /\ Held \in [Locs -> Nat] /\ IsFiniteSet(Locs)
      /\ \A m \in Locs : Held[m] = Weight(terr[m])
  BY HeldTyped
<1>2. Held' \in [Locs -> Nat] /\ \A m \in Locs : Held'[m] = Weight(terr'[m])
  BY HeldTypedNext, Zenon
<1>3. terr \in [Locs -> Territories]
  BY DEF Inv, LeasesOK
<1>4. \A m \in Locs \ {l} : Held[m] = Held'[m]
  BY <1>1, <1>2, <1>3
<1>5. Held'[l] = Weight(r) /\ Held[l] = Weight(terr[l])
  BY <1>1, <1>2, <1>3
<1>6. SumFunctionOnSet(Held', Locs) = SumFunctionOnSet(Held, Locs) + Held'[l] - Held[l]
  BY <1>1, <1>2, <1>4, HeldChange, Zenon
<1> QED
  BY <1>5, <1>6

\* Moving a record, whatever its new state, moves its space.
LEMMA HeldMove ==
  ASSUME Inv, Inv', NEW from \in Locs, NEW to \in Locs, NEW r,
         to = from \/ ~Exists(to), Weight(r) = Weight(terr[from]),
         terr' = [[terr EXCEPT ![from] = Absent] EXCEPT ![to] = r]
  PROVE  SumFunctionOnSet(Held', Locs) = SumFunctionOnSet(Held, Locs)
<1> DEFINE g == [Held EXCEPT ![from] = 0]
<1>1. /\ Held \in [Locs -> Nat] /\ IsFiniteSet(Locs)
      /\ \A m \in Locs : Held[m] = Weight(terr[m])
  BY HeldTyped
<1>2. Held' \in [Locs -> Nat] /\ \A m \in Locs : Held'[m] = Weight(terr'[m])
  BY HeldTypedNext, Zenon
<1>3. terr \in [Locs -> Territories]
  BY DEF Inv, LeasesOK
<1>4. Weight(Absent) = 0 /\ (~Exists(to) => Weight(terr[to]) = 0)
  BY DEF Weight, Absent, Exists
<1>5. \A m \in Locs : terr'[m] = IF m = to THEN r ELSE IF m = from THEN Absent ELSE terr[m]
  BY <1>3
<1>6. /\ g \in [Locs -> Nat] /\ g[from] = 0
      /\ \A m \in Locs \ {from} : Held[m] = g[m]
  BY <1>1
<1>7. g[to] = 0 /\ \A m \in Locs \ {to} : g[m] = Held'[m]
  <2>1. g[to] = 0
    BY <1>1, <1>4, <1>6
  <2>2. ASSUME NEW m \in Locs \ {to} PROVE g[m] = Held'[m]
    <3>1. CASE m = from
      <4>1. terr'[m] = Absent
        BY <1>5, <3>1, Zenon
      <4> QED
        BY <1>2, <1>4, <1>6, <3>1, <4>1, Zenon
    <3>2. CASE m # from
      <4>1. terr'[m] = terr[m]
        BY <1>5, <3>2, ZenonT(30)
      <4> QED
        BY <1>1, <1>2, <1>6, <3>2, <4>1, Zenon
    <3> QED
      BY <3>1, <3>2
  <2> QED
    BY <2>1, <2>2, Zenon
<1> HIDE DEF g
<1>8. SumFunctionOnSet(g, Locs) = SumFunctionOnSet(Held, Locs) + g[from] - Held[from]
  BY <1>1, <1>6, HeldChange, Zenon
<1>9. SumFunctionOnSet(Held', Locs) = SumFunctionOnSet(g, Locs) + Held'[to] - g[to]
  BY <1>1, <1>2, <1>6, <1>7, HeldChange, Zenon
<1>10. Held'[to] = Weight(r) /\ Held[from] = Weight(r)
  BY <1>1, <1>2, <1>5, ZenonT(30)
<1>11. SumFunctionOnSet(Held, Locs) \in Int /\ Held[from] \in Nat
  BY <1>1, SumInt
<1> DEFINE w == Weight(r)
<1>12. SumFunctionOnSet(g, Locs) = SumFunctionOnSet(Held, Locs) + (0 - w)
  BY <1>6, <1>8, <1>10, Zenon
<1>13. SumFunctionOnSet(Held', Locs) = SumFunctionOnSet(g, Locs) + (w - 0)
  BY <1>7, <1>9, <1>10, Zenon
<1>14. (SumFunctionOnSet(Held, Locs) + (0 - w)) + (w - 0) = SumFunctionOnSet(Held, Locs)
  BY <1>10, <1>11, AddBack, Zenon
<1> QED
  BY <1>12, <1>13, <1>14, Zenon
-----------------------------------------------------------------------------
(* The queues. *)

\* A token of which a step changes neither record nor queue, between sweeps.
LEMMA StillQueued ==
  ASSUME NEW t, Queued(t), UNCHANGED <<now, phase>>,
         phase = "scheduler" \/ (t \in todo' <=> t \in todo),
         \A b \in Blocks : /\ t \in frozen'[b] <=> t \in frozen[b]
                           /\ t \in expired'[b] <=> t \in expired[b],
         t \in stranded' <=> t \in stranded,
         Record'[t].deadline \in 0 .. Horizon,
         Record'[t].deadline = Record[t].deadline,
         \/ Record'[t].state = Record[t].state
         \/ Record'[t].state \in Live /\ Record[t].state \in Live
  PROVE  Queued(t)'
<1> DEFINE d == Record[t].deadline
<1>1. d \in Blocks /\ d + FrozenDays \in Blocks
  BY TerritoryConstants DEF Blocks
<1>2. \A b : /\ FreezePending(t, b)' <=> FreezePending(t, b)
             /\ ExpirePending(t, b)' <=> ExpirePending(t, b)
  BY DEF FreezePending, ExpirePending
<1> QED
  BY <1>1, <1>2, Zenon DEF Queued, Live

\* The queues and their counter when a token that is in neither gets a deadline.
LEMMA CountEnqueue ==
  ASSUME NEW q \in [Blocks -> SUBSET Tokens], NEW c \in [Blocks -> Nat],
         \A b \in Blocks : c[b] = Cardinality(q[b]),
         NEW d \in Blocks, NEW x \in Tokens, x \notin q[d], EnqueueFrozen(q, c, d, x)
  PROVE  Counted'
<1>1. /\ frozen' = [q EXCEPT ![d] = @ \cup {x}]
      /\ frozenCounter' = [c EXCEPT ![d] = @ + 1]
  BY DEF EnqueueFrozen
<1>2. IsFiniteSet(q[d])
  BY FiniteSubset, TerritoryConstants
<1>3. Cardinality(q[d] \cup {x}) = Cardinality(q[d]) + 1
  BY <1>2, CardinalityAdd, ZenonT(30)
<1>4. \A b \in Blocks : frozenCounter'[b] = Cardinality(frozen'[b])
  BY <1>1, <1>3, Zenon
<1> QED
  BY <1>4 DEF Counted

\* Taking a token off its block's queue and decrementing the counter keeps
\* the counter the size of the queue.
LEMMA CountDequeue ==
  ASSUME Inv, Counted, NEW d \in Blocks, NEW x \in Tokens, x \in frozen[d]
  PROVE  LET q == [frozen EXCEPT ![d] = @ \ {x}]
             c == [frozenCounter EXCEPT ![d] = @ - 1]
         IN  /\ q \in [Blocks -> SUBSET Tokens] /\ c \in [Blocks -> Nat]
             /\ \A b \in Blocks : c[b] = Cardinality(q[b])
             /\ x \notin q[d]
<1>1. frozen \in [Blocks -> SUBSET Tokens] /\ frozenCounter \in [Blocks -> Nat]
  BY DEF Inv, LeasesOK
<1>2. IsFiniteSet(frozen[d])
  BY <1>1, FiniteSubset, TerritoryConstants, Zenon
<1>3. Cardinality(frozen[d] \ {x}) = Cardinality(frozen[d]) - 1
  BY <1>2, CardinalityRemove, Zenon
<1>4. Cardinality(frozen[d] \ {x}) \in Nat
  BY <1>2, FiniteSubset, CardinalityNat, Zenon
<1> QED
  BY <1>1, <1>3, <1>4 DEF Counted
\* The view is a function of the tokens.
LEMMA ViewAt ==
  ASSUME NEW x \in Tokens, NEW r, Record' = [Record EXCEPT ![x] = r]
  PROVE  Record'[x] = r /\ \A y \in Tokens \ {x} : Record'[y] = Record[y]
<1>1. Record = [t \in Tokens |-> Record[t]]
  BY DEF Record
<1> QED
  BY <1>1

\* A step between sweeps that disturbs the queues and the record of one token.
LEMMA OneQueued ==
  ASSUME Inv, Undisturbed, \A t \in Tokens : Queued(t),
         UNCHANGED <<now, phase>>,
         NEW x \in Tokens, NEW r, Record' = [Record EXCEPT ![x] = r],
         phase = "scheduler" \/ \A y \in Tokens \ {x} : y \in todo' <=> y \in todo,
         \A y \in Tokens \ {x} :
           /\ \A b \in Blocks : /\ y \in frozen'[b] <=> y \in frozen[b]
                                /\ y \in expired'[b] <=> y \in expired[b]
           /\ y \in stranded' <=> y \in stranded,
         Queued(x)'
  PROVE  \A t \in Tokens : Queued(t)'
<1> SUFFICES ASSUME NEW y \in Tokens, y # x PROVE Queued(y)'
  OBVIOUS
<1>1. Record'[y] = Record[y]
  BY ViewAt, Zenon
<1>2. Record[y].deadline \in 0 .. Horizon
  BY RecordOf, Zenon DEF Territories
<1> QED
  BY <1>1, <1>2, StillQueued, Zenon

\* A step that disturbs the record and the listing of one token.
LEMMA OneListed ==
  ASSUME \A t \in Tokens : Listed(t), NEW x \in Tokens, NEW r,
         Record' = [Record EXCEPT ![x] = r],
         \A y \in Tokens \ {x} : consign'[y] = consign[y], Listed(x)'
  PROVE  \A t \in Tokens : Listed(t)'
<1> SUFFICES ASSUME NEW y \in Tokens, y # x PROVE Listed(y)'
  BY Zenon
<1>1. Record'[y] = Record[y] /\ consign'[y] = consign[y]
  BY ViewAt, Zenon
<1> QED
  BY <1>1 DEF Listed

\* A record rewritten in place, with the same deadline and the queues as they are.
LEMMA RewriteTracks ==
  ASSUME Inv, Inv', Undisturbed, Tracks, NEW l \in Locs, Exists(l), NEW r,
         NEW x \in Tokens, x = terr[l].token, terr' = [terr EXCEPT ![l] = r],
         UNCHANGED <<key, frozen, frozenCounter, expired, stranded, now, phase, todo>>,
         r.deadline = terr[l].deadline,
         r.state = terr[l].state \/ (r.state \in Live /\ terr[l].state \in Live),
         \A y \in Tokens \ {x} : consign'[y] = consign[y], Listed(x)',
         purchased' = purchased + Weight(r) - Weight(terr[l])
  PROVE  Tracks'
<1>1. Record[x] = terr[l] /\ Record' = [Record EXCEPT ![x] = r]
  BY RecordAt, ViewRewrite, Zenon
<1>2. Record'[x] = r
  BY <1>1, ViewAt, ZenonT(30)
<1>3. Record[x].deadline \in 0 .. Horizon
  BY <1>1, RecordOf, Zenon DEF Territories
<1>4. Queued(x)'
  BY <1>1, <1>2, <1>3, StillQueued, Zenon DEF Tracks
<1>5. \A t \in Tokens : Queued(t)'
  BY <1>1, <1>4, OneQueued, Zenon DEF Tracks
<1>6. \A t \in Tokens : Listed(t)'
  BY <1>1, OneListed, ZenonT(30) DEF Tracks
<1>7. Counted'
  BY DEF Tracks, Counted
<1>8. purchased' = SumFunctionOnSet(Held', Locs)
  BY HeldRewrite, Zenon DEF Tracks
<1> QED
  BY <1>5, <1>6, <1>7, <1>8, Zenon DEF Tracks

\* storage_territory with the purchase of its space.
LEMMA StorageTracks ==
  ASSUME Inv, Inv', Undisturbed, Tracks, InCalls, UNCHANGED <<block, consign>>,
         NEW l \in Locs, NEW g \in Nat, NEW d \in Nat, NEW x \in Tokens,
         ~Exists(l), key[x] = NoLoc, StorageTerritory(x, l, g, d), AddPurchasedSpace(g)
  PROVE  Tracks'
<1> DEFINE dl == now + OneDay * d
           r == [token |-> x, total |-> g, used |-> 0, locked |-> 0,
                 rem |-> g, deadline |-> dl, state |-> "Active"]
<1>1. now \in Nat /\ dl <= Horizon /\ OneDay * d \in Nat
  BY NowTyped, ProductNat, TerritoryConstants, Zenon DEF Inv, StorageTerritory
<1>2. dl \in 0 .. Horizon /\ dl \in Blocks /\ dl >= now
  BY <1>1, Later, Zenon
<1>3. /\ terr' = [terr EXCEPT ![l] = r] /\ key' = [key EXCEPT ![x] = l]
      /\ EnqueueFrozen(frozen, frozenCounter, dl, x) /\ expired' = expired
      /\ stranded' = IF dl > now THEN stranded ELSE stranded \cup {x}
  BY DEF StorageTerritory
<1> HIDE DEF dl
<1>4. r.deadline = dl /\ r.state = "Active" /\ Weight(r) = g
  BY Zenon DEF Weight
<1> HIDE DEF r
<1>5. Record' = [Record EXCEPT ![x] = r] /\ Record'[x] = r /\ Record[x].state = "Absent"
  <2>1. Record' = [Record EXCEPT ![x] = r]
    BY <1>3, ViewMint, Zenon
  <2>2. Record'[x] = r
    BY <2>1, ViewAt, ZenonT(30)
  <2> QED
    BY <2>1, <2>2, RecordOf, Zenon
<1>6. frozen' = [frozen EXCEPT ![dl] = @ \cup {x}] /\ frozen \in [Blocks -> SUBSET Tokens]
  BY <1>3, Zenon DEF EnqueueFrozen, Inv, LeasesOK
<1>7. /\ \A b \in Blocks : x \notin frozen[b]
      /\ \A b \in Blocks : x \in expired[b] => ~ExpirePending(x, b)
  BY <1>5, ZenonT(30) DEF Tracks, Queued
<1>8. \A b \in Blocks : x \in frozen'[b] <=> b = dl
  BY <1>2, <1>6, <1>7, ZenonT(30)
<1>9. Queued(x)'
  BY <1>2, <1>3, <1>4, <1>5, <1>7, <1>8, ZenonT(30)
  DEF Queued, FreezePending, ExpirePending, Live, block, InCalls
<1>10. \A t \in Tokens : Queued(t)'
  BY <1>2, <1>3, <1>5, <1>6, <1>9, OneQueued, ZenonT(30) DEF Tracks, block
<1>11. Listed(x)'
  BY <1>4, <1>5, Zenon DEF Tracks, Listed
<1>12. \A t \in Tokens : Listed(t)'
  BY <1>5, <1>11, OneListed, Zenon DEF Tracks
<1>13. Counted'
  BY <1>2, <1>3, <1>6, <1>7, CountEnqueue, ZenonT(30) DEF Tracks, Counted, Inv, LeasesOK
<1>14. Weight(terr[l]) = 0 /\ purchased' = purchased + g
  BY DEF Weight, Exists, AddPurchasedSpace
<1>15. purchased' = SumFunctionOnSet(Held', Locs)
  <2>1. purchased \in Nat /\ purchased = SumFunctionOnSet(Held, Locs)
    BY MoneyTyped DEF Inv, Tracks
  <2>2. SumFunctionOnSet(Held', Locs) =
          SumFunctionOnSet(Held, Locs) + Weight(r) - Weight(terr[l])
    BY <1>3, HeldRewrite, ZenonT(30)
  <2> QED
    BY <1>4, <1>14, <2>1, <2>2
<1> QED
  BY <1>10, <1>12, <1>13, <1>15, Zenon DEF Tracks
\* update_territory_days on a lease that runs or is frozen: it leaves the place in
\* the queues that its deadline gave it, and takes the new one.
LEMMA DaysTracks ==
  ASSUME Inv, Inv', Undisturbed, Undisturbed', Tracks, InCalls,
         UNCHANGED <<block, consign, purchased>>,
         NEW l \in Locs, NEW d \in Nat, Exists(l), UpdateTerritoryDays(l, d)
  PROVE  Tracks'
<1> DEFINE t == terr[l]
           D == t.deadline
           base == IF now > D THEN now ELSE D
           new == base + OneDay * d
           r == [t EXCEPT !.deadline = new, !.state = IF new > now THEN "Active" ELSE @]
           q == [frozen EXCEPT ![D] = @ \ {t.token}]
           c == [frozenCounter EXCEPT ![D] = @ - 1]
<1>1. PICK x \in Tokens : x = t.token
  BY RecordAt, Zenon
<1>2. Record[x] = t /\ t \in Territories /\ D \in 0 .. Horizon
  BY <1>1, RecordAt, RecordOf, Zenon DEF Territories
<1>3. now \in Nat /\ OneDay * d \in Nat /\ base \in Nat /\ base >= now /\ base >= D
  BY <1>2, NowTyped, ProductNat, TerritoryConstants DEF Inv
<1>4. /\ new <= Horizon /\ EnqueueFrozen(q, c, new, x)
      /\ expired' = [expired EXCEPT ![D + FrozenDays] = @ \ {x}]
      /\ stranded' = IF new > now THEN stranded \ {x} ELSE stranded \cup {x}
      /\ t.state \in {"Active", "Frozen"} /\ key' = key
  BY <1>1, Zenon DEF UpdateTerritoryDays, Undisturbed
<1>5. terr' = [terr EXCEPT ![l] = r]
  BY ZenonT(30) DEF UpdateTerritoryDays, Inv, LeasesOK
<1> HIDE DEF base
<1>6. new \in 0 .. Horizon /\ new \in Blocks /\ new >= now /\ new >= D
  BY <1>2, <1>3, <1>4, DeadlineTyped
<1> HIDE DEF new
<1>7. r.deadline = new /\ r.state = (IF new > now THEN "Active" ELSE t.state) /\ r.total = t.total
  BY <1>2 DEF Territories
<1>8. Weight(r) = Weight(t)
  BY <1>4, <1>7 DEF Weight
<1> HIDE DEF r
<1>9. Record' = [Record EXCEPT ![x] = r]
  BY <1>1, <1>5, <1>4, ViewRewrite, ZenonT(30)
<1>10. Record'[x] = r
  BY <1>9, ViewAt, ZenonT(30)
<1> HIDE DEF t
<1>11. D \in Blocks /\ D + FrozenDays \in Blocks /\ D + FrozenDays # D
  BY <1>2, TerritoryConstants DEF Blocks
<1>12. /\ x \in frozen[D]
       /\ \A b \in Blocks : x \in frozen[b] => b = D \/ (b < now /\ b < D)
       /\ \A b \in Blocks : x \in expired[b] /\ b > now => b = D + FrozenDays
  BY <1>2, <1>4, Zenon DEF Tracks, Queued, ExpirePending
<1> HIDE DEF D
<1>13. /\ q \in [Blocks -> SUBSET Tokens] /\ c \in [Blocks -> Nat]
       /\ \A b \in Blocks : c[b] = Cardinality(q[b])
       /\ x \notin q[D]
  BY <1>1, <1>11, <1>12, CountDequeue, ZenonT(30) DEF Tracks, t
<1>14. frozen' = [q EXCEPT ![new] = @ \cup {x}]
  BY <1>4, Zenon DEF EnqueueFrozen
<1>15. /\ frozen \in [Blocks -> SUBSET Tokens] /\ expired \in [Blocks -> SUBSET Tokens]
       /\ q = [frozen EXCEPT ![D] = @ \ {x}]
  BY <1>1, Zenon DEF Inv, LeasesOK, t
<1>16. \A b \in Blocks : x \in frozen'[b] <=> b = new \/ (x \in frozen[b] /\ b # D)
  BY <1>6, <1>11, <1>13, <1>14, <1>15, Zenon
<1>17. \A b \in Blocks : x \in expired'[b] <=> x \in expired[b] /\ b # D + FrozenDays
  BY <1>4, <1>11, <1>15, Zenon
<1>18. x \notin q[new]
  <2>1. new # D => q[new] = frozen[new]
    BY <1>6, <1>15, Zenon
  <2>2. ~(new < D)
    BY <1>6, <1>11, BlocksInt, NotBelow, Zenon
  <2> QED
    BY <1>6, <1>12, <1>13, <2>1, <2>2, Zenon
<1>19. \A y \in Tokens \ {x}, b \in Blocks : /\ y \in frozen'[b] <=> y \in frozen[b]
                                             /\ y \in expired'[b] <=> y \in expired[b]
  BY <1>4, <1>6, <1>11, <1>14, <1>15, Zenon
<1>20. now' = now /\ phase' = "calls" /\ phase = "calls" /\ todo' = todo
  BY DEF InCalls, block
<1>21. Queued(x)'
  <2>1. \A b : (FreezePending(x, b)' <=> b > now) /\ (ExpirePending(x, b)' <=> b > now)
    BY <1>20 DEF FreezePending, ExpirePending
  <2>2. \A b \in Blocks : x \in frozen'[b] => b = new \/ (b < now /\ b < new)
    <3> SUFFICES ASSUME NEW b \in Blocks, x \in frozen[b], b # D PROVE b < now /\ b < new
      BY <1>16, ZenonT(30)
    <3>1. b < now /\ b \in Int /\ new \in Int
      BY <1>6, <1>12 DEF Blocks
    <3> QED
      BY <1>3, <1>6, <3>1
  <2>3. x \in frozen'[new]
    BY <1>6, <1>16, ZenonT(30)
  <2>4. \A b \in Blocks : x \in expired'[b] => ~(b > now)
    BY <1>12, <1>17, Zenon
  <2>5. x \notin stranded' => new > now
    BY <1>4
  <2> QED
    BY <1>4, <1>7, <1>10, <1>20, <2>1, <2>2, <2>3, <2>4, <2>5, ZenonT(30) DEF Queued, Live
<1>22. \A y \in Tokens : Queued(y)'
  BY <1>4, <1>9, <1>19, <1>20, <1>21, OneQueued, ZenonT(30) DEF Tracks
<1>23. Listed(x)'
  <2>1. consign'[x] = consign[x] /\ Record[x].state # "OnConsignment" /\ r.state # "OnConsignment"
    BY <1>2, <1>4, <1>7, ZenonT(30)
  <2> QED
    BY <1>10, <2>1, ZenonT(30) DEF Tracks, Listed
<1>24. \A y \in Tokens : Listed(y)'
  BY <1>9, <1>23, OneListed, ZenonT(30) DEF Tracks
<1>25. Counted'
  BY <1>4, <1>6, <1>13, <1>18, CountEnqueue, ZenonT(30)
<1>26. purchased' = SumFunctionOnSet(Held', Locs)
  <2>1. purchased' \in Nat /\ purchased' = SumFunctionOnSet(Held, Locs)
    BY MoneyTyped DEF Inv, Tracks
  <2>2. SumFunctionOnSet(Held', Locs) =
          SumFunctionOnSet(Held, Locs) + Weight(r) - Weight(terr[l])
    BY <1>5, HeldRewrite, ZenonT(30)
  <2>3. Weight(terr[l]) \in Nat /\ Weight(r) = Weight(terr[l])
    BY <1>8, HeldTyped DEF t
  <2> QED
    BY <2>1, <2>2, <2>3, SMTT(20)
<1> QED
  BY <1>22, <1>24, <1>25, <1>26, Zenon DEF Tracks

LEMMA MoveTracks ==
  ASSUME Inv, Inv', Undisturbed, Undisturbed', Tracks, UNCHANGED <<now, phase, purchased>>,
         phase = "scheduler" \/ todo' = todo,
         NEW from \in Locs, NEW to \in Locs, Exists(from), NEW r, NEW x \in Tokens,
         x = terr[from].token, MoveTerritory(from, to, r, x, to),
         r.deadline = terr[from].deadline, r.total = terr[from].total,
         r.state \in Live, terr[from].state \in Live,
         \A y \in Tokens \ {x} : consign'[y] = consign[y], Listed(x)'
  PROVE  Tracks'
<1>1. Record[x] = terr[from] /\ Record' = [Record EXCEPT ![x] = r] /\ (to = from \/ ~Exists(to))
  BY RecordAt, ViewMove, ZenonT(30)
<1>2. Record'[x] = r
  BY <1>1, ViewAt, ZenonT(30)
<1>3. Record[x].deadline \in 0 .. Horizon
  BY <1>1, RecordOf, ZenonT(30) DEF Territories
<1>4. UNCHANGED <<frozen, frozenCounter, expired, stranded>>
  BY ZenonT(30) DEF MoveTerritory
<1>5. Queued(x)'
  BY <1>1, <1>2, <1>3, <1>4, StillQueued, ZenonT(30) DEF Tracks
<1>6. \A t \in Tokens : Queued(t)'
  BY <1>1, <1>4, <1>5, OneQueued, ZenonT(30) DEF Tracks
<1>7. \A t \in Tokens : Listed(t)'
  BY <1>1, OneListed, ZenonT(30) DEF Tracks
<1>8. Counted'
  BY <1>4, ZenonT(30) DEF Tracks, Counted
<1>9. Weight(r) = Weight(terr[from])
  BY Zenon DEF Weight, Live
<1>10. terr' = [[terr EXCEPT ![from] = Absent] EXCEPT ![to] = r]
  BY ZenonT(30) DEF MoveTerritory
<1>11. purchased' = SumFunctionOnSet(Held', Locs)
  BY <1>1, <1>9, <1>10, HeldMove, ZenonT(30) DEF Tracks
<1> QED
  BY <1>6, <1>7, <1>8, <1>11, Zenon DEF Tracks
-----------------------------------------------------------------------------
(* Dispatchables on leases and pay orders. *)

\* More space for a lease that is counted.
LEMMA SpaceTracks ==
  ASSUME Inv, Inv', Undisturbed, Tracks, InCalls, NEW l \in Locs, NEW g \in Nat,
         Exists(l), now <= terr[l].deadline, UpdateTerritorySpace(l, g), AddPurchasedSpace(g),
         UNCHANGED <<block, key, frozen, frozenCounter, expired, consign, hist>>
  PROVE  Tracks'
<1> DEFINE t == terr[l]
           r == [t EXCEPT !.rem = t.rem + g, !.total = t.total + g]
<1>1. terr' = [terr EXCEPT ![l] = r]
  BY ZenonT(30) DEF UpdateTerritorySpace, Inv, LeasesOK
<1>2. PICK x \in Tokens : x = t.token
  BY RecordAt, ZenonT(30)
<1>3. Record[x] = t /\ t \in Territories /\ t.deadline \in 0 .. Horizon /\ t.total \in Nat
  <2>1. Record[x] = t /\ t \in Territories
    BY <1>2, RecordAt, RecordOf, ZenonT(30)
  <2> HIDE DEF t
  <2> QED
    BY <2>1 DEF Territories
<1>4. /\ r.deadline = t.deadline /\ r.state = t.state
      /\ r.total = t.total + g /\ r.rem = t.rem + g
  BY <1>3, Zenon DEF Territories
<1> HIDE DEF r
<1>5. t.state # "Expired" /\ t.state # "Absent"
  <2>1. now \in Nat
    BY NowTyped DEF Inv
  <2>2. t.state = "Expired" => t.deadline + FrozenDays <= now
    BY <1>3, ZenonT(30) DEF Tracks, Queued
  <2> QED
    BY <1>3, <2>1, <2>2, TerritoryConstants, AddAbove, BlocksInt, Zenon DEF Exists
<1>6. Weight(r) = t.total + g /\ Weight(t) = t.total
  BY <1>4, <1>5, ZenonT(30) DEF Weight
<1>7. purchased' = purchased + Weight(r) - Weight(terr[l])
  <2>1. purchased' = purchased + g /\ purchased \in Nat
    BY MoneyTyped, Zenon DEF AddPurchasedSpace, Inv
  <2>2. t.total \in Nat /\ Weight(r) = t.total + g /\ Weight(terr[l]) = t.total
    BY <1>3, <1>6, Zenon
  <2> HIDE DEF t
  <2> QED
    BY <2>1, <2>2
<1>8. Record'[x] = r
  <2>1. Record' = [Record EXCEPT ![x] = r]
    BY <1>1, <1>2, ViewRewrite, ZenonT(30)
  <2> QED
    BY <2>1, ViewAt, ZenonT(30)
<1>9. Listed(x)'
  BY <1>3, <1>4, <1>8, ZenonT(30) DEF Tracks, Listed
<1> QED
  BY <1>1, <1>2, <1>4, <1>7, <1>9, RewriteTracks, ZenonT(30) DEF block, hist

\* Steps that touch neither leases nor listings nor the hooks.
LEMMA IdleTracks ==
  ASSUME Tracks, UNCHANGED <<block, leases, purchased, consign, hist>>
  PROVE  Tracks'
<1>1. UNCHANGED <<now, phase, todo, terr, key, frozen, frozenCounter, expired, stranded>>
  BY Zenon DEF block, leases, hist
<1>2. Record' = Record /\ Held' = Held
  BY <1>1 DEF Record, Held
<1>3. \A t \in Tokens : Queued(t)'
  BY <1>1, <1>2, ZenonT(30) DEF Tracks, Queued, FreezePending, ExpirePending
<1>4. \A t \in Tokens : Listed(t)'
  BY <1>2, Zenon DEF Tracks, Listed
<1> QED
  BY <1>1, <1>2, <1>3, <1>4, ZenonT(30) DEF Tracks, Counted

\* The calls that mint, expand, renew, reactivate, grant and rename keep the
\* queues, the counters and the listings of every token.
LEMMA LeaseTracks ==
  ASSUME Inv, Inv', Undisturbed, Undisturbed', Tracks, Lease
  PROVE  Tracks'
\* initial_territory with the purchase of the space it had.
<1>InitialTracks. ASSUME Inv, Inv', Undisturbed, Tracks, InCalls, UNCHANGED <<block, consign>>,
                         NEW l \in Locs, NEW d \in Nat, terr[l].state = "Expired",
                         InitialTerritory(l, d), AddPurchasedSpace(terr[l].total)
                  PROVE  Tracks'
  <2> USE <1>InitialTracks
  <2> DEFINE t == terr[l]
             new == now + OneDay * d
             r == [t EXCEPT !.state = "Active", !.rem = 0, !.locked = 0, !.used = 0,
                            !.deadline = new]
  <2>a. Exists(l)
    BY Zenon DEF Exists
  <2>1. PICK x \in Tokens : x = t.token
    BY <2>a, RecordAt, Zenon
  <2>2. Record[x] = t /\ t \in Territories /\ t.deadline \in 0 .. Horizon
    BY <2>a, <2>1, RecordAt, RecordOf, Zenon DEF Territories
  <2>3. now \in Nat /\ OneDay * d \in Nat
    BY NowTyped, ProductNat, TerritoryConstants, Zenon DEF Inv
  <2>4. /\ new <= Horizon /\ EnqueueFrozen(frozen, frozenCounter, new, x)
        /\ expired' = expired /\ key' = key
        /\ stranded' = IF new > now THEN stranded ELSE stranded \cup {x}
    BY <2>1 DEF InitialTerritory
  <2>5. terr' = [terr EXCEPT ![l] = r]
    BY Zenon DEF InitialTerritory, Inv, LeasesOK
  <2>6. new \in 0 .. Horizon /\ new \in Blocks /\ new >= now
    BY <2>3, <2>4, Later, Zenon
  <2> HIDE DEF new
  <2>7. r.deadline = new /\ r.state = "Active" /\ r.total = t.total
    BY <2>2 DEF Territories
  <2>8. Weight(r) = t.total /\ Weight(t) = 0
    BY <2>7 DEF Weight
  <2> HIDE DEF r
  <2>9. Record' = [Record EXCEPT ![x] = r]
    BY <2>a, <2>1, <2>5, <2>4, ViewRewrite, ZenonT(30)
  <2>10. Record'[x] = r
    BY <2>9, ViewAt, ZenonT(30)
  <2>11. t.deadline + FrozenDays <= now /\ t.deadline < now
    <3>1. t.deadline + FrozenDays <= now
      BY <2>2, Zenon DEF Tracks, Queued
    <3>2. t.deadline \in Nat /\ FrozenDays \in Nat \ {0}
      BY <2>2, TerritoryConstants
    <3> QED
      BY <2>3, <3>1, <3>2, AddBelow, Zenon
  <2>12. /\ \A b \in Blocks : x \in frozen[b] => b < now
         /\ \A b \in Blocks : x \in expired[b] => ~(b > now)
    BY <2>2, <2>11, Zenon DEF Tracks, Queued, ExpirePending
  <2>13. frozen' = [frozen EXCEPT ![new] = @ \cup {x}] /\ frozen \in [Blocks -> SUBSET Tokens]
    BY <2>4, ZenonT(30) DEF EnqueueFrozen, Inv, LeasesOK
  <2>14. \A b \in Blocks : x \in frozen'[b] <=> b = new \/ x \in frozen[b]
    BY <2>6, <2>13, Zenon
  <2>15. x \notin frozen[new]
    <3>1. ~(new < now)
      BY <2>3, <2>6, BlocksInt, NotBelow, NowTyped, Zenon DEF Inv
    <3> QED
      BY <2>6, <2>12, <3>1, Zenon
  <2>16. now' = now /\ phase' = "calls" /\ phase = "calls" /\ todo' = todo
    BY DEF InCalls, block
  <2>17. Queued(x)'
    <3>1. \A b : (FreezePending(x, b)' <=> b > now) /\ (ExpirePending(x, b)' <=> b > now)
      BY <2>16, Zenon DEF FreezePending, ExpirePending
    <3>2. \A b \in Blocks : x \in frozen'[b] => b = new \/ (b < now /\ b < new)
      <4> SUFFICES ASSUME NEW b \in Blocks, x \in frozen[b] PROVE b < now /\ b < new
        BY <2>14, Zenon
      <4>1. b < now /\ b \in Int /\ new \in Int /\ now \in Int
        BY <2>6, <2>12, BlocksInt, NowTyped, Zenon DEF Inv
      <4> QED
        BY <2>6, <4>1, BelowBoth, Zenon
    <3>3. x \in frozen'[new]
      BY <2>6, <2>14
    <3>4. x \notin stranded' => new > now
      BY <2>4, ZenonT(30)
    <3> QED
      BY <2>4, <2>7, <2>10, <2>12, <2>16, <3>1, <3>2, <3>3, <3>4, ZenonT(30) DEF Queued, Live
  <2>18. \A y \in Tokens \ {x}, b \in Blocks : y \in frozen'[b] <=> y \in frozen[b]
    BY <2>6, <2>13
  <2>19. \A y \in Tokens : Queued(y)'
    BY <2>4, <2>9, <2>16, <2>17, <2>18, OneQueued, ZenonT(30) DEF Tracks
  <2>20. Listed(x)'
    <3>1. consign'[x] = consign[x] /\ Record[x].state # "OnConsignment" /\ r.state # "OnConsignment"
      BY <2>2, <2>7, ZenonT(30)
    <3> QED
      BY <2>10, <3>1, Zenon DEF Tracks, Listed
  <2>21. \A y \in Tokens : Listed(y)'
    BY <2>9, <2>20, OneListed, ZenonT(30) DEF Tracks
  <2>22. frozenCounter \in [Blocks -> Nat]
    BY DEF Inv, LeasesOK
  <2>23. Counted'
    BY <2>4, <2>6, <2>13, <2>15, <2>22, CountEnqueue, ZenonT(30) DEF Tracks, Counted
  <2>24. purchased' = SumFunctionOnSet(Held', Locs)
    <3>1. /\ purchased \in Nat /\ purchased = SumFunctionOnSet(Held, Locs)
          /\ purchased' = purchased + terr[l].total
      BY MoneyTyped, Zenon DEF Inv, Tracks, AddPurchasedSpace
    <3>2. SumFunctionOnSet(Held', Locs) =
            SumFunctionOnSet(Held, Locs) + Weight(r) - Weight(terr[l])
      BY <2>5, HeldRewrite, ZenonT(30)
    <3>3. t.total \in Nat
      BY <2>2, Zenon DEF Territories
    <3>4. purchased + (t.total - 0) = purchased + t.total
      BY <3>1, <3>3, AddZero, Zenon
    <3> QED
      BY <2>8, <3>1, <3>2, <3>4, Zenon
  <2> QED
    BY <2>19, <2>21, <2>23, <2>24, ZenonT(30) DEF Tracks
  \* A record moved to another owner or name with its deadline.
<1> PICK u \in Users, n \in TerrNames :
    \/ \E g \in Gibs, d \in DayChoices, t \in Tokens :
         n \in Names /\ MintTerritory(u, n, g, d, t)
    \/ \E g \in Gibs : ExpandingTerritory(u, n, g)
    \/ \E d \in DayChoices : RenewalTerritory(u, n, d) \/ ReactivateTerritory(u, n, d)
    \/ \E v \in Users : TerritoryGrants(u, n, v)
    \/ \E m \in Names : TerritoryRename(u, n, m)
  BY DEF Lease
<1> DEFINE l == <<u, n>>
<1>1. l \in Locs
  BY LocTyped, Zenon
<1>2. ASSUME NEW g \in Gibs, NEW d \in DayChoices, NEW t \in Tokens, MintTerritory(u, n, g, d, t)
      PROVE  Tracks'
  <2>1. g \in Nat /\ d \in Nat
    BY TerritoryConstants
  <2> QED
    BY <1>1, <1>2, <2>1, StorageTracks, Zenon DEF MintTerritory
<1>3. ASSUME NEW g \in Gibs, ExpandingTerritory(u, n, g)
      PROVE  Tracks'
  <2>1. g \in Nat /\ Exists(l)
    BY <1>3, TerritoryConstants, ZenonT(30) DEF ExpandingTerritory, Exists
  <2> QED
    BY <1>1, <1>3, <2>1, SpaceTracks, ZenonT(30) DEF ExpandingTerritory
<1>4. ASSUME NEW d \in DayChoices, RenewalTerritory(u, n, d)
      PROVE  Tracks'
  <2>1. d \in Nat /\ Exists(l)
    BY <1>4, TerritoryConstants, ZenonT(30) DEF RenewalTerritory, Exists
  <2> QED
    BY <1>1, <1>4, <2>1, DaysTracks, ZenonT(30) DEF RenewalTerritory
<1>5. ASSUME NEW d \in DayChoices, ReactivateTerritory(u, n, d)
      PROVE  Tracks'
  <2>1. d \in Nat
    BY TerritoryConstants
  <2> QED
    BY <1>1, <1>5, <2>1, <1>InitialTracks, ZenonT(30) DEF ReactivateTerritory
<1>6. ASSUME NEW to \in Locs, Exists(l), terr[l].state = "Active",
             UNCHANGED <<block, purchased, consign>>,
             MoveTerritory(l, to, terr[l], terr[l].token, to)
      PROVE  Tracks'
  <2>1. PICK x \in Tokens : x = terr[l].token
    BY <1>1, <1>6, RecordAt, ZenonT(30)
  <2>2. Record[x] = terr[l]
    BY <1>1, <1>6, <2>1, RecordAt, ZenonT(30)
  <2>3. Record' = [Record EXCEPT ![x] = terr[l]]
    BY <1>1, <1>6, <2>1, ViewMove, ZenonT(30)
  <2>4. Record'[x] = terr[l]
    BY <2>3, ViewAt, ZenonT(30)
  <2>5. Listed(x)'
    BY <1>6, <2>2, <2>4, ZenonT(30) DEF Tracks, Listed
  <2>6. terr[l].state \in Live
    BY <1>6, ZenonT(30) DEF Live
  <2>7. MoveTerritory(l, to, terr[l], x, to)
    BY <1>6, <2>1, ZenonT(30)
  <2> HIDE DEF l
  <2> QED
    BY <1>1, <1>6, <2>1, <2>5, <2>6, <2>7, MoveTracks, ZenonT(30) DEF block
<1>7. ASSUME NEW v \in Users, TerritoryGrants(u, n, v)
      PROVE  Tracks'
  <2>1. Exists(l) /\ terr[l].state = "Active"
    BY <1>7, ZenonT(30) DEF TerritoryGrants, Exists
  <2>2. terr[l].token \in Tokens
    BY <1>1, <2>1, RecordTyped, ZenonT(30)
  <2>3. <<v, terr[l].token>> \in Locs
    BY <2>2, ZenonT(30) DEF Locs, TerrNames
  <2>4. MoveTerritory(l, <<v, terr[l].token>>, terr[l], terr[l].token, <<v, terr[l].token>>)
    BY <1>7, ZenonT(30) DEF TerritoryGrants
  <2>5. UNCHANGED <<block, purchased, consign>>
    BY <1>7, ZenonT(30) DEF TerritoryGrants
  <2> HIDE DEF l
  <2> QED
    BY <1>6, <2>1, <2>3, <2>4, <2>5, ZenonT(30)
<1>8. ASSUME NEW m \in Names, TerritoryRename(u, n, m)
      PROVE  Tracks'
  <2>1. Exists(l) /\ terr[l].state = "Active"
    BY <1>8, ZenonT(30) DEF TerritoryRename, Exists
  <2>2. <<u, m>> \in Locs
    BY DEF Locs, TerrNames
  <2>3. key[terr[l].token] = <<u, n>>
    BY <1>1, <2>1, RecordAt, ZenonT(30)
  <2>4. <<key[terr[l].token][1], m>> = <<u, m>>
    BY <2>3
  <2>5. MoveTerritory(l, <<u, m>>, terr[l], terr[l].token, <<u, m>>)
    BY <1>8, <2>4, ZenonT(30) DEF TerritoryRename
  <2>6. UNCHANGED <<block, purchased, consign>>
    BY <1>8, ZenonT(30) DEF TerritoryRename
  <2> HIDE DEF l
  <2> QED
    BY <1>6, <2>1, <2>2, <2>5, <2>6, ZenonT(30)
<1> QED
  BY <1>2, <1>3, <1>4, <1>5, <1>7, <1>8, Zenon

\* The same for executed pay orders, which mint, expand and renew with the
\* parameters stored in the order.
LEMMA OrderTracks ==
  ASSUME Inv, Inv', Undisturbed, Undisturbed', Tracks, Order
  PROVE  Tracks'
<1>1. ASSUME NEW type \in {"Buy", "Expansion", "Renewal"}, NEW l \in Locs, NEW g \in Gibs,
             NEW d \in DayChoices, NEW life \in OrderLives, CreateOrder(type, l, g, d, life)
      PROVE  Tracks'
  BY <1>1, IdleTracks, Zenon DEF CreateOrder
<1>2. ASSUME NEW u \in Users, NEW id \in 0 .. MaxBlock, NEW t \in Tokens, ExecBuyOrder(u, id, t)
      PROVE  Tracks'
  <2> DEFINE o == payOrder[id]
  <2>1. o.loc \in Locs /\ o.gib \in Nat /\ o.days \in Nat
    BY <1>2, OrderTyped, ZenonT(30) DEF ExecBuyOrder
  <2>2. /\ InCalls /\ ~Exists(o.loc) /\ key[t] = NoLoc /\ AddPurchasedSpace(o.gib)
        /\ StorageTerritory(t, o.loc, o.gib, o.days) /\ UNCHANGED <<block, consign>>
    BY <1>2, Zenon DEF ExecBuyOrder, OrderOpen
  <2> HIDE DEF o
  <2> QED
    BY <2>1, <2>2, StorageTracks
<1>3. ASSUME NEW u \in Users, NEW id \in 0 .. MaxBlock, ExecExpansionOrder(u, id)
      PROVE  Tracks'
  <2> DEFINE o == payOrder[id]
  <2>1. o.loc \in Locs /\ o.gib \in Nat
    BY <1>3, OrderTyped, ZenonT(30) DEF ExecExpansionOrder
  <2>2. /\ InCalls /\ Exists(o.loc) /\ now <= terr[o.loc].deadline
        /\ UpdateTerritorySpace(o.loc, o.gib) /\ AddPurchasedSpace(o.gib)
        /\ UNCHANGED <<block, key, frozen, frozenCounter, expired, consign, hist>>
    BY <1>3, ZenonT(30) DEF ExecExpansionOrder, OrderOpen
  <2> HIDE DEF o
  <2> QED
    BY <2>1, <2>2, SpaceTracks
<1>4. ASSUME NEW u \in Users, NEW id \in 0 .. MaxBlock, ExecRenewalOrder(u, id)
      PROVE  Tracks'
  <2> DEFINE o == payOrder[id]
  <2>1. o.loc \in Locs /\ o.days \in Nat
    BY <1>4, OrderTyped, ZenonT(30) DEF ExecRenewalOrder
  <2>2. /\ InCalls /\ Exists(o.loc) /\ UpdateTerritoryDays(o.loc, o.days)
        /\ UNCHANGED <<block, consign, purchased>>
    BY <1>4, Zenon DEF ExecRenewalOrder, OrderOpen
  <2> HIDE DEF o
  <2> QED
    BY <2>1, <2>2, DaysTracks
<1> QED
  BY <1>1, <1>2, <1>3, <1>4, Zenon DEF Order
-----------------------------------------------------------------------------
(* The market and the space of files. *)

\* The same for the storage calls of the file bank: they move space inside a
\* record and leave its state and deadline.
LEMMA SpaceMoveTracks ==
  ASSUME Inv, Inv', Undisturbed, Tracks, Storage
  PROVE  Tracks'
\* Space moved within a record.
\* A territory on sale holds no data.
<1>EmptyOnSale. ASSUME Inv, Undisturbed, Tracks, NEW l \in Locs, terr[l].state = "OnConsignment"
                PROVE  terr[l].used = 0 /\ terr[l].locked = 0
  <2> USE <1>EmptyOnSale
  <2>1. Exists(l)
    BY Zenon DEF Exists
  <2>2. terr[l].token \in Tokens /\ Record[terr[l].token] = terr[l] /\ RecordOK(terr[l])
    BY <2>1, RecordAt, RecordTyped, Zenon
  <2>3. terr[l].rem = terr[l].total
    BY <2>2 DEF Tracks, Listed
  <2> QED
    BY <2>2, <2>3 DEF RecordOK, Territories
<1>ResizeTracks. ASSUME Inv, Inv', Undisturbed, Tracks, NEW l \in Locs, Exists(l), NEW used \in Nat,
                        NEW locked \in Nat, NEW rem \in Nat, NEW r,
                        r = [terr[l] EXCEPT !.used = used, !.locked = locked, !.rem = rem], Resize(l, r),
                        terr[l].state = "OnConsignment" => rem = terr[l].rem
                 PROVE  Tracks'
  <2> USE <1>ResizeTracks
  <2> DEFINE t == terr[l]
  <2>1. PICK x \in Tokens : x = t.token
    BY RecordAt
  <2>2. t \in Territories /\ t.total \in Nat /\ Record[x] = t
    BY <2>1, RecordTyped, RecordAt, Zenon
  <2>3. r.deadline = t.deadline /\ r.state = t.state /\ r.total = t.total /\ r.rem = rem
    BY <2>2 DEF Territories
  <2>4. Weight(r) = Weight(t) /\ Weight(t) \in Nat
    BY <2>2, <2>3 DEF Weight
  <2>5. /\ terr' = [terr EXCEPT ![l] = r]
        /\ UNCHANGED <<block, key, frozen, frozenCounter, expired, purchased, consign, hist>>
    BY DEF Resize
  <2>6. purchased' = purchased + Weight(r) - Weight(terr[l])
    <3>1. purchased \in Nat /\ purchased' = purchased
      BY <2>5, MoneyTyped, Zenon DEF Inv
    <3> QED
      BY <2>4, <3>1
  <2>7. Record'[x] = r
    <3>1. Record' = [Record EXCEPT ![x] = r]
      BY <2>1, <2>5, ViewRewrite, Zenon
    <3> QED
      BY <3>1, ViewAt, ZenonT(30)
  <2>8. Listed(x)'
    <3>1. consign'[x] = consign[x] /\ Listed(x)
      BY <2>5 DEF Tracks
    <3> QED
      BY <2>2, <2>3, <2>7, <3>1 DEF Listed
  <2> QED
    BY <2>1, <2>3, <2>5, <2>6, <2>8, RewriteTracks, ZenonT(30) DEF block, hist
<1>1. ASSUME NEW l \in Locs, NEW s \in Sizes,
             \/ AddTerritoryUsedSpace(l, s) \/ SubTerritoryUsedSpace(l, s)
             \/ LockUserSpace(l, s) \/ UnlockUserSpace(l, s)
             \/ UnlockAndUsedUserSpace(l, s)
      PROVE  Tracks'
  <2> DEFINE t == terr[l]
  <2>1. Exists(l) /\ s \in Nat
    BY <1>1, TerritoryConstants, Zenon DEF Exists, AddTerritoryUsedSpace, SubTerritoryUsedSpace,
       LockUserSpace, UnlockUserSpace, UnlockAndUsedUserSpace
  <2>2. t \in Territories /\ t.used \in Nat /\ t.locked \in Nat /\ t.rem \in Nat
    BY <2>1, RecordTyped DEF Territories
  <2>3. t.state = "OnConsignment" => t.used = 0 /\ t.locked = 0
    BY <1>EmptyOnSale
  <2>4. ASSUME NEW a, NEW b, NEW c
        PROVE  /\ [t EXCEPT !.used = a, !.rem = c] = [t EXCEPT !.used = a, !.locked = t.locked, !.rem = c]
               /\ [t EXCEPT !.locked = b, !.rem = c] = [t EXCEPT !.used = t.used, !.locked = b, !.rem = c]
               /\ [t EXCEPT !.locked = b, !.used = a] = [t EXCEPT !.used = a, !.locked = b, !.rem = t.rem]
    <3>1. [t EXCEPT !.used = a, !.rem = c] = [t EXCEPT !.used = a, !.locked = t.locked, !.rem = c]
      BY <2>2, Zenon DEF Territories
    <3>2. [t EXCEPT !.locked = b, !.rem = c] = [t EXCEPT !.used = t.used, !.locked = b, !.rem = c]
      BY <2>2, Zenon DEF Territories
    <3>3. [t EXCEPT !.locked = b, !.used = a] = [t EXCEPT !.used = a, !.locked = b, !.rem = t.rem]
      BY <2>2, Zenon DEF Territories
    <3> QED
      BY <3>1, <3>2, <3>3
  <2>5. CASE AddTerritoryUsedSpace(l, s)
    <3> DEFINE r == [t EXCEPT !.used = t.used + s, !.rem = t.rem - s]
    <3>1. Resize(l, r) /\ t.state # "OnConsignment" /\ t.rem - s \in Nat /\ t.used + s \in Nat
      BY <2>1, <2>2, <2>5 DEF AddTerritoryUsedSpace
    <3>2. r = [t EXCEPT !.used = t.used + s, !.locked = t.locked, !.rem = t.rem - s]
      BY <2>4, ZenonT(30)
    <3> HIDE DEF r
    <3> QED
      BY <2>1, <2>2, <3>1, <3>2, <1>ResizeTracks, ZenonT(30)
  <2>6. CASE SubTerritoryUsedSpace(l, s)
    <3> DEFINE r == [t EXCEPT !.used = t.used - s, !.rem = t.rem + s]
    <3>1. Resize(l, r) /\ s <= t.used /\ t.used - s \in Nat /\ t.rem + s \in Nat
      BY <2>1, <2>2, <2>6 DEF SubTerritoryUsedSpace
    <3>2. r = [t EXCEPT !.used = t.used - s, !.locked = t.locked, !.rem = t.rem + s]
      BY <2>4, Zenon
    <3>3. t.state = "OnConsignment" => t.rem + s = t.rem
      BY <2>1, <2>2, <2>3, <3>1
    <3> HIDE DEF r
    <3> QED
      BY <2>1, <2>2, <3>1, <3>2, <3>3, <1>ResizeTracks, ZenonT(30)
  <2>7. CASE LockUserSpace(l, s)
    <3> DEFINE r == [t EXCEPT !.locked = t.locked + s, !.rem = t.rem - s]
    <3>1. Resize(l, r) /\ t.state # "OnConsignment" /\ t.rem - s \in Nat /\ t.locked + s \in Nat
      BY <2>1, <2>2, <2>7 DEF LockUserSpace
    <3>2. r = [t EXCEPT !.used = t.used, !.locked = t.locked + s, !.rem = t.rem - s]
      BY <2>4, ZenonT(30)
    <3> HIDE DEF r
    <3> QED
      BY <2>1, <2>2, <3>1, <3>2, <1>ResizeTracks, ZenonT(30)
  <2>8. CASE UnlockUserSpace(l, s)
    <3> DEFINE r == [t EXCEPT !.locked = t.locked - s, !.rem = t.rem + s]
    <3>1. Resize(l, r) /\ s <= t.locked /\ t.locked - s \in Nat /\ t.rem + s \in Nat
      BY <2>1, <2>2, <2>8 DEF UnlockUserSpace
    <3>2. r = [t EXCEPT !.used = t.used, !.locked = t.locked - s, !.rem = t.rem + s]
      BY <2>4, Zenon
    <3>3. t.state = "OnConsignment" => t.rem + s = t.rem
      BY <2>1, <2>2, <2>3, <3>1
    <3> HIDE DEF r
    <3> QED
      BY <2>1, <2>2, <3>1, <3>2, <3>3, <1>ResizeTracks, ZenonT(30)
  <2>9. CASE UnlockAndUsedUserSpace(l, s)
    <3> DEFINE r == [t EXCEPT !.locked = t.locked - s, !.used = t.used + s]
    <3>1. Resize(l, r) /\ t.locked - s \in Nat /\ t.used + s \in Nat
      BY <2>1, <2>2, <2>9 DEF UnlockAndUsedUserSpace
    <3>2. r = [t EXCEPT !.used = t.used + s, !.locked = t.locked - s, !.rem = t.rem]
      BY <2>4, ZenonT(30)
    <3> HIDE DEF r
    <3> QED
      BY <2>1, <2>2, <3>1, <3>2, <1>ResizeTracks, ZenonT(30)
  <2> QED
    BY <1>1, <2>5, <2>6, <2>7, <2>8, <2>9
<1>2. ASSUME NEW space \in NetworkSpaces, ChangeNetworkSpace(space)
      PROVE  Tracks'
  BY <1>2, IdleTracks, Zenon DEF ChangeNetworkSpace
<1> QED
  BY <1>1, <1>2, Zenon DEF Storage

\* The same for the calls of the market.
LEMMA MarketTracks ==
  ASSUME Inv, Inv', Undisturbed, Tracks, Market
  PROVE  Tracks'
\* A listing that comes or goes with the state of its record.
\* A purchase or its cancellation changes the listing and leaves it there.
<1>SaleTracks. ASSUME Inv, Tracks, NEW x \in Tokens, NEW c, consign[x] # NoConsignment,
                      c.user = consign[x].user, consign' = [consign EXCEPT ![x] = c],
                      UNCHANGED <<block, leases, purchased, hist>>
               PROVE  Tracks'
  <2> USE <1>SaleTracks
  <2>1. UNCHANGED <<now, phase, todo, terr, key, frozen, frozenCounter, expired, stranded>>
    BY DEF block, leases, hist
  <2>2. Record' = Record /\ Held' = Held
    BY <2>1, ZenonT(30) DEF Record, Held
  <2>3. \A t \in Tokens : Queued(t)'
    BY <2>1, <2>2, ZenonT(30) DEF Tracks, Queued, FreezePending, ExpirePending
  <2>4. consign \in [Tokens -> Sales]
    BY Zenon DEF Inv, TypeOK, Sales
  <2>5. Listed(x) /\ c # NoConsignment
    <3>1. Listed(x)
      BY Zenon DEF Tracks
    <3>2. c.user \in Users
      BY <3>1, Zenon DEF Listed
    <3>3. NoConsignment.user \notin Users
      BY TerritoryConstants DEF NoConsignment
    <3> QED
      BY <3>1, <3>2, <3>3, Zenon
  <2>6. \A t \in Tokens : Listed(t)'
    <3> SUFFICES ASSUME NEW t \in Tokens PROVE Listed(t)'
      OBVIOUS
    <3>1. CASE t = x
      BY <2>2, <2>4, <2>5, <3>1, ZenonT(30) DEF Listed
    <3>2. CASE t # x
      BY <2>2, <2>4, <3>2, ZenonT(30) DEF Tracks, Listed
    <3> QED
      BY <3>1, <3>2, Zenon
  <2> QED
    BY <2>1, <2>2, <2>3, <2>6, ZenonT(30) DEF Tracks, Counted
<1>StateTracks. ASSUME Inv, Inv', Undisturbed, Tracks, NEW l \in Locs, Exists(l), NEW s \in Live,
                       terr[l].state \in Live, terr' = [terr EXCEPT ![l].state = s], NEW c,
                       consign' = [consign EXCEPT ![terr[l].token] = c],
                       c # NoConsignment <=> s = "OnConsignment", c # NoConsignment => c.user \in Users,
                       s = "OnConsignment" => terr[l].rem = terr[l].total,
                       UNCHANGED <<block, key, frozen, frozenCounter, expired, purchased, hist>>
                PROVE  Tracks'
  <2> USE <1>StateTracks
  <2> DEFINE t == terr[l]
             r == [t EXCEPT !.state = s]
  <2>1. terr' = [terr EXCEPT ![l] = r] /\ consign \in [Tokens -> Sales]
    BY Zenon DEF Inv, LeasesOK, TypeOK, Sales
  <2>2. PICK x \in Tokens : x = t.token
    BY RecordAt
  <2>3. t \in Territories /\ t.total \in Nat
    BY RecordTyped
  <2>4. r.deadline = t.deadline /\ r.state = s /\ r.total = t.total /\ r.rem = t.rem
    BY <2>3 DEF Territories
  <2> HIDE DEF r
  <2>5. Weight(r) = Weight(t) /\ Weight(t) \in Nat
    BY <2>3, <2>4 DEF Weight, Live
  <2>6. purchased' = purchased + Weight(r) - Weight(terr[l])
    <3>1. purchased \in Nat /\ purchased' = purchased
      BY MoneyTyped DEF Inv
    <3> QED
      BY <2>5, <3>1
  <2>7. Record' = [Record EXCEPT ![x] = r]
    BY <2>1, <2>2, ViewRewrite, Zenon
  <2>8. Record'[x] = r
    BY <2>7, ViewAt, Zenon
  <2>9. consign'[x] = c /\ \A y \in Tokens \ {x} : consign'[y] = consign[y]
    BY <2>1, <2>2
  <2>10. Listed(x)'
    BY <2>4, <2>8, <2>9, Zenon DEF Listed
  <2> QED
    BY <2>1, <2>2, <2>4, <2>6, <2>9, <2>10, RewriteTracks, ZenonT(30) DEF block, hist
<1> PICK u \in Users :
    \/ \E n \in TerrNames : \/ \E p \in Prices : TerritoryConsignment(u, n, p)
                            \/ CancelConsignment(u, n)
    \/ \E t \in Tokens : \/ \E n \in Names : BuyConsignment(u, t, n)
                         \/ CancelPurchaseAction(u, t)
    \/ \E v \in Users, p \in Prices : Transfer(u, v, p)
  BY DEF Market
<1>1. ASSUME NEW n \in TerrNames, NEW p \in Prices, TerritoryConsignment(u, n, p)
      PROVE  Tracks'
  <2> DEFINE l == <<u, n>>
             c == [user |-> u, price |-> p, buyer |-> NoUser, locked |-> FALSE]
  <2>1. l \in Locs
    BY LocTyped, Zenon
  <2>2. c # NoConsignment /\ c.user \in Users
    BY TerritoryConstants DEF NoConsignment
  <2>3. Exists(l) /\ terr[l].state \in Live /\ "OnConsignment" \in Live
    BY <1>1, ZenonT(30) DEF TerritoryConsignment, Exists, Live
  <2>4. /\ terr' = [terr EXCEPT ![l].state = "OnConsignment"]
        /\ consign' = [consign EXCEPT ![terr[l].token] = c]
        /\ terr[l].rem = terr[l].total
        /\ UNCHANGED <<block, key, frozen, frozenCounter, expired, purchased, hist>>
    BY <1>1, Zenon DEF TerritoryConsignment
  <2> HIDE DEF l, c
  <2> QED
    BY <2>1, <2>2, <2>3, <2>4, <1>StateTracks, ZenonT(30)
<1>2. ASSUME NEW n \in TerrNames, CancelConsignment(u, n)
      PROVE  Tracks'
  <2> DEFINE l == <<u, n>>
  <2>1. l \in Locs
    BY LocTyped, Zenon
  <2>2. Exists(l) /\ terr[l].state \in Live /\ "Active" \in Live
    BY <1>2, Zenon DEF CancelConsignment, Exists, Live
  <2>3. /\ terr' = [terr EXCEPT ![l].state = "Active"]
        /\ consign' = [consign EXCEPT ![terr[l].token] = NoConsignment]
        /\ UNCHANGED <<block, key, frozen, frozenCounter, expired, purchased, hist>>
    BY <1>2 DEF CancelConsignment
  <2> HIDE DEF l
  <2> QED
    BY <2>1, <2>2, <2>3, <1>StateTracks, ZenonT(30)
<1>3. ASSUME NEW t \in Tokens, NEW n \in Names, BuyConsignment(u, t, n)
      PROVE  Tracks'
  <2> DEFINE c == [consign[t] EXCEPT !.buyer = u, !.locked = TRUE]
  <2>1. consign \in [Tokens -> Sales]
    BY Zenon DEF Inv, TypeOK, Sales
  <2>2. c.user = consign[t].user
    BY <2>1 DEF Sales
  <2>3. consign' = [consign EXCEPT ![t] = c]
    BY <1>3, <2>1, ZenonT(30) DEF BuyConsignment
  <2> HIDE DEF c
  <2> QED
    BY <1>3, <2>2, <2>3, <1>SaleTracks, ZenonT(30) DEF BuyConsignment
<1>4. ASSUME NEW t \in Tokens, CancelPurchaseAction(u, t)
      PROVE  Tracks'
  <2> DEFINE c == [consign[t] EXCEPT !.buyer = NoUser, !.locked = FALSE]
  <2>1. consign \in [Tokens -> Sales]
    BY Zenon DEF Inv, TypeOK, Sales
  <2>2. c.user = consign[t].user
    BY <2>1 DEF Sales
  <2>3. consign' = [consign EXCEPT ![t] = c]
    BY <1>4, <2>1, ZenonT(30) DEF CancelPurchaseAction
  <2> HIDE DEF c
  <2> QED
    BY <1>4, <2>2, <2>3, <1>SaleTracks, ZenonT(30) DEF CancelPurchaseAction
<1>5. ASSUME NEW v \in Users, NEW p \in Prices, Transfer(u, v, p)
      PROVE  Tracks'
  BY <1>5, IdleTracks DEF Transfer
<1> QED
  BY <1>1, <1>2, <1>3, <1>4, <1>5, Zenon
=============================================================================
