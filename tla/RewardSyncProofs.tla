-------------------------- MODULE RewardSyncProofs --------------------------
(***************************************************************************)
(* Proofs about two components that do not use each other.                 *)
(*                                                                         *)
(* The rewards of miners (MinerReward), for every set of miners, every     *)
(* payout and every granularity of the shares: the reward account covers   *)
(* the pool and all that was granted (PoolSafe), and however late the      *)
(* miners ask, the shares of an era are within its reward (RoundSafe).     *)
(*                                                                         *)
(* The relay between the chain and the enclave (LightSync), for every      *)
(* chain, batch size and number of restarts: the enclave's headers,        *)
(* authority set, queue of roots and state are those of the chain it       *)
(* follows (SyncSafe).                                                     *)
(***************************************************************************)
EXTENDS MinerReward, LightSync, SumTheorems

(* The snapshots of an era that have not become orders, and their power.    *)
Of(m, e) == {s \in snaps[m] : s.era = e}
Weight(m, e) == SumFunctionOnSet([s \in Of(m, e) |-> s.power], Of(m, e))
Weights(e) == [m \in Miners |-> Weight(m, e)]
Outstanding(e) == SumFunctionOnSet(Weights(e), Miners)

(* What was paid out of an era's reward and what its outstanding power can  *)
(* still ask for, both weighted by the power of the era.                    *)
RoundOK(e) ==
  /\ Outstanding(e) <= power[e]
  /\ e >= era => round[e].paid = 0
  /\ power[e] = 0 => round[e].paid = 0
  /\ round[e].paid * power[e] + Outstanding(e) * round[e].pot <= power[e] * round[e].pot

Finite == \A m \in Miners : IsFiniteSet(snaps[m]) /\ IsFiniteSet(reward[m].orders)

(* A miner that was granted nothing was paid nothing, and will not be.      *)
Blank(r) ==
  /\ r.total >= 0
  /\ r.total = 0 => r.issued = 0 /\ \A o \in r.orders : o.reward = 0 /\ o.each = 0

RewardInv ==
  /\ TypeOK /\ Finite /\ PoolCovered
  /\ \A e \in Eras : RoundOK(e)
  /\ \A m \in Miners : Blank(reward[m])
-----------------------------------------------------------------------------
(* Arithmetic. *)

LEMMA Ordered == \A a, b \in Int : a < b \/ a >= b
  OBVIOUS

LEMMA NatIsInt == \A a \in Nat : a \in Int
  OBVIOUS

LEMMA NotBelowZero == \A a \in Int : a >= 0 => a \in Nat
  OBVIOUS

LEMMA MinusSame == \A a, b \in Nat : a + b - b = a
  OBVIOUS

LEMMA Remainder == 0 \in Int /\ \A a \in Int : a - a = 0 /\ a - 0 = a
  OBVIOUS

LEMMA PlusZero == \A a \in Int : a + 0 = a
  OBVIOUS

\* Products are monotonic.
LEMMA TimesLeq ==
  ASSUME NEW a \in Int, NEW b \in Int, NEW c \in Nat, a <= b
  PROVE  a * c <= b * c
<1>1. (b - a) * c >= 0
  OBVIOUS
<1>2. (b - a) * c = b * c - a * c
  OBVIOUS
<1> QED BY <1>1, <1>2

\* A quotient times its divisor is at most the dividend.
LEMMA DivTimes ==
  ASSUME NEW a \in Nat, NEW b \in Nat \ {0}
  PROVE  /\ a \div b \in Nat
         /\ (a \div b) * b <= a
OBVIOUS

\* A factor that is not zero can be cancelled.
LEMMA CancelLeq ==
  ASSUME NEW a \in Int, NEW b \in Int, NEW c \in Nat \ {0}, a * c <= b * c
  PROVE  a <= b
<1> SUFFICES ASSUME b < a PROVE FALSE
  OBVIOUS
<1>1. (a - b) * c >= c
  <2>1. (a - b - 1) * c >= 0
    OBVIOUS
  <2>2. (a - b - 1) * c = (a - b) * c - c
    OBVIOUS
  <2> QED BY <2>1, <2>2
<1>2. (a - b) * c = a * c - b * c
  OBVIOUS
<1> QED BY <1>1, <1>2

\* A part n of P, rounded to a fraction of A and applied to t, is at most its
\* proportion of t.
LEMMA Proportion ==
  ASSUME NEW n \in Nat, NEW P \in Nat \ {0}, NEW A \in Nat \ {0}, NEW t \in Nat
  PROVE  LET share == (((n * A) \div P) * t) \div A
         IN  share \in Nat /\ share * P <= n * t
<1> DEFINE q == (n * A) \div P
           share == (q * t) \div A
<1>1. n * A \in Nat
  OBVIOUS
<1>2. q \in Nat /\ q * P <= n * A
  BY <1>1, DivTimes
<1> HIDE DEF q
<1>3. q * t \in Nat
  BY <1>2
<1>4. share \in Nat /\ share * A <= q * t
  BY <1>3, DivTimes
<1> HIDE DEF share
<1>5. (share * A) * P <= (q * t) * P
  BY <1>3, <1>4, TimesLeq
<1>6. (q * P) * t <= (n * A) * t
  BY <1>1, <1>2, TimesLeq
<1>7. (share * P) * A <= (n * t) * A
  <2>1. (share * A) * P = (share * P) * A /\ (q * t) * P = (q * P) * t /\ (n * A) * t = (n * t) * A
    BY <1>2, <1>4
  <2>2. (share * A) * P \in Int /\ (q * t) * P \in Int /\ (n * A) * t \in Int
    BY <1>2, <1>4
  <2> HIDE DEF q, share
  <2> QED BY <1>5, <1>6, <2>1, <2>2
<1>8. share * P <= n * t
  <2>1. share * P \in Int /\ n * t \in Int
    BY <1>4
  <2> QED BY <1>7, <2>1, CancelLeq
<1> QED BY <1>4, <1>8 DEF share, q

\* Two sums compare as their terms do, with a factor on each side.
LEMMA SumScaled ==
  ASSUME NEW f, NEW g, NEW S, IsFiniteSet(S), NEW a \in Int, NEW b \in Int,
         \A x \in S : f[x] \in Int /\ g[x] \in Int /\ f[x] * a <= g[x] * b
  PROVE  SumFunctionOnSet(f, S) * a <= SumFunctionOnSet(g, S) * b
<1> DEFINE G == {T \in SUBSET S : SumFunctionOnSet(f, T) * a <= SumFunctionOnSet(g, T) * b}
<1>1. ASSUME NEW T \in SUBSET S, \A U \in SUBSET T : U # T => U \in G
      PROVE  T \in G
  <2>1. IsFiniteSet(T)
    BY FiniteSubset
  <2>2. CASE T = {}
    BY <2>2, SumEmpty
  <2>3. CASE T # {}
    <3> DEFINE x == Pick(T)
               R == T \ {x}
               F == SumFunctionOnSet(f, R)
               H == SumFunctionOnSet(g, R)
    <3>1. x \in T /\ f[x] \in Int /\ g[x] \in Int /\ f[x] * a <= g[x] * b
      BY <2>3, PickIn
    <3>2. R \in G /\ IsFiniteSet(R)
      BY <1>1, <2>1, <3>1, FiniteSubset
    <3>3. SumFunctionOnSet(f, T) = f[x] + F /\ SumFunctionOnSet(g, T) = g[x] + H
      BY <2>1, <2>3, SumUnfold
    <3>4. F \in Int /\ H \in Int
      <4>1. \A y \in R : f[y] \in Int /\ g[y] \in Int
        OBVIOUS
      <4> HIDE DEF R
      <4> QED BY <3>2, <4>1, SumInt
    <3>5. F * a <= H * b
      BY <3>2
    <3> HIDE DEF x, R, F, H
    <3>6. (f[x] + F) * a = f[x] * a + F * a /\ (g[x] + H) * b = g[x] * b + H * b
      BY <3>1, <3>4
    <3>7. (f[x] + F) * a <= (g[x] + H) * b
      BY <3>1, <3>4, <3>5, <3>6
    <3> QED BY <3>3, <3>7
  <2> QED BY <2>2, <2>3
<1>2. \A T \in SUBSET S : T \in G
  <2> HIDE DEF G
  <2> QED BY <1>1, SubsetInduction, Zenon
<1> QED BY <1>2
-----------------------------------------------------------------------------
(* The sums. *)

\* The parts of the type invariant that most steps need.
LEMMA Typed ==
  ASSUME TypeOK, NEW m \in Miners
  PROVE  /\ snaps[m] \subseteq Snapshots /\ reward[m].orders \subseteq Orders
         /\ reward[m].total \in Int /\ reward[m].issued \in Int
         /\ \A e \in Eras : power[e] \in Nat /\ round[e].pot \in Nat /\ round[e].paid \in Int
         /\ {era, active} \subseteq Eras /\ now \in Nat
         /\ {currency, reserve, pot, reservePot, drift} \subseteq Int
BY DEF TypeOK

\* The power of a set of snapshots is a natural number.
LEMMA WeightTyped ==
  ASSUME TypeOK, Finite, NEW m \in Miners, NEW e \in Eras
  PROVE  /\ IsFiniteSet(Of(m, e)) /\ Of(m, e) \subseteq snaps[m]
         /\ Weight(m, e) \in Nat
         /\ \A s \in Of(m, e) : s.power <= Weight(m, e)
<1> DEFINE f == [s \in Of(m, e) |-> s.power]
<1>1. IsFiniteSet(Of(m, e)) /\ Of(m, e) \subseteq snaps[m]
  <2>1. IsFiniteSet(snaps[m]) /\ Of(m, e) \subseteq snaps[m]
    BY DEF Finite, Of
  <2> QED BY <2>1, FiniteSubset
<1>2. \A s \in Of(m, e) : f[s] \in Nat /\ f[s] = s.power
  BY <1>1, Typed DEF Snapshots
<1> HIDE DEF f
<1>3. SumFunctionOnSet(f, Of(m, e)) \in Nat
  BY <1>1, <1>2, SumNat
<1>4. \A s \in Of(m, e) : f[s] <= SumFunctionOnSet(f, Of(m, e))
  BY <1>1, <1>2, SumElement
<1> QED BY <1>1, <1>2, <1>3, <1>4 DEF Weight, f

\* So is that of an era.
LEMMA OutstandingTyped ==
  ASSUME TypeOK, Finite, NEW e \in Eras
  PROVE  /\ Outstanding(e) \in Nat
         /\ \A m \in Miners : Weights(e)[m] = Weight(m, e) /\ Weights(e)[m] \in Nat
         /\ \A m \in Miners : Weight(m, e) <= Outstanding(e)
<1>1. \A m \in Miners : Weights(e)[m] = Weight(m, e) /\ Weights(e)[m] \in Nat
  BY WeightTyped DEF Weights
<1>2. SumFunctionOnSet(Weights(e), Miners) \in Nat
  BY <1>1, SumNat, RewardAssumption
<1>3. \A m \in Miners : Weights(e)[m] <= SumFunctionOnSet(Weights(e), Miners)
  BY <1>1, SumElement, RewardAssumption
<1> QED BY <1>1, <1>2, <1>3 DEF Outstanding

\* The same after a step.
LEMMA WeightTypedNext ==
  ASSUME TypeOK', Finite', NEW m \in Miners, NEW e \in Eras
  PROVE  Weight(m, e)' \in Nat /\ Weights(e)'[m] = Weight(m, e)'
<1> DEFINE f == [s \in Of(m, e)' |-> s.power]
<1>1. IsFiniteSet(snaps'[m]) /\ Of(m, e)' \subseteq snaps'[m] /\ snaps'[m] \subseteq Snapshots
  BY DEF Finite, Of, TypeOK
<1>2. IsFiniteSet(Of(m, e)')
  BY <1>1, FiniteSubset
<1>3. \A s \in Of(m, e)' : f[s] \in Nat
  BY <1>1 DEF Snapshots
<1> HIDE DEF f
<1>4. SumFunctionOnSet(f, Of(m, e)') \in Nat
  BY <1>2, <1>3, SumNat
<1> QED BY <1>4 DEF Weight, Weights, f

\* When the snapshots of one miner change, its part of the sum does.
LEMMA OneMiner ==
  ASSUME TypeOK, Finite, TypeOK', Finite', NEW m \in Miners, NEW e \in Eras,
         \A n \in Miners \ {m} : snaps'[n] = snaps[n]
  PROVE  /\ Outstanding(e)' = Outstanding(e) + Weight(m, e)' - Weight(m, e)
         /\ Outstanding(e) \in Nat /\ Weight(m, e) \in Nat /\ Weight(m, e)' \in Nat
         /\ Weight(m, e) <= Outstanding(e)
<1>1. \A n \in Miners \ {m} : Weight(n, e)' = Weight(n, e)
  BY DEF Weight, Of
<1>2. \A n \in Miners : /\ Weights(e)[n] \in Int /\ Weights(e)[n] = Weight(n, e)
                        /\ Weights(e)'[n] \in Int /\ Weights(e)'[n] = Weight(n, e)'
  BY OutstandingTyped, WeightTypedNext
<1>3. \A n \in Miners \ {m} : Weights(e)[n] = Weights(e)'[n]
  BY <1>1, <1>2
<1>4. SumFunctionOnSet(Weights(e)', Miners) =
        SumFunctionOnSet(Weights(e), Miners) + Weights(e)'[m] - Weights(e)[m]
  BY <1>2, <1>3, RewardAssumption, SumChange
<1>5. Outstanding(e)' = Outstanding(e) + Weight(m, e)' - Weight(m, e)
  BY <1>2, <1>4 DEF Outstanding
<1> QED BY <1>5, OutstandingTyped, WeightTyped, WeightTypedNext

\* The share of a snapshot is at most its part of the era's reward.
LEMMA ShareOK ==
  ASSUME RewardInv, NEW m \in Miners, NEW s \in snaps[m]
  PROVE  /\ s.era \in Eras /\ Share(s) \in Nat
         /\ Share(s) * power[s.era] <= s.power * round[s.era].pot
<1>1. TypeOK /\ Finite /\ s \in Snapshots
  BY Typed DEF RewardInv
<1>2. s.era \in Eras /\ s.power \in Nat \ {0} /\ s \in Of(m, s.era)
  BY <1>1 DEF Snapshots, Of
<1>3. /\ s.power <= Weight(m, s.era) /\ Weight(m, s.era) <= Outstanding(s.era)
      /\ Weight(m, s.era) \in Nat /\ Outstanding(s.era) \in Nat
  BY <1>1, <1>2, WeightTyped, OutstandingTyped
<1>4. Outstanding(s.era) <= power[s.era]
  BY <1>2 DEF RewardInv, RoundOK
<1>5. power[s.era] \in Nat \ {0} /\ round[s.era].pot \in Nat
  BY <1>1, <1>2, <1>3, <1>4, Typed
<1> QED BY <1>2, <1>5, Proportion, RewardAssumption, Zenon DEF Share

\* So are the shares of several snapshots.
LEMMA SharesOK ==
  ASSUME RewardInv, NEW m \in Miners
  PROVE  /\ Granted(m) \in Nat
         /\ \A e \in Eras : GrantedOf(m, e) \in Nat
         /\ \A e \in Eras : e >= era => GrantedOf(m, e) = 0
         /\ \A e \in Eras : e < era =>
              GrantedOf(m, e) * power[e] <= Weight(m, e) * round[e].pot
<1>1. TypeOK /\ Finite /\ era \in Int
  BY Typed DEF RewardInv, Eras
<1>2. ASSUME NEW S \in SUBSET snaps[m]
      PROVE  Shares(S) \in Nat /\ IsFiniteSet(S)
  <2> DEFINE f == [s \in S |-> Share(s)]
  <2>1. IsFiniteSet(S)
    BY <1>1, FiniteSubset DEF Finite
  <2>2. \A s \in S : f[s] \in Nat
    BY ShareOK
  <2> HIDE DEF f
  <2>3. SumFunctionOnSet(f, S) \in Nat
    BY <2>1, <2>2, SumNat
  <2> QED BY <2>1, <2>3 DEF Shares, f
<1>3. Granted(m) \in Nat
  BY <1>2 DEF Granted, Past
<1>4. ASSUME NEW e \in Eras PROVE GrantedOf(m, e) \in Nat
  <2>1. {s \in Past(m) : s.era = e} \in SUBSET snaps[m]
    BY DEF Past
  <2> QED BY <1>2, <2>1 DEF GrantedOf
<1>5. ASSUME NEW e \in Eras, e >= era PROVE GrantedOf(m, e) = 0
  <2>1. {s \in Past(m) : s.era = e} = {}
    BY <1>1, <1>5 DEF Past, Eras
  <2> QED BY <2>1, SumEmpty, Zenon DEF GrantedOf, Shares
<1>6. ASSUME NEW e \in Eras, e < era
      PROVE  GrantedOf(m, e) * power[e] <= Weight(m, e) * round[e].pot
  <2> DEFINE f == [s \in Of(m, e) |-> Share(s)]
             g == [s \in Of(m, e) |-> s.power]
  <2>1. {s \in Past(m) : s.era = e} = Of(m, e)
    BY <1>6 DEF Past, Of
  <2>2. GrantedOf(m, e) = SumFunctionOnSet(f, Of(m, e))
    BY <2>1 DEF GrantedOf, Shares
  <2>3. Weight(m, e) = SumFunctionOnSet(g, Of(m, e))
    BY DEF Weight
  <2>4. ASSUME NEW s \in Of(m, e)
        PROVE  f[s] \in Int /\ g[s] \in Int /\ f[s] * power[e] <= g[s] * round[e].pot
    <3>1. s \in snaps[m] /\ s.era = e /\ s.power \in Nat
      BY <1>1, Typed DEF Of, Snapshots
    <3> QED BY <3>1, ShareOK
  <2>5. IsFiniteSet(Of(m, e)) /\ power[e] \in Int /\ round[e].pot \in Int
    BY <1>1, Typed, WeightTyped
  <2> HIDE DEF f, g
  <2> QED BY <2>2, <2>3, <2>4, <2>5, SumScaled, Zenon
<1> QED BY <1>3, <1>4, <1>5, <1>6
-----------------------------------------------------------------------------
(* Grants and payments. *)

\* What distribute_rewards does to one order.
LEMMA OrderPaid ==
  ASSUME now \in Nat, NEW o \in Orders
  PROVE  /\ Paid(o) \in Int /\ PaidOrder(o) \in Orders
         /\ PaidOrder(o).reward = o.reward /\ PaidOrder(o).each = o.each
         /\ o.reward = 0 /\ o.each = 0 => Paid(o) = 0
<1>1. /\ o.count \in Int /\ o.reward \in Int /\ o.each \in Int /\ o.last \in Nat
      /\ o.atonce \in BOOLEAN /\ o.era \in Eras /\ o.block \in Nat
  BY DEF Orders
<1> DEFINE d == Days(o)
           r == Release - o.count
<1>2. d \in Int /\ r \in Int
  BY <1>1, RewardAssumption DEF Days
<1>3. Parts(o) \in Int
  <2> HIDE DEF d, r
  <2>1. \E x \in {d, r} : \A y \in {d, r} : x <= y
    BY <1>2
  <2>2. Min({d, r}) \in {d, r}
    BY <2>1 DEF Min
  <2>3. Min({d, r}) \in Int
    BY <1>2, <2>2
  <2> QED BY <2>3 DEF Parts, d, r
<1>4. Paid(o) \in Int /\ (o.reward = 0 /\ o.each = 0 => Paid(o) = 0)
  <2> DEFINE q == Parts(o)
  <2>1. Paid(o) = o.each * q + (IF o.atonce THEN 0 ELSE o.reward \div 2)
    BY DEF Paid
  <2> HIDE DEF q
  <2>2. Paid(o) \in Int
    BY <1>1, <1>3, <2>1 DEF q
  <2>3. ASSUME o.reward = 0, o.each = 0 PROVE Paid(o) = 0
    <3>1. 0 * q = 0 /\ 0 \div 2 = 0
      BY <1>3 DEF q
    <3> QED BY <2>1, <2>3, <3>1
  <2> QED BY <2>2, <2>3
<1>5. /\ PaidOrder(o) \in Orders
      /\ PaidOrder(o).reward = o.reward /\ PaidOrder(o).each = o.each
  <2> DEFINE c == o.count + Parts(o)
             l == IF Parts(o) > 0 THEN now ELSE o.last
  <2>1. c \in Int /\ l \in Nat
    BY <1>1, <1>3
  <2>2. PaidOrder(o) = [o EXCEPT !.count = c, !.atonce = TRUE, !.last = l]
    BY DEF PaidOrder
  <2> HIDE DEF c, l
  <2> QED BY <2>1, <2>2, Zenon DEF Orders
<1> QED BY <1>4, <1>5

Rewards == [total : Int, issued : Int, orders : SUBSET Orders]

\* What it does to the reward of a miner.
LEMMA DistributedTyped ==
  ASSUME now \in Nat, NEW r \in Rewards, IsFiniteSet(r.orders)
  PROVE  /\ Sent(r) \in Int
         /\ Distributed(r) \in Rewards /\ IsFiniteSet(Distributed(r).orders)
         /\ Distributed(r).total = r.total /\ Distributed(r).issued = r.issued + Sent(r)
<1> DEFINE S == r.orders
           f == [o \in S |-> Paid(o)]
           g == [o \in S |-> PaidOrder(o)]
           T == {g[o] : o \in S}
           U == {o \in T : o.count # Release}
<1>1. S \subseteq Orders /\ r.issued \in Int /\ r.total \in Int
  BY DEF Rewards
<1>2. \A o \in S : f[o] \in Int /\ g[o] \in Orders
  BY <1>1, OrderPaid
<1>3. Sent(r) = SumFunctionOnSet(f, S)
  BY DEF Sent
<1>4. Sent(r) \in Int
  <2> HIDE DEF S, f
  <2>1. SumFunctionOnSet(f, S) \in Int
    BY <1>2, SumInt, Zenon DEF S
  <2> QED BY <1>3, <2>1
<1>5. T \subseteq Orders /\ IsFiniteSet(T)
  <2>1. T \subseteq Orders
    BY <1>2, Zenon
  <2> HIDE DEF g
  <2>2. IsFiniteSet(T)
    BY FiniteImage
  <2> QED BY <2>1, <2>2
<1>6. U \subseteq Orders /\ IsFiniteSet(U)
  <2> HIDE DEF T
  <2>1. U \subseteq T
    OBVIOUS
  <2> QED BY <1>5, <2>1, FiniteSubset
<1> DEFINE n == r.issued + Sent(r)
<1>7. Distributed(r) = [r EXCEPT !.issued = n, !.orders = U]
  <2>1. U = {o \in {PaidOrder(o) : o \in r.orders} : o.count # Release}
    BY Zenon
  <2> QED BY <2>1, Zenon DEF Distributed
<1>8. n \in Int
  BY <1>1, <1>4
<1> HIDE DEF U, n
<1>9. /\ Distributed(r).total = r.total /\ Distributed(r).issued = n
      /\ Distributed(r).orders = U /\ Distributed(r) \in Rewards
  BY <1>6, <1>7, <1>8, Zenon DEF Rewards
<1> QED BY <1>4, <1>6, <1>9 DEF n

\* What calculate_miner_reward does to it.
LEMMA CalculatedTyped ==
  ASSUME RewardInv, NEW m \in Miners
  PROVE  /\ Calculated(m) \in Rewards /\ IsFiniteSet(Calculated(m).orders)
         /\ Calculated(m).issued = reward[m].issued
         /\ Calculated(m).total = reward[m].total + (IF Full(m) THEN 0 ELSE Granted(m))
<1>1. TypeOK /\ Finite /\ reward[m] \in Rewards /\ IsFiniteSet(reward[m].orders)
  BY DEF RewardInv, TypeOK, Rewards, Finite
<1>2. CASE Full(m)
  BY <1>1, <1>2 DEF Calculated, Rewards
<1>3. CASE ~Full(m)
  <2> DEFINE g == [s \in Past(m) |-> Order(s)]
             T == {g[s] : s \in Past(m)}
             U == reward[m].orders \cup T
  <2>1. Past(m) \subseteq snaps[m] /\ IsFiniteSet(Past(m)) /\ snaps[m] \subseteq Snapshots
    <3>1. Past(m) \subseteq snaps[m] /\ IsFiniteSet(snaps[m]) /\ snaps[m] \subseteq Snapshots
      BY <1>1, Typed DEF Past, Finite
    <3> QED BY <3>1, FiniteSubset
  <2>2. ASSUME NEW s \in Past(m) PROVE g[s] \in Orders
    <3>1. s.era \in Eras /\ s.block \in Nat /\ Share(s) \in Nat
      BY <2>1, ShareOK DEF Snapshots
    <3>2. (Share(s) \div 2) \div Release \in Int
      BY <3>1, RewardAssumption
    <3> QED BY <3>1, <3>2 DEF Order, Orders
  <2>3. T \subseteq Orders
    BY <2>2
  <2>4. IsFiniteSet(T)
    <3> HIDE DEF g
    <3> QED BY <2>1, FiniteImage
  <2> DEFINE t == reward[m].total + Granted(m)
  <2>5. Calculated(m) = [reward[m] EXCEPT !.total = t, !.orders = U]
    BY <1>3, Zenon DEF Calculated
  <2> HIDE DEF T
  <2>6. IsFiniteSet(U)
    BY <1>1, <2>4, FiniteUnion
  <2>7. t \in Int /\ U \subseteq Orders
    BY <1>1, <2>3, SharesOK DEF Rewards
  <2> HIDE DEF t, U
  <2>8. /\ Calculated(m) \in Rewards /\ Calculated(m).orders = U
        /\ Calculated(m).issued = reward[m].issued /\ Calculated(m).total = t
    BY <1>1, <2>5, <2>7, Zenon DEF Rewards
  <2> QED BY <1>3, <2>6, <2>8 DEF t
<1> QED BY <1>2, <1>3

\* Both together.
LEMMA SettledTyped ==
  ASSUME RewardInv, NEW m \in Miners
  PROVE  /\ Sent(Calculated(m)) \in Int /\ Granted(m) \in Nat
         /\ Settled(m) \in Rewards /\ IsFiniteSet(Settled(m).orders)
         /\ Settled(m).total - Settled(m).issued =
              reward[m].total - reward[m].issued
                + (IF Full(m) THEN 0 ELSE Granted(m)) - Sent(Calculated(m))
<1>1. now \in Nat /\ reward[m].total \in Int /\ reward[m].issued \in Int
  BY Typed DEF RewardInv
<1>2. /\ Calculated(m) \in Rewards /\ IsFiniteSet(Calculated(m).orders)
      /\ Calculated(m).issued = reward[m].issued
      /\ Calculated(m).total = reward[m].total + (IF Full(m) THEN 0 ELSE Granted(m))
  BY CalculatedTyped
<1>3. Granted(m) \in Nat
  BY SharesOK
<1> DEFINE c == Calculated(m)
<1>4. /\ Sent(c) \in Int
      /\ Distributed(c) \in Rewards /\ IsFiniteSet(Distributed(c).orders)
      /\ Distributed(c).total = c.total /\ Distributed(c).issued = c.issued + Sent(c)
  <2> HIDE DEF c
  <2> QED BY <1>1, <1>2, DistributedTyped DEF c
<1> HIDE DEF c
<1> QED BY <1>1, <1>2, <1>3, <1>4 DEF Settled, c

\* A reward of nothing stays one until something is granted.
LEMMA BlankSettled ==
  ASSUME RewardInv, NEW m \in Miners
  PROVE  Blank(Settled(m))
<1> DEFINE c == Calculated(m)
<1>1. /\ now \in Nat /\ reward[m].total \in Nat /\ Granted(m) \in Nat /\ Blank(reward[m])
      /\ c \in Rewards /\ IsFiniteSet(c.orders) /\ c.issued = reward[m].issued
      /\ c.total = reward[m].total + (IF Full(m) THEN 0 ELSE Granted(m))
  <2>1. TypeOK /\ Blank(reward[m])
    BY Zenon DEF RewardInv
  <2>2. reward[m].total \in Int /\ now \in Nat
    BY <2>1, Typed, Zenon
  <2>3. reward[m].total \in Nat
    BY <2>1, <2>2, NotBelowZero, Zenon DEF Blank
  <2> QED BY <2>1, <2>2, <2>3, SharesOK, CalculatedTyped, Zenon
<1>2. c.total >= 0
  BY <1>1
<1>3. ASSUME c.total = 0, NEW o \in c.orders
      PROVE  o.reward = 0 /\ o.each = 0
  <2>1. reward[m].total = 0 /\ (Full(m) \/ Granted(m) = 0)
    BY <1>1, <1>3
  <2>2. \A x \in reward[m].orders : x.reward = 0 /\ x.each = 0
    BY <1>1, <2>1 DEF Blank
  <2>3. CASE Full(m)
    BY <1>3, <2>2, <2>3 DEF Calculated
  <2>4. CASE ~Full(m)
    <3> DEFINE f == [s \in Past(m) |-> Share(s)]
    <3>1. c.orders = reward[m].orders \cup {Order(s) : s \in Past(m)}
      <4>1. reward[m] \in Rewards
        BY DEF RewardInv, TypeOK, Rewards
      <4> QED BY <2>4, <4>1 DEF Calculated, Rewards
    <3>2. CASE o \in reward[m].orders
      BY <2>2, <3>2, Zenon
    <3>3. CASE o \notin reward[m].orders
      <4>1. PICK s \in Past(m) : o = Order(s)
        BY <1>3, <3>1, <3>3
      <4>2. Past(m) \subseteq snaps[m] /\ IsFiniteSet(snaps[m])
        BY DEF Past, RewardInv, Finite
      <4>3. IsFiniteSet(Past(m)) /\ \A x \in Past(m) : f[x] = Share(x) /\ f[x] \in Nat
        BY <4>2, FiniteSubset, ShareOK
      <4>4. SumFunctionOnSet(f, Past(m)) = 0
        BY <2>1, <2>4 DEF Granted, Shares
      <4> HIDE DEF f
      <4>5. f[s] <= 0
        BY <4>3, <4>4, SumElement
      <4>6. Share(s) = 0
        BY <4>3, <4>5
      <4>7. (Share(s) \div 2) \div Release = 0
        BY <4>6, RewardAssumption
      <4> QED BY <4>1, <4>6, <4>7 DEF Order
    <3> QED BY <3>2, <3>3
  <2> QED BY <2>3, <2>4, Zenon
<1>4. c.total = 0 => c.issued = 0
  BY <1>1 DEF Blank
<1>5. /\ Settled(m).total = c.total /\ Settled(m).issued = c.issued + Sent(c)
      /\ Sent(c) \in Int /\ Settled(m) = Distributed(c)
  <2> HIDE DEF c
  <2> QED BY <1>1, DistributedTyped, Zenon DEF Settled, c
<1> HIDE DEF c
<1>6. \A o \in c.orders : o \in Orders
  BY <1>1, Zenon DEF Rewards
<1>7. ASSUME c.total = 0 PROVE Sent(c) = 0
  <2> DEFINE f == [o \in c.orders |-> Paid(o)]
  <2>1. \A o \in c.orders : f[o] = 0
    BY <1>1, <1>3, <1>6, <1>7, OrderPaid, Zenon
  <2> HIDE DEF f
  <2>2. SumFunctionOnSet(f, c.orders) = 0
    BY <1>1, <2>1, SumZero
  <2> QED BY <2>2 DEF Sent, f
<1>8. ASSUME c.total = 0, NEW o \in Settled(m).orders
      PROVE  o.reward = 0 /\ o.each = 0
  <2>1. PICK x \in c.orders : o = PaidOrder(x)
    BY <1>1, <1>5, <1>8 DEF Distributed, Rewards
  <2> QED BY <1>1, <1>3, <1>6, <1>8, <2>1, OrderPaid
<1>9. ASSUME Settled(m).total = 0 PROVE Settled(m).issued = 0
  <2>1. c.issued = 0 /\ Sent(c) = 0
    BY <1>4, <1>5, <1>7, <1>9, Zenon
  <2> QED BY <1>5, <2>1, PlusZero, Zenon
<1> QED BY <1>2, <1>5, <1>8, <1>9, Zenon DEF Blank
-----------------------------------------------------------------------------
(* The steps. *)

\* An era without power has granted nothing.
LEMMA NoPower ==
  ASSUME RewardInv, NEW m \in Miners, NEW e \in Eras, power[e] = 0
  PROVE  GrantedOf(m, e) = 0
<1>1. TypeOK /\ Finite
  BY DEF RewardInv
<1>2. Outstanding(e) = 0
  BY <1>1, OutstandingTyped DEF RewardInv, RoundOK
<1>3. Weight(m, e) = 0
  BY <1>1, <1>2, OutstandingTyped, WeightTyped
<1>4. ASSUME NEW s \in Of(m, e) PROVE FALSE
  <2>1. s.power <= 0
    BY <1>1, <1>3, WeightTyped
  <2>2. s \in Snapshots
    BY <1>1, Typed DEF Of
  <2> QED BY <2>1, <2>2 DEF Snapshots
<1>5. {s \in Past(m) : s.era = e} = {}
  BY <1>4 DEF Past, Of
<1> QED BY <1>5, SumEmpty DEF GrantedOf, Shares

\* A miner's snapshots of an era become orders, or are dropped.
LEMMA RoundSettled ==
  ASSUME RewardInv, TypeOK', Finite', era' = era, power' = power, NEW m \in Miners,
         \A n \in Miners \ {m} : snaps'[n] = snaps[n],
         NEW e \in Eras, round'[e].pot = round[e].pot,
         \/ /\ e < era /\ Of(m, e)' = {}
            /\ round'[e].paid = round[e].paid + GrantedOf(m, e)
         \/ round'[e].paid = round[e].paid /\ Of(m, e)' \in {Of(m, e), {}}
  PROVE  RoundOK(e)'
<1> DEFINE P == power[e]
           t == round[e].pot
           a == round[e].paid
           a2 == round'[e].paid
           g == GrantedOf(m, e)
           w == Weight(m, e)
           w2 == Weight(m, e)'
           o == Outstanding(e)
           o2 == Outstanding(e)'
<1>1. TypeOK /\ Finite
  BY Zenon DEF RewardInv
<1>2. /\ o2 = o + w2 - w /\ o \in Nat /\ w \in Nat /\ w2 \in Nat /\ w <= o
  BY <1>1, OneMiner, Zenon
<1>3. P \in Nat /\ t \in Nat /\ a \in Int /\ g \in Nat
  BY <1>1, Typed, SharesOK, Zenon
<1>4. /\ o <= P /\ a * P + o * t <= P * t
      /\ e >= era => a = 0
      /\ P = 0 => a = 0
  BY Zenon DEF RewardInv, RoundOK
<1>5. Of(m, e)' = {} => w2 = 0
  BY SumEmpty DEF Weight
<1>6. Of(m, e)' = Of(m, e) => w2 = w
  BY Zenon DEF Weight
<1>7. /\ o2 \in Int /\ a2 \in Int /\ o2 <= P /\ a2 * P + o2 * t <= P * t
      /\ e >= era => a2 = 0
      /\ P = 0 => a2 = 0
  <2>1. CASE e < era /\ Of(m, e)' = {} /\ a2 = a + g
    <3>1. g * P <= w * t
      BY <2>1, SharesOK, Zenon
    <3>2. w2 = 0
      BY <1>5, <2>1, Zenon
    <3>3. P = 0 => g = 0
      BY NoPower
    <3>4. era \in Int /\ e \in Int
      BY <1>1, Typed DEF Eras
    <3> HIDE DEF P, t, a, a2, g, w, w2, o, o2
    <3>5. o2 = o - w /\ o2 \in Int /\ a2 \in Int /\ o2 <= P
      BY <1>2, <1>3, <1>4, <2>1, <3>2
    <3>6. (a + g) * P = a * P + g * P /\ (o - w) * t = o * t - w * t
      BY <1>2, <1>3
    <3>7. {a * P, g * P, o * t, w * t, P * t} \subseteq Int
      BY <1>2, <1>3
    <3>8. a2 * P + o2 * t <= P * t
      BY <1>4, <2>1, <3>1, <3>5, <3>6, <3>7
    <3> QED BY <1>3, <1>4, <2>1, <3>3, <3>4, <3>5, <3>8
  <2>2. CASE a2 = a /\ w2 = w
    <3> HIDE DEF P, t, a, a2, g, w, w2, o, o2
    <3>1. o2 = o
      BY <1>2, <2>2
    <3> QED BY <1>2, <1>3, <1>4, <2>2, <3>1
  <2>3. CASE a2 = a /\ w2 = 0
    <3> HIDE DEF P, t, a, a2, g, w, w2, o, o2
    <3>1. o2 \in Int /\ o2 <= o
      BY <1>2, <2>3
    <3>2. o2 * t <= o * t
      BY <1>2, <1>3, <3>1, TimesLeq
    <3>3. {a * P, o2 * t, o * t, P * t} \subseteq Int
      BY <1>2, <1>3, <3>1
    <3>4. a * P + o2 * t <= P * t
      BY <1>4, <3>2, <3>3
    <3> QED BY <1>2, <1>3, <1>4, <2>3, <3>1, <3>4
  <2> QED BY <1>5, <1>6, <2>1, <2>2, <2>3, Zenon
<1>8. power'[e] = P /\ round'[e].pot = t /\ era' = era
  BY Zenon
<1> HIDE DEF P, t, a, g, w, w2, o
<1> QED BY <1>7, <1>8 DEF RoundOK, a2, o2

\* Steps that touch no snapshot, power or round.
LEMMA RoundsSame ==
  ASSUME RewardInv, UNCHANGED <<snaps, power, round>>, era' \in {era, era + 1}
  PROVE  \A e \in Eras : RoundOK(e)'
<1>1. era \in Int /\ Eras \subseteq Int
  BY Typed DEF RewardInv, TypeOK, Eras
<1>2. \A e \in Eras : Outstanding(e)' = Outstanding(e)
  BY DEF Outstanding, Weights, Weight, Of
<1>3. \A e \in Eras : e >= era' => e >= era
  BY <1>1
<1> QED BY <1>2, <1>3 DEF RewardInv, RoundOK

\* What an account of the treasury moves by is what the reward of one miner does.
LEMMA PoolStep ==
  ASSUME RewardInv, TypeOK', NEW m \in Miners,
         \A n \in Miners \ {m} : reward'[n] = reward[n],
         pot' + drift' - currency' - (reward'[m].total - reward'[m].issued) =
           pot + drift - currency - (reward[m].total - reward[m].issued)
  PROVE  pot' + drift' = currency' + SumFunctionOnSet(Owed', Miners)
<1> DEFINE f == Owed
           g == Owed'
<1>1. /\ \A n \in Miners : f[n] \in Int /\ g[n] \in Int
      /\ \A n \in Miners \ {m} : f[n] = g[n]
      /\ f[m] = reward[m].total - reward[m].issued /\ g[m] = reward'[m].total - reward'[m].issued
  BY DEF RewardInv, TypeOK, Owed
<1>2. /\ {currency, reserve, pot, reservePot, drift} \subseteq Int
      /\ {currency', reserve', pot', reservePot', drift'} \subseteq Int
  BY DEF RewardInv, TypeOK
<1>3. pot + drift = currency + SumFunctionOnSet(f, Miners)
  BY Zenon DEF RewardInv, PoolCovered
<1> HIDE DEF f, g
<1>4. SumFunctionOnSet(f, Miners) \in Int
  BY <1>1, SumInt, RewardAssumption, Zenon
<1>5. SumFunctionOnSet(g, Miners) = SumFunctionOnSet(f, Miners) + g[m] - f[m]
  BY <1>1, SumChange, RewardAssumption
<1>6. pot' + drift' = currency' + SumFunctionOnSet(g, Miners)
  BY <1>1, <1>2, <1>3, <1>4, <1>5
<1> QED BY <1>6, Zenon DEF g

\* An era ends and is paid for.
LEMMA EraEnds ==
  ASSUME RewardInv, end_era
  PROVE  RewardInv'
<1>1. /\ active' = era /\ pot' = pot + EraPayout /\ currency' = currency + EraPayout
      /\ round' = [round EXCEPT ![era].pot = @ + EraPayout]
      /\ UNCHANGED <<now, era, snaps, power, reward, gone, drift, reserve, reservePot>>
  BY DEF end_era, add_miner_reward_pool
<1>2. TypeOK /\ Finite /\ PoolCovered /\ EraPayout \in Nat
  BY RewardAssumption DEF RewardInv
<1> DEFINE R == [pot : Nat, paid : Int]
<1>3. round \in [Eras -> R] /\ era \in Eras
  BY <1>2 DEF TypeOK
<1>4. /\ round[era].pot + EraPayout \in Nat /\ round' \in [Eras -> R]
      /\ \A e \in Eras \ {era} : round'[e] = round[e]
      /\ round'[era].paid = round[era].paid /\ round'[era].pot \in Nat
  <2>1. round[era] \in R /\ round[era].pot + EraPayout \in Nat
    BY <1>2, <1>3
  <2> DEFINE x == [round[era] EXCEPT !.pot = @ + EraPayout]
  <2>2. x \in R /\ x.paid = round[era].paid /\ x.pot \in Nat
    BY <2>1
  <2>3. round' = [round EXCEPT ![era] = x]
    BY <1>1
  <2> HIDE DEF x, R
  <2>4. round'[era] = x
    BY <1>3, <2>3
  <2> QED BY <1>3, <2>1, <2>2, <2>3, <2>4
<1>5. TypeOK'
  <2>1. {currency', reserve', pot', reservePot', drift'} \subseteq Int
    BY <1>1, <1>2 DEF TypeOK
  <2> QED BY <1>1, <1>2, <1>4, <2>1 DEF TypeOK
<1>6. Finite'
  BY <1>1, <1>2 DEF Finite
<1>7. PoolCovered'
  <2>1. Owed' = Owed /\ \A m \in Miners : Owed[m] \in Int
    BY <1>1, <1>2 DEF Owed, TypeOK
  <2>2. SumFunctionOnSet(Owed, Miners) \in Int
    BY <2>1, SumInt, RewardAssumption, Zenon
  <2>3. pot \in Int /\ drift \in Int /\ currency \in Int
    BY <1>2 DEF TypeOK
  <2> QED BY <1>1, <1>2, <2>1, <2>2, <2>3 DEF PoolCovered
<1>8. ASSUME NEW e \in Eras PROVE RoundOK(e)'
  <2>1. Outstanding(e)' = Outstanding(e)
    BY <1>1 DEF Outstanding, Weights, Weight, Of
  <2>2. RoundOK(e)
    BY DEF RewardInv
  <2>3. CASE e # era
    BY <1>1, <1>4, <2>1, <2>2, <2>3 DEF RoundOK
  <2>4. CASE e = era
    <3>1. round'[e].paid = 0 /\ era \in Int
      BY <1>2, <1>4, <2>2, <2>4 DEF RoundOK, TypeOK, Eras
    <3>2. /\ Outstanding(e) \in Nat /\ power[e] \in Nat /\ Outstanding(e) <= power[e]
          /\ round'[e].pot \in Nat
      BY <1>2, <1>4, <2>2, <2>4, OutstandingTyped, Zenon DEF RoundOK, TypeOK
    <3>3. Outstanding(e) * round'[e].pot <= power[e] * round'[e].pot
      BY <3>2, TimesLeq
    <3>4. round'[e].paid * power[e] = 0 /\ Outstanding(e) * round'[e].pot \in Int
      BY <3>1, <3>2
    <3>5. round'[e].paid * power[e] + Outstanding(e) * round'[e].pot <= power[e] * round'[e].pot
      BY <3>3, <3>4
    <3> QED BY <1>1, <2>1, <3>1, <3>2, <3>5, Zenon DEF RoundOK
  <2> QED BY <2>3, <2>4
<1>9. \A n \in Miners : Blank(reward'[n])
  BY <1>1, Zenon DEF RewardInv
<1> QED BY <1>5, <1>6, <1>7, <1>8, <1>9 DEF RewardInv

\* A completed challenge adds its power to the era and to what is outstanding.
LEMMA Recorded ==
  ASSUME RewardInv, NEW m \in Miners, NEW p \in Powers, record_snap_shot(m, p)
  PROVE  RewardInv'
<1> DEFINE x == [era |-> era, power |-> p, block |-> now]
<1>1. /\ \A s \in snaps[m] : s.block # now
      /\ snaps' = [snaps EXCEPT ![m] = @ \cup {x}]
      /\ power' = [power EXCEPT ![era] = power[era] + p]
      /\ UNCHANGED <<now, era, active, round, reward, gone, drift, treasury>>
  BY Zenon DEF record_snap_shot, RecordedPower
<1>2. /\ TypeOK /\ Finite /\ PoolCovered /\ p \in Nat \ {0}
      /\ era \in Eras /\ now \in Nat /\ power[era] \in Nat
  BY RewardAssumption, Zenon DEF RewardInv, TypeOK
<1>3. x \in Snapshots /\ x \notin snaps[m] /\ x.era = era /\ x.power = p
  BY <1>1, <1>2, Zenon DEF Snapshots
<1> HIDE DEF x
<1>4. /\ snaps'[m] = snaps[m] \cup {x} /\ power'[era] = power[era] + p
      /\ \A n \in Miners \ {m} : snaps'[n] = snaps[n]
      /\ \A e \in Eras \ {era} : power'[e] = power[e]
  BY <1>1, <1>2, Zenon DEF TypeOK
<1>5. TypeOK'
  <2>1. snaps' \in [Miners -> SUBSET Snapshots]
    BY <1>1, <1>2, <1>3, Zenon DEF TypeOK
  <2>2. power' \in [Eras -> Nat]
    BY <1>1, <1>2 DEF TypeOK
  <2> QED BY <1>1, <1>2, <2>1, <2>2, Zenon DEF TypeOK, treasury
<1>6. Finite'
  <2>1. IsFiniteSet(snaps'[m])
    <3>1. IsFiniteSet(snaps[m])
      BY <1>2 DEF Finite
    <3>2. IsFiniteSet(snaps[m] \cup {x})
      BY <3>1, FiniteAdd, Zenon
    <3> QED BY <1>4, <3>2, Zenon
  <2> QED BY <1>1, <1>2, <1>4, <2>1, Zenon DEF Finite
<1>7. PoolCovered'
  BY <1>1, <1>2 DEF PoolCovered, Owed, treasury
<1>8. ASSUME NEW e \in Eras PROVE RoundOK(e)'
  <2>1. /\ Outstanding(e)' = Outstanding(e) + Weight(m, e)' - Weight(m, e)
        /\ Outstanding(e) \in Nat /\ Weight(m, e) \in Nat /\ Weight(m, e)' \in Nat
    BY <1>2, <1>4, <1>5, <1>6, OneMiner
  <2>2. RoundOK(e)
    BY Zenon DEF RewardInv
  <2>3. CASE e # era
    <3>1. Of(m, e)' = Of(m, e)
      BY <1>3, <1>4, <2>3 DEF Of
    <3>2. Weight(m, e)' = Weight(m, e)
      BY <3>1 DEF Weight
    <3>3. Outstanding(e)' = Outstanding(e)
      BY <2>1, <3>2, MinusSame, Zenon
    <3> QED BY <1>1, <1>4, <2>2, <2>3, <3>3, Zenon DEF RoundOK
  <2>4. CASE e = era
    <3> DEFINE S == Of(m, e)
               f == [s \in S |-> s.power]
               g == [s \in S \cup {x} |-> s.power]
    <3>1. Of(m, e)' = S \cup {x} /\ x \notin S
      BY <1>3, <1>4, <2>4 DEF Of
    <3>2. Weight(m, e)' = SumFunctionOnSet(g, S \cup {x}) /\ Weight(m, e) = SumFunctionOnSet(f, S)
      BY <3>1, Zenon DEF Weight
    <3>3. IsFiniteSet(S) /\ S \subseteq Snapshots
      BY <1>2, WeightTyped, Typed, Zenon
    <3>4. /\ \A s \in S \cup {x} : g[s] \in Int
          /\ \A s \in S : f[s] = g[s]
          /\ g[x] = p
      BY <1>3, <3>3 DEF Snapshots
    <3> HIDE DEF S, f, g
    <3>5. SumFunctionOnSet(g, S \cup {x}) = p + SumFunctionOnSet(g, S)
      BY <3>1, <3>3, <3>4, SumAdd, Zenon
    <3>6. SumFunctionOnSet(f, S) = SumFunctionOnSet(g, S)
      BY <3>3, <3>4, SumSame
    <3>7. Weight(m, e)' = p + Weight(m, e)
      BY <3>2, <3>5, <3>6, Zenon
    <3>8. /\ Outstanding(e)' = Outstanding(e) + p /\ Outstanding(e) <= power[e]
          /\ round[e].paid = 0 /\ power'[e] = power[e] + p /\ power[e] \in Nat
          /\ round[e].pot \in Nat
      <4>1. Outstanding(e)' = Outstanding(e) + p
        BY <1>2, <2>1, <3>7
      <4>2. Outstanding(e) <= power[e] /\ round[e].paid = 0
        BY <2>2, <2>4 DEF RoundOK, Eras
      <4> QED BY <1>2, <1>4, <2>4, <4>1, <4>2, Typed, Zenon
    <3>9. Outstanding(e)' \in Nat /\ power'[e] \in Nat /\ Outstanding(e)' <= power'[e]
      BY <1>2, <2>1, <3>8
    <3>10. Outstanding(e)' * round[e].pot <= power'[e] * round[e].pot
      BY <3>8, <3>9, TimesLeq
    <3>11. round[e].paid * power'[e] = 0 /\ Outstanding(e)' * round[e].pot \in Int
      BY <3>8, <3>9
    <3>12. round[e].paid * power'[e] + Outstanding(e)' * round[e].pot <= power'[e] * round[e].pot
      BY <3>10, <3>11
    <3> QED BY <1>1, <3>8, <3>9, <3>12, Zenon DEF RoundOK
  <2> QED BY <2>3, <2>4, Zenon
<1>9. \A n \in Miners : Blank(reward'[n])
  BY <1>1, Zenon DEF RewardInv
<1> QED BY <1>5, <1>6, <1>7, <1>8, <1>9 DEF RewardInv

\* What a calculation followed by a distribution does to the pools and rounds.
LEMMA SettleStep ==
  ASSUME RewardInv, NEW m \in Miners, NEW more \in Int, Settle(m, more)
  PROVE  /\ currency' \in Int /\ reserve' \in Int /\ pot' \in Int /\ reservePot' = reserve'
         /\ \E k \in Int :
              /\ currency' = currency + k + more
              /\ pot' = pot + k + ((IF Full(m) THEN 0 ELSE Granted(m)) - Sent(Calculated(m)))
         /\ round' \in [Eras -> [pot : Nat, paid : Int]]
         /\ \A e \in Eras : /\ round'[e].pot = round[e].pot
                            /\ round'[e].paid = round[e].paid + GrantedOf(m, e)
<1> DEFINE G == Granted(m)
           t == IF Full(m) THEN G ELSE 0
           f == IF Short(m) THEN G ELSE 0
           n == Sent(Calculated(m))
           R == [pot : Nat, paid : Int]
<1>1. /\ currency' = currency + f - G + more
      /\ reserve' = reserve + t - f
      /\ reservePot' = reservePot + t - f
      /\ pot' = pot - t + f - n
      /\ round' = [e \in Eras |-> [round[e] EXCEPT !.paid = @ + GrantedOf(m, e)]]
  BY Zenon DEF Settle
<1>2. G \in Nat /\ G \in Int /\ n \in Int /\ \A e \in Eras : GrantedOf(m, e) \in Nat
  BY SettledTyped, SharesOK
<1>3. t \in Int /\ f \in Int /\ G - t = (IF Full(m) THEN 0 ELSE G)
  BY <1>2, Remainder, Zenon
<1>4. /\ currency \in Int /\ reserve \in Int /\ pot \in Int
      /\ reservePot = reserve /\ round \in [Eras -> R]
  BY Zenon DEF RewardInv, TypeOK, PoolCovered
<1> HIDE DEF G, t, f, n, R
<1>5. currency' \in Int /\ reserve' \in Int /\ pot' \in Int
  BY <1>1, <1>2, <1>3, <1>4 DEF G
<1>6. reservePot' = reserve'
  BY <1>1, <1>4
<1>7. \E k \in Int : /\ currency' = currency + k + more
                    /\ pot' = pot + k + ((G - t) - n)
  <2>1. f - G \in Int
    BY <1>2, <1>3
  <2>2. currency' = currency + (f - G) + more /\ pot' = pot + (f - G) + ((G - t) - n)
    <3>1. pot' = pot - t + f - n /\ currency' = currency + (f - G) + more
      BY <1>1, Zenon
    <3>2. pot \in Int /\ t \in Int /\ f \in Int /\ n \in Int /\ G \in Int
      BY <1>2, <1>3, <1>4, Zenon
    <3> QED
      BY <3>1, <3>2
  <2> QED BY <2>1, <2>2, Zenon
<1>8. ASSUME NEW e \in Eras
      PROVE  /\ round'[e] \in R /\ round'[e].pot = round[e].pot
             /\ round'[e].paid = round[e].paid + GrantedOf(m, e)
  <2> DEFINE x == round[e].paid + GrantedOf(m, e)
  <2>1. round[e] \in R /\ x \in Int
    BY <1>2, <1>4 DEF R
  <2>2. round'[e] = [round[e] EXCEPT !.paid = x]
    BY <1>1
  <2> HIDE DEF x
  <2>3. round'[e] \in R /\ round'[e].pot = round[e].pot /\ round'[e].paid = x
    BY <2>1, <2>2 DEF R
  <2> QED BY <2>3 DEF x
<1>9. round' \in [Eras -> R]
  <2>1. round' = [e \in Eras |-> round'[e]]
    BY <1>1, Zenon
  <2> QED BY <1>8, <2>1
<1> QED BY <1>3, <1>5, <1>6, <1>7, <1>8, <1>9 DEF G, n, R

\* A miner asks for its reward.
LEMMA Received ==
  ASSUME RewardInv, NEW m \in Miners, receive_reward(m)
  PROVE  RewardInv'
<1>1. /\ Settle(m, 0)
      /\ reward' = [reward EXCEPT ![m] = Settled(m)]
      /\ snaps' = [snaps EXCEPT ![m] = @ \ Past(m)]
      /\ UNCHANGED <<now, era, active, power, gone, drift>>
  BY DEF receive_reward
<1>2. TypeOK /\ Finite /\ \A n \in Miners : Blank(reward[n])
  BY Zenon DEF RewardInv
<1>3. /\ currency' \in Int /\ reserve' \in Int /\ pot' \in Int /\ reservePot' = reserve'
      /\ \E k \in Int :
           /\ currency' = currency + k + 0
           /\ pot' = pot + k + ((IF Full(m) THEN 0 ELSE Granted(m)) - Sent(Calculated(m)))
      /\ round' \in [Eras -> [pot : Nat, paid : Int]]
      /\ \A e \in Eras : /\ round'[e].pot = round[e].pot
                         /\ round'[e].paid = round[e].paid + GrantedOf(m, e)
  <2>1. 0 \in Int
    OBVIOUS
  <2> QED BY <1>1, <2>1, SettleStep, Zenon
<1>4. /\ Sent(Calculated(m)) \in Int /\ Granted(m) \in Nat
      /\ Settled(m) \in Rewards /\ IsFiniteSet(Settled(m).orders) /\ Blank(Settled(m))
      /\ Settled(m).total - Settled(m).issued =
           reward[m].total - reward[m].issued
             + (IF Full(m) THEN 0 ELSE Granted(m)) - Sent(Calculated(m))
  BY SettledTyped, BlankSettled, Zenon
<1>5. /\ reward'[m] = Settled(m) /\ snaps'[m] = snaps[m] \ Past(m)
      /\ \A n \in Miners \ {m} : reward'[n] = reward[n] /\ snaps'[n] = snaps[n]
  BY <1>1, <1>2, Zenon DEF TypeOK
<1>6. TypeOK'
  <2>1. snaps' \in [Miners -> SUBSET Snapshots]
    BY <1>1, <1>2, Zenon DEF TypeOK
  <2>2. reward' \in [Miners -> Rewards]
    BY <1>1, <1>2, <1>4, Zenon DEF TypeOK, Rewards
  <2>3. now' \in Nat /\ era' \in Eras /\ active' \in Eras /\ power' \in [Eras -> Nat]
    BY <1>1, <1>2, Zenon DEF TypeOK
  <2>4. drift' \in Int /\ gone' \subseteq Miners
    BY <1>1, <1>2, Zenon DEF TypeOK
  <2> QED BY <1>3, <2>1, <2>2, <2>3, <2>4, Zenon DEF TypeOK, Rewards
<1>7. Finite'
  <2>1. IsFiniteSet(snaps'[m])
    <3>1. IsFiniteSet(snaps[m]) /\ snaps'[m] \subseteq snaps[m]
      BY <1>2, <1>5, Zenon DEF Finite
    <3> QED BY <3>1, FiniteSubset, Zenon
  <2> QED BY <1>2, <1>4, <1>5, <2>1, Zenon DEF Finite
<1>8. PoolCovered'
  <2> DEFINE x == (IF Full(m) THEN 0 ELSE Granted(m)) - Sent(Calculated(m))
             y == reward[m].total - reward[m].issued
  <2>1. /\ x \in Int /\ pot \in Int /\ currency \in Int /\ drift \in Int /\ drift' = drift
        /\ y \in Int
    <3>1. x \in Int
      BY <1>4
    <3>2. /\ pot \in Int /\ currency \in Int /\ drift \in Int
          /\ reward[m].total \in Int /\ reward[m].issued \in Int
      BY <1>2, Zenon DEF TypeOK
    <3> HIDE DEF x
    <3> QED BY <1>1, <3>1, <3>2
  <2>2. PICK k \in Int : currency' = currency + k /\ pot' = pot + k + x
    BY <1>3, <2>1
  <2>3. reward'[m].total - reward'[m].issued = y + x
    BY <1>4, <1>5, <2>1, Zenon
  <2> HIDE DEF x, y
  <2>4. pot' + drift' - currency' - (reward'[m].total - reward'[m].issued) =
          pot + drift - currency - (reward[m].total - reward[m].issued)
    <3>1. pot + k + x + drift - (currency + k) - (y + x) = pot + drift - currency - y
      BY <2>1
    <3> QED BY <2>1, <2>2, <2>3, <3>1 DEF y
  <2>5. pot' + drift' = currency' + SumFunctionOnSet(Owed', Miners)
    BY <1>5, <1>6, <2>4, PoolStep, Zenon
  <2> QED BY <1>3, <2>5 DEF PoolCovered
<1>9. ASSUME NEW e \in Eras PROVE RoundOK(e)'
  <2>1. era \in Int /\ e \in Int
    BY <1>2, Typed DEF Eras
  <2>2. CASE e < era
    <3>1. Of(m, e)' = {}
      BY <1>5, <2>2, Zenon DEF Of, Past
    <3> QED BY <1>1, <1>3, <1>5, <1>6, <1>7, <2>2, <3>1, RoundSettled, Zenon
  <2>3. CASE e >= era
    <3>1. Of(m, e)' = Of(m, e)
      BY <1>5, <2>1, <2>3 DEF Of, Past
    <3>2. GrantedOf(m, e) = 0 /\ round[e].paid \in Int
      BY <1>2, <2>3, SharesOK, Typed, Zenon
    <3>3. round'[e].paid = round[e].paid
      BY <1>3, <3>2, PlusZero, Zenon
    <3> QED BY <1>1, <1>3, <1>5, <1>6, <1>7, <3>1, <3>3, RoundSettled, Zenon
  <2> QED BY <2>1, <2>2, <2>3
<1>10. \A n \in Miners : Blank(reward'[n])
  BY <1>2, <1>4, <1>5
<1> QED BY <1>6, <1>7, <1>8, <1>9, <1>10 DEF RewardInv

\* A forced exit of a miner without a reward.
LEMMA LeftWithout ==
  ASSUME RewardInv, NEW m \in Miners, reward[m].total = 0,
         UNCHANGED <<treasury, round, drift>>
  PROVE  /\ currency' \in Int /\ reserve' \in Int /\ pot' \in Int /\ reservePot' = reserve'
         /\ drift' \in Int
         /\ pot' + drift' - currency' = pot + drift - currency - (reward[m].total - reward[m].issued)
         /\ round' \in [Eras -> [pot : Nat, paid : Int]]
         /\ \A e \in Eras : round'[e] = round[e]
<1>1. /\ pot \in Int /\ drift \in Int /\ currency \in Int /\ reserve \in Int
      /\ reservePot = reserve /\ round \in [Eras -> [pot : Nat, paid : Int]]
  BY DEF RewardInv, TypeOK, PoolCovered
<1>2. pot' = pot /\ drift' = drift /\ currency' = currency /\ reserve' = reserve
      /\ reservePot' = reservePot /\ round' = round
  BY DEF treasury
<1>3. reward[m].issued = 0
  BY DEF RewardInv, Blank
<1>4. pot + drift - currency = pot + drift - currency - (0 - 0)
  BY <1>1
<1> QED BY <1>1, <1>2, <1>3, <1>4, Zenon

\* A forced exit of a miner with one: the residue it gives back was computed
\* before its payment, and the difference is the drift of the pool.
LEMMA LeftWith ==
  ASSUME RewardInv, NEW m \in Miners,
         Settle(m, reward[m].total - reward[m].issued),
         drift' = drift + (reward[m].total - reward[m].issued)
                    - (Settled(m).total - Settled(m).issued)
  PROVE  /\ currency' \in Int /\ reserve' \in Int /\ pot' \in Int /\ reservePot' = reserve'
         /\ drift' \in Int
         /\ pot' + drift' - currency' = pot + drift - currency - (reward[m].total - reward[m].issued)
         /\ round' \in [Eras -> [pot : Nat, paid : Int]]
         /\ \A e \in Eras : /\ round'[e].pot = round[e].pot
                            /\ round'[e].paid = round[e].paid + GrantedOf(m, e)
<1> DEFINE x == (IF Full(m) THEN 0 ELSE Granted(m)) - Sent(Calculated(m))
           y == reward[m].total - reward[m].issued
           z == Settled(m).total - Settled(m).issued
<1>1. /\ x \in Int /\ pot \in Int /\ currency \in Int /\ drift \in Int /\ y \in Int
  <2>1. Sent(Calculated(m)) \in Int /\ Granted(m) \in Nat
    BY SettledTyped, Zenon
  <2>2. x \in Int
    BY <2>1
  <2>3. /\ pot \in Int /\ currency \in Int /\ drift \in Int
        /\ reward[m].total \in Int /\ reward[m].issued \in Int
    BY Zenon DEF RewardInv, TypeOK
  <2> HIDE DEF x
  <2> QED BY <2>2, <2>3
<1>2. z = y + x
  BY <1>1, SettledTyped, Zenon DEF RewardInv
<1>3. /\ currency' \in Int /\ reserve' \in Int /\ pot' \in Int /\ reservePot' = reserve'
      /\ \E k \in Int : currency' = currency + k + y /\ pot' = pot + k + x
      /\ round' \in [Eras -> [pot : Nat, paid : Int]]
      /\ \A e \in Eras : /\ round'[e].pot = round[e].pot
                         /\ round'[e].paid = round[e].paid + GrantedOf(m, e)
  BY <1>1, SettleStep, Zenon
<1>4. PICK k \in Int : currency' = currency + k + y /\ pot' = pot + k + x
  BY <1>3, Zenon
<1>5. drift' = drift + y - z
  BY Zenon
<1> HIDE DEF x, y, z
<1>6. drift + y - (y + x) \in Int
  BY <1>1
<1>7. (pot + k + x) + (drift + y - (y + x)) - (currency + k + y) = pot + drift - currency - y
  BY <1>1
<1>8. pot' + drift' - currency' = pot + drift - currency - y
  BY <1>2, <1>4, <1>5, <1>7, Zenon
<1> QED BY <1>2, <1>3, <1>5, <1>6, <1>8, Zenon DEF y

\* A miner is forced out.
LEMMA Left ==
  ASSUME RewardInv, NEW m \in Miners, force_miner_exit(m)
  PROVE  RewardInv'
<1> DEFINE R == [pot : Nat, paid : Int]
           y == reward[m].total - reward[m].issued
<1>1. /\ gone' = gone \cup {m}
      /\ snaps' = [snaps EXCEPT ![m] = {}]
      /\ reward' = [reward EXCEPT ![m] = NoReward]
      /\ UNCHANGED <<now, era, active, power>>
  BY Zenon DEF force_miner_exit
<1>2. TypeOK /\ Finite /\ \A n \in Miners : Blank(reward[n])
  BY DEF RewardInv
<1>3. /\ currency' \in Int /\ reserve' \in Int /\ pot' \in Int /\ reservePot' = reserve'
      /\ drift' \in Int
      /\ pot' + drift' - currency' = pot + drift - currency - y
      /\ round' \in [Eras -> R]
      /\ \/ \A e \in Eras : round'[e] = round[e]
         \/ \A e \in Eras : /\ round'[e].pot = round[e].pot
                            /\ round'[e].paid = round[e].paid + GrantedOf(m, e)
  <2>1. CASE reward[m].total = 0 /\ UNCHANGED <<treasury, round, drift>>
    BY <2>1, LeftWithout, Zenon
  <2>2. CASE /\ Settle(m, y)
             /\ drift' = drift + y - (Settled(m).total - Settled(m).issued)
    BY <2>2, LeftWith, Zenon
  <2> QED BY <2>1, <2>2, Zenon DEF force_miner_exit
<1>4. /\ reward'[m] = NoReward /\ snaps'[m] = {}
      /\ \A n \in Miners \ {m} : reward'[n] = reward[n] /\ snaps'[n] = snaps[n]
  BY <1>1, <1>2, Zenon DEF TypeOK
<1>5. NoReward \in Rewards /\ Blank(NoReward) /\ NoReward.orders = {}
      /\ NoReward.total - NoReward.issued = 0
  BY DEF NoReward, Rewards, Blank
<1>6. TypeOK'
  <2>1. snaps' \in [Miners -> SUBSET Snapshots]
    BY <1>1, <1>2, Zenon DEF TypeOK
  <2>2. reward' \in [Miners -> Rewards]
    BY <1>1, <1>2, <1>5, Zenon DEF TypeOK, Rewards
  <2>3. now' \in Nat /\ era' \in Eras /\ active' \in Eras /\ power' \in [Eras -> Nat]
    BY <1>1, <1>2, Zenon DEF TypeOK
  <2>4. gone' \subseteq Miners
    BY <1>1, <1>2, Zenon DEF TypeOK
  <2> QED BY <1>3, <2>1, <2>2, <2>3, <2>4, Zenon DEF TypeOK, Rewards
<1>7. Finite'
  BY <1>2, <1>4, <1>5, FiniteEmpty, Zenon DEF Finite
<1>8. PoolCovered'
  <2>1. pot' + drift' - currency' \in Int
    BY <1>3
  <2>2. pot' + drift' - currency' - (reward'[m].total - reward'[m].issued) =
          pot + drift - currency - (reward[m].total - reward[m].issued)
    <3>1. reward'[m].total - reward'[m].issued = 0
      BY <1>4, <1>5
    <3>2. \A i \in Int : i - 0 = i
      OBVIOUS
    <3> QED BY <1>3, <2>1, <3>1, <3>2
  <2>3. pot' + drift' = currency' + SumFunctionOnSet(Owed', Miners)
    BY <1>4, <1>6, <2>2, PoolStep, Zenon
  <2> QED BY <1>3, <2>3 DEF PoolCovered
<1>9. ASSUME NEW e \in Eras PROVE RoundOK(e)'
  <2>1. era \in Int /\ e \in Int /\ Of(m, e)' = {}
    BY <1>2, <1>4, Typed DEF Eras, Of
  <2>2. CASE round'[e] = round[e]
    BY <1>1, <1>4, <1>6, <1>7, <2>1, <2>2, RoundSettled, Zenon
  <2>3. CASE e < era /\ round'[e].pot = round[e].pot
             /\ round'[e].paid = round[e].paid + GrantedOf(m, e)
    BY <1>1, <1>4, <1>6, <1>7, <2>1, <2>3, RoundSettled, Zenon
  <2>4. CASE e >= era /\ round'[e].pot = round[e].pot
             /\ round'[e].paid = round[e].paid + GrantedOf(m, e)
    <3>1. GrantedOf(m, e) = 0 /\ round[e].paid \in Int
      BY <1>2, <2>4, SharesOK, Typed, Zenon
    <3>2. round'[e].paid = round[e].paid
      BY <2>4, <3>1, PlusZero, Zenon
    <3> QED BY <1>1, <1>4, <1>6, <1>7, <2>1, <2>4, <3>2, RoundSettled, Zenon
  <2>5. e < era \/ e >= era
    BY <2>1, Ordered, Zenon
  <2> QED BY <1>3, <2>2, <2>3, <2>4, <2>5, Zenon
<1>10. \A n \in Miners : Blank(reward'[n])
  BY <1>2, <1>4, <1>5, Zenon
<1> QED BY <1>6, <1>7, <1>8, <1>9, <1>10 DEF RewardInv

\* Blocks pass and eras are planned.
LEMMA Waited ==
  ASSUME RewardInv, new_era \/ NewBlock \/ UNCHANGED vars
  PROVE  RewardInv'
<1>1. /\ UNCHANGED <<minerVars, treasury>> /\ now' \in {now, now + 1}
      /\ era' \in {era, era + 1} /\ era' \in Eras /\ active' = active
  <2>1. era \in Eras /\ Eras = 0..MaxEra /\ MaxEra \in Nat
    BY RewardAssumption DEF RewardInv, TypeOK, Eras
  <2>2. CASE new_era
    BY <2>1, <2>2 DEF new_era
  <2>3. CASE NewBlock
    BY <2>1, <2>3 DEF NewBlock
  <2>4. CASE UNCHANGED vars
    BY <2>1, <2>4, Zenon DEF vars
  <2> QED BY <2>2, <2>3, <2>4, Zenon
<1>2. TypeOK'
  BY <1>1 DEF RewardInv, TypeOK, minerVars, treasury
<1>3. \A e \in Eras : RoundOK(e)'
  BY <1>1, RoundsSame, Zenon DEF minerVars
<1>4. Finite' /\ PoolCovered' /\ \A n \in Miners : Blank(reward'[n])
  BY <1>1 DEF RewardInv, Finite, PoolCovered, Owed, minerVars, treasury
<1> QED BY <1>2, <1>3, <1>4 DEF RewardInv
-----------------------------------------------------------------------------
(* The invariant. *)

\* It holds at the start.
LEMMA InitReward == Init => RewardInv
<1> SUFFICES ASSUME Init PROVE RewardInv
  OBVIOUS
<1>1. TypeOK
  <2>1. NoReward \in Rewards
    BY DEF NoReward, Rewards
  <2>2. 0 \in Eras
    BY RewardAssumption DEF Eras
  <2>3. round \in [Eras -> [pot : Nat, paid : Int]] /\ power \in [Eras -> Nat]
    BY DEF Init
  <2>4. reward \in [Miners -> Rewards] /\ snaps \in [Miners -> SUBSET Snapshots]
    BY <2>1 DEF Init
  <2> QED BY <2>2, <2>3, <2>4, Zenon DEF Init, TypeOK, Rewards
<1>2. Finite
  BY FiniteEmpty, Zenon DEF Init, Finite, NoReward
<1>3. PoolCovered
  <2>1. \A m \in Miners : Owed[m] = 0
    BY DEF Init, Owed, NoReward
  <2>2. SumFunctionOnSet(Owed, Miners) = 0
    BY <2>1, SumZero, RewardAssumption, Zenon
  <2> QED BY <2>2 DEF Init, PoolCovered
<1>4. ASSUME NEW e \in Eras PROVE RoundOK(e)
  <2>1. \A m \in Miners : Weights(e)[m] = 0
    <3>1. \A m \in Miners : Of(m, e) = {}
      BY DEF Init, Of
    <3>2. \A m \in Miners : Weight(m, e) = 0
      BY <3>1, SumEmpty DEF Weight
    <3> QED BY <3>2 DEF Weights
  <2>2. Outstanding(e) = 0
    BY <2>1, SumZero, RewardAssumption, Zenon DEF Outstanding
  <2>3. power[e] = 0 /\ round[e].pot = 0 /\ round[e].paid = 0
    BY Zenon DEF Init
  <2> QED BY <2>2, <2>3 DEF RoundOK
<1>5. \A m \in Miners : Blank(reward[m])
  BY DEF Init, Blank, NoReward
<1> QED BY <1>1, <1>2, <1>3, <1>4, <1>5 DEF RewardInv

\* Every step keeps it.
LEMMA NextReward == RewardInv /\ [Next]_vars => RewardInv'
<1> SUFFICES ASSUME RewardInv, [Next]_vars PROVE RewardInv'
  OBVIOUS
<1>1. CASE new_era \/ NewBlock \/ UNCHANGED vars
  BY <1>1, Waited
<1>2. CASE end_era
  BY <1>2, EraEnds
<1>3. CASE \E m \in Miners, p \in Powers : record_snap_shot(m, p)
  BY <1>3, Recorded
<1>4. CASE \E m \in Miners : receive_reward(m)
  BY <1>4, Received
<1>5. CASE \E m \in Miners : force_miner_exit(m)
  BY <1>5, Left, Zenon
<1> QED BY <1>1, <1>2, <1>3, <1>4, <1>5 DEF Next

\* The rounds are within their rewards when the weighted ones are.
LEMMA WithinRound ==
  ASSUME RewardInv
  PROVE  RoundNeverOverdrawn
<1> SUFFICES ASSUME NEW e \in 0..(era - 1)
             PROVE  round[e].paid + SumFunctionOnSet(Claims(e), Miners) <= round[e].pot
  BY Zenon DEF RoundNeverOverdrawn
<1> DEFINE P == power[e]
           t == round[e].pot
           a == round[e].paid
           o == Outstanding(e)
           g == SumFunctionOnSet(Claims(e), Miners)
<1>1. TypeOK /\ Finite /\ e \in Eras /\ e < era
  <2>1. TypeOK /\ Finite
    BY Zenon DEF RewardInv
  <2>2. era \in 0..MaxEra
    BY <2>1, Zenon DEF TypeOK, Eras
  <2>3. e \in 0..MaxEra /\ e < era
    BY <2>2, RewardAssumption
  <2> QED BY <2>1, <2>3, Zenon DEF Eras
<1>2. \A m \in Miners : Claims(e)[m] = GrantedOf(m, e) /\ GrantedOf(m, e) \in Nat
  BY <1>1, SharesOK DEF Claims
<1>3. P \in Nat /\ t \in Nat /\ a \in Int /\ o \in Nat
  BY <1>1, OutstandingTyped, Zenon DEF TypeOK
<1>4. (P = 0 => a = 0) /\ a * P + o * t <= P * t
  BY <1>1 DEF RewardInv, RoundOK
<1>5. CASE P = 0
  <2>1. \A m \in Miners : Claims(e)[m] = 0
    BY <1>1, <1>2, <1>5, NoPower
  <2>2. g = 0
    BY <2>1, SumZero, RewardAssumption
  <2>3. a = 0
    BY <1>4, <1>5
  <2> HIDE DEF a, g, t
  <2>4. a + g <= t
    BY <1>3, <2>2, <2>3
  <2> QED BY <2>4 DEF a, g, t
<1>6. CASE P # 0
  <2>1. ASSUME NEW m \in Miners
        PROVE  /\ Claims(e)[m] \in Int /\ Weights(e)[m] \in Int
               /\ Claims(e)[m] * P <= Weights(e)[m] * t
    <3>1. /\ Claims(e)[m] = GrantedOf(m, e) /\ Weights(e)[m] = Weight(m, e)
          /\ Claims(e)[m] \in Nat /\ Weights(e)[m] \in Nat
      BY <1>1, <1>2, OutstandingTyped, Zenon
    <3>2. GrantedOf(m, e) * P <= Weight(m, e) * t
      BY <1>1, SharesOK, Zenon
    <3> QED BY <3>1, <3>2, NatIsInt, Zenon
  <2>2. g \in Int
    BY <2>1, SumInt, RewardAssumption
  <2>3. g * P <= o * t
    <3> DEFINE f == Claims(e)
               h == Weights(e)
    <3>1. /\ IsFiniteSet(Miners) /\ P \in Int /\ t \in Int
          /\ \A m \in Miners : f[m] \in Int /\ h[m] \in Int /\ f[m] * P <= h[m] * t
      BY <1>3, <2>1, RewardAssumption
    <3> HIDE DEF P, t, f, h
    <3>2. SumFunctionOnSet(f, Miners) * P <= SumFunctionOnSet(h, Miners) * t
      BY <3>1, SumScaled, Zenon
    <3> QED BY <3>2, Zenon DEF Outstanding, f, h
  <2> HIDE DEF P, t, a, o, g
  <2>4. (a + g) * P = a * P + g * P /\ t * P = P * t
    BY <1>3, <2>2
  <2>5. {a * P, g * P, o * t, P * t} \subseteq Int
    BY <1>3, <2>2
  <2>6. (a + g) * P <= t * P
    BY <1>4, <2>3, <2>4, <2>5
  <2>7. a + g \in Int /\ t \in Int /\ P \in Nat \ {0}
    BY <1>3, <1>6, <2>2
  <2>8. a + g <= t
    BY <2>6, <2>7, CancelLeq
  <2> QED BY <2>8 DEF a, g, t
<1> QED BY <1>5, <1>6

\* The miners' reward account always holds what the pool may still grant and
\* what was granted and not sent, up to the drift of forced exits, and the
\* reserve account what the reserve counts: the transfers of
\* calculate_miner_reward, distribute_rewards and force_miner_exit agree with
\* the counters that sub_reward and the round rewards keep.
THEOREM PoolSafe == Spec => []PoolCovered
<1>1. RewardInv => PoolCovered
  BY DEF RewardInv
<1> QED BY <1>1, InitReward, NextReward, PTL DEF Spec

\* Whatever order miners ask in and however Perbill rounds, what was granted of
\* an era and all that its recorded snapshots can still claim is within the
\* era's reward: the check of sub_round_reward refuses no late miner.
THEOREM RoundSafe == Spec => []RoundNeverOverdrawn
<1>1. RewardInv => RoundNeverOverdrawn
  BY WithinRound
<1> QED BY <1>1, InitReward, NextReward, PTL DEF Spec

------------------------------------------------------------------------------
(* The enclave follows the finalised chain.  FollowsChain speaks of the    *)
(* two ends of the queue of state roots only through what they have done.  *)
(* The invariant SyncInv says what the queue holds: the roots from the     *)
(* block to be checked next up to the last header, in every state of the   *)
(* enclave and of its checkpoints.                                         *)

Chains == Seq([change : BOOLEAN, justified : BOOLEAN])

Enclaves ==
  [init : BOOLEAN, can_load : BOOLEAN, header_number_next : Nat,
   block_number_next : Nat, set : Nat, last : Nat, roots : Seq(Nat),
   validated : BOOLEAN, root : Nat]

\* The block whose state root is at the head of the queue: before the first
\* block is applied, that of the state it starts from.
Front(e) == IF e.validated THEN e.block_number_next ELSE e.block_number_next - 1

EnclaveOK(e) ==
  /\ e \in Enclaves
  /\ e.header_number_next <= Len(chain) + 1 /\ e.last <= Len(chain)
  /\ e.set = SetId(e.last)
  /\ ~e.init => /\ e.header_number_next = 0 /\ e.last = 0 /\ e.set = 0
                /\ e.roots = <<>> /\ ~e.validated
  /\ e.init => /\ e.block_number_next >= 1
               /\ e.roots = Roots(Front(e), e.header_number_next - 1)
  /\ e.validated => /\ e.root = e.block_number_next - 1
                    /\ e.block_number_next <= e.header_number_next

Relayers ==
  [pc : {"start", "loop", "blocks", "headers", "failed", "exited"},
   lo : Nat, hi : Nat, set : {NoSet} \cup (Int \X Int), headernum : Nat,
   blocknum : Nat, to : Int, more : BOOLEAN, synced : BOOLEAN, fails : Nat,
   stuck : BOOLEAN]

RelayerOK == relayer \in Relayers /\ relayer.hi <= Len(chain)

SyncInv ==
  /\ chain \in Chains /\ Len(chain) <= MaxHeight
  /\ \A e \in saved \cup {enclave} : EnclaveOK(e)
  /\ RelayerOK

------------------------------------------------------------------------------
(* Extreme members of sets of naturals.                                    *)

LEMMA LeastIn ==
  ASSUME NEW S \in SUBSET Nat, S # {}
  PROVE  Least(S) \in S /\ \A k \in S : Least(S) <= k
<1> DEFINE R == OpToRel(<, Nat)
<1>1. IsWellFoundedOn(R, Nat)
  BY NatLessThanWellFounded, Zenon
<1>2. PICK n \in S : \A m \in S : <<m, n>> \notin R
  <2> HIDE DEF R
  <2> QED BY <1>1, WFMin, Zenon
<1>3. \A k \in S : n <= k
  <2> SUFFICES ASSUME NEW k \in S, k < n PROVE FALSE
    OBVIOUS
  <2>1. <<k, n>> \in R
    BY DEF OpToRel
  <2> QED BY <1>2, <2>1, Zenon
<1> QED
  BY <1>3, Zenon DEF Least

LEMMA GreatestIn ==
  ASSUME NEW S \in SUBSET Nat, S # {}, NEW b \in Nat, \A k \in S : k <= b
  PROVE  Greatest(S) \in S /\ \A k \in S : Greatest(S) >= k
<1> DEFINE T == {b - k : k \in S}
<1>1. T \in SUBSET Nat /\ T # {}
  <2>1. \A k \in S : b - k \in Nat
    OBVIOUS
  <2> QED BY <2>1, Zenon
<1>2. PICK t \in T : \A u \in T : t <= u
  <2> HIDE DEF T
  <2> QED BY <1>1, LeastIn, Zenon
<1>3. PICK n \in S : t = b - n
  OBVIOUS
<1>4. \A k \in S : n >= k
  <2> SUFFICES ASSUME NEW k \in S PROVE n >= k
    OBVIOUS
  <2>1. b - n <= b - k
    BY <1>2, <1>3, Zenon
  <2> QED BY <2>1
<1> QED
  BY <1>4, Zenon DEF Greatest

LEMMA FiniteInterval ==
  ASSUME NEW n \in Int
  PROVE  IsFiniteSet(1..n)
<1>1. CASE n \in Nat
  <2> DEFINE s == [i \in 1..n |-> i]
  <2>1. s \in Seq(1..n) /\ Len(s) = n
    BY <1>1
  <2>2. \A x \in 1..n : x \in 1..Len(s) /\ s[x] = x
    BY <2>1
  <2> QED BY <2>1, <2>2, Zenon DEF IsFiniteSet
<1>2. CASE n \notin Nat
  <2>1. 1..n = {}
    BY <1>2
  <2> QED BY <2>1, FiniteEmpty
<1> QED BY <1>1, <1>2

------------------------------------------------------------------------------
(* Sequences of naturals.                                                  *)

LEMMA SeqSame ==
  ASSUME NEW s \in Seq(Nat), NEW t \in Seq(Nat), Len(s) = Len(t),
         \A i \in 1..Len(s) : s[i] = t[i]
  PROVE  s = t
<1>1. s = [i \in 1..Len(s) |-> s[i]] /\ t = [i \in 1..Len(t) |-> t[i]]
  OBVIOUS
<1>2. [i \in 1..Len(s) |-> s[i]] = [i \in 1..Len(t) |-> t[i]]
  BY Zenon
<1> QED
  BY <1>1, <1>2, Zenon

LEMMA SeqTail ==
  ASSUME NEW s \in Seq(Nat), s # <<>>
  PROVE  /\ Tail(s) \in Seq(Nat) /\ Len(Tail(s)) = Len(s) - 1
         /\ \A i \in 1..Len(Tail(s)) : Tail(s)[i] = s[i + 1]
OBVIOUS

LEMMA SeqConcat ==
  ASSUME NEW s \in Seq(Nat), NEW t \in Seq(Nat)
  PROVE  /\ s \o t \in Seq(Nat) /\ Len(s \o t) = Len(s) + Len(t)
         /\ \A i \in 1..(Len(s) + Len(t)) :
              (s \o t)[i] = IF i <= Len(s) THEN s[i] ELSE t[i - Len(s)]
OBVIOUS

LEMMA SeqEmpty ==
  ASSUME NEW s \in Seq(Nat)
  PROVE  <<>> \o s = s
OBVIOUS

------------------------------------------------------------------------------
(* The ids of the authority sets.                                          *)

LEMMA SetType ==
  ASSUME NEW n \in Int
  PROVE  /\ IsFiniteSet({k \in 1..n : Change(k)})
         /\ SetId(n) \in Nat
<1>1. IsFiniteSet(1..n)
  BY FiniteInterval
<1>2. IsFiniteSet({k \in 1..n : Change(k)})
  BY <1>1, FiniteSubset
<1> QED
  BY <1>2, CardinalityNat DEF SetId

\* The id grows by one with a change, and stays with any other block.
LEMMA SetStep ==
  ASSUME NEW n \in Nat \ {0}
  PROVE  SetId(n) = IF Change(n) THEN SetId(n - 1) + 1 ELSE SetId(n - 1)
<1> DEFINE C(m) == {k \in 1..m : Change(k)}
<1>1. IsFiniteSet(C(n - 1))
  BY SetType
<1>2. CASE Change(n)
  <2>1. C(n) = C(n - 1) \cup {n} /\ n \notin C(n - 1)
    BY <1>2
  <2> HIDE DEF C
  <2>2. Cardinality(C(n)) = Cardinality(C(n - 1)) + 1
    BY <1>1, <2>1, CardinalityAdd
  <2> QED
    BY <1>2, <2>2 DEF SetId, C
<1>3. CASE ~Change(n)
  <2>1. C(n) = C(n - 1)
    BY <1>3
  <2> QED
    BY <1>3, <2>1 DEF SetId
<1> QED
  BY <1>2, <1>3

LEMMA SetZero == SetId(0) = 0
<1>1. {k \in 1..0 : Change(k)} = {}
  OBVIOUS
<1> QED
  BY <1>1, CardinalityEmpty DEF SetId

\* A new block changes no id of the blocks before it.
LEMMA SetKept ==
  ASSUME chain \in Chains, NEW b \in [change : BOOLEAN, justified : BOOLEAN],
         chain' = Append(chain, b), NEW n \in 0..Len(chain)
  PROVE  SetId(n)' = SetId(n)
<1>1. \A k \in 1..n : Change(k)' = Change(k)
  BY DEF Change, Chains
<1>2. {k \in 1..n : Change(k)'} = {k \in 1..n : Change(k)}
  BY <1>1
<1> QED
  BY <1>2, Zenon DEF SetId

------------------------------------------------------------------------------
(* The queue of roots.                                                     *)

RootsFrom(s, lo, n) ==
  s \in Seq(Nat) /\ Len(s) = n /\ \A i \in 1..n : s[i] = lo + i - 1

LEMMA RootsEmpty ==
  ASSUME NEW lo \in Int, NEW hi \in Int, lo > hi
  PROVE  Roots(lo, hi) = <<>>
<1>1. 1..(hi + 1 - lo) = {}
  OBVIOUS
<1> QED
  BY <1>1 DEF Roots

LEMMA RootsSeq ==
  ASSUME NEW lo \in Nat, NEW hi \in Int, lo <= hi + 1
  PROVE  RootsFrom(Roots(lo, hi), lo, hi + 1 - lo)
<1> DEFINE n == hi + 1 - lo
<1>1. n \in Nat
  OBVIOUS
<1>2. Roots(lo, hi) = [i \in 1..n |-> lo + i - 1]
  BY DEF Roots
<1> HIDE DEF n
<1> QED
  BY <1>1, <1>2 DEF RootsFrom, n

\* The first root leaves.
LEMMA RootsTail ==
  ASSUME NEW lo \in Nat, NEW hi \in Int, lo <= hi
  PROVE  /\ Roots(lo, hi) # <<>> /\ Head(Roots(lo, hi)) = lo
         /\ Tail(Roots(lo, hi)) = Roots(lo + 1, hi)
<1> DEFINE s == Roots(lo, hi)
           t == Roots(lo + 1, hi)
<1>1. RootsFrom(s, lo, hi + 1 - lo)
  BY RootsSeq
<1>2. RootsFrom(t, lo + 1, hi + 1 - (lo + 1))
  <2>1. lo + 1 \in Nat /\ lo + 1 <= hi + 1
    OBVIOUS
  <2> QED BY <2>1, RootsSeq, Zenon
<1> HIDE DEF s, t
<1>3. s # <<>> /\ Head(s) = s[1] /\ s[1] = lo
  BY <1>1 DEF RootsFrom
<1>4. /\ Tail(s) \in Seq(Nat) /\ Len(Tail(s)) = Len(s) - 1
      /\ \A i \in 1..Len(Tail(s)) : Tail(s)[i] = s[i + 1]
  BY <1>1, <1>3, SeqTail DEF RootsFrom
<1>5. Len(Tail(s)) = Len(t) /\ t \in Seq(Nat)
  BY <1>1, <1>2, <1>4 DEF RootsFrom
<1>6. \A i \in 1..Len(Tail(s)) : Tail(s)[i] = t[i]
  BY <1>1, <1>2, <1>4 DEF RootsFrom
<1>7. Tail(s) = t
  BY <1>4, <1>5, <1>6, SeqSame, Zenon
<1> QED
  BY <1>3, <1>7 DEF s, t

\* The roots of more headers join.
LEMMA RootsJoin ==
  ASSUME NEW a \in Nat, NEW b \in Nat, NEW c \in Nat, a <= b, b <= c
  PROVE  Roots(a, b - 1) \o Roots(b, c) = Roots(a, c)
<1> DEFINE s == Roots(a, b - 1)
           t == Roots(b, c)
           u == Roots(a, c)
<1>1. RootsFrom(s, a, (b - 1) + 1 - a)
  <2>1. b - 1 \in Int /\ a <= (b - 1) + 1
    OBVIOUS
  <2> QED BY <2>1, RootsSeq, Zenon
<1>2. RootsFrom(t, b, c + 1 - b)
  <2>1. c \in Int /\ b <= c + 1
    OBVIOUS
  <2> QED BY <2>1, RootsSeq, Zenon
<1>3. RootsFrom(u, a, c + 1 - a)
  <2>1. c \in Int /\ a <= c + 1
    OBVIOUS
  <2> QED BY <2>1, RootsSeq, Zenon
<1> HIDE DEF s, t, u
<1>4. /\ s \o t \in Seq(Nat) /\ Len(s \o t) = Len(s) + Len(t)
      /\ \A i \in 1..(Len(s) + Len(t)) :
            (s \o t)[i] = IF i <= Len(s) THEN s[i] ELSE t[i - Len(s)]
  BY <1>1, <1>2, SeqConcat, Zenon DEF RootsFrom
<1>5. Len(s) = b - a /\ Len(t) = c + 1 - b /\ Len(u) = c + 1 - a /\ u \in Seq(Nat)
  BY <1>1, <1>2, <1>3 DEF RootsFrom
<1>6. ASSUME NEW i \in 1..Len(s \o t) PROVE (s \o t)[i] = u[i]
  <2>1. (s \o t)[i] = IF i <= Len(s) THEN s[i] ELSE t[i - Len(s)]
    BY <1>4, <1>6, Zenon
  <2>2. u[i] = a + i - 1
    <3>1. i \in 1..(c + 1 - a)
      BY <1>4, <1>5
    <3> QED
      BY <1>3, <3>1, Zenon DEF RootsFrom
  <2>3. CASE i <= b - a
    BY <1>1, <1>5, <2>1, <2>2, <2>3 DEF RootsFrom
  <2>4. CASE ~(i <= b - a)
    <3>1. i - (b - a) \in 1..(c + 1 - b)
      BY <1>4, <1>5, <2>4
    <3>2. t[i - (b - a)] = b + (i - (b - a)) - 1
      BY <1>2, <3>1, Zenon DEF RootsFrom
    <3> QED
      BY <1>5, <2>1, <2>2, <2>4, <3>2
  <2> QED
    BY <2>3, <2>4
<1>7. Len(s \o t) = Len(u)
  BY <1>4, <1>5
<1>8. s \o t = u
  BY <1>4, <1>5, <1>6, <1>7, SeqSame, Zenon
<1> QED
  BY <1>8 DEF s, t, u

------------------------------------------------------------------------------
(* The calls of the enclave.                                               *)

LEMMA FlagOK ==
  ASSUME NEW e, EnclaveOK(e), NEW b \in BOOLEAN
  PROVE  EnclaveOK([e EXCEPT !.can_load = b])
<1> DEFINE f == [e EXCEPT !.can_load = b]
<1>1. e \in Enclaves
  BY Zenon DEF EnclaveOK
<1>2. /\ f \in Enclaves /\ f.init = e.init /\ f.header_number_next = e.header_number_next
      /\ f.block_number_next = e.block_number_next /\ f.set = e.set /\ f.last = e.last
      /\ f.roots = e.roots /\ f.validated = e.validated /\ f.root = e.root
  BY <1>1, Zenon DEF Enclaves
<1> HIDE DEF f
<1>3. Front(f) = Front(e)
  BY <1>2, Zenon DEF Front
<1>4. EnclaveOK(f)
  BY <1>2, <1>3, Zenon DEF EnclaveOK
<1> QED
  BY <1>4, Zenon DEF f

\* The roots that sync_header queues continue the queue.
LEMMA QueueGrows ==
  ASSUME NEW e, EnclaveOK(e), e.init, NEW hi \in Nat, e.header_number_next <= hi
  PROVE  /\ e.roots \o saved_roots(e, e.header_number_next, hi) = Roots(Front(e), hi)
         /\ Roots(Front(e), hi) \in Seq(Nat)
<1> DEFINE h == e.header_number_next
           n == e.block_number_next
           a == Front(e)
<1>1. /\ h \in Nat /\ n \in Nat \ {0} /\ a \in Nat /\ h <= hi
      /\ e.roots = Roots(a, h - 1)
      /\ a = IF e.validated THEN n ELSE n - 1
      /\ e.validated => n <= h
  BY DEF EnclaveOK, Enclaves, Front
<1>2. saved_roots(e, h, hi) = Roots(Max2(h, n - 1), hi)
  BY DEF saved_roots
<1>3. Roots(a, hi) \in Seq(Nat)
  <2>1. CASE a <= hi + 1
    <3>1. hi \in Int
      OBVIOUS
    <3> HIDE DEF a
    <3>2. RootsFrom(Roots(a, hi), a, hi + 1 - a)
      BY <1>1, <2>1, <3>1, RootsSeq, Zenon
    <3> QED BY <3>2, Zenon DEF RootsFrom
  <2>2. CASE a > hi + 1
    <3>1. Roots(a, hi) = <<>>
      BY <1>1, <2>2, RootsEmpty
    <3> QED BY <3>1
  <2> QED BY <1>1, <2>1, <2>2
<1> HIDE DEF h, n, a
<1>4. CASE a <= h
  <2>1. Max2(h, n - 1) = h
    BY <1>1, <1>4 DEF Max2
  <2>2. Roots(a, h - 1) \o Roots(h, hi) = Roots(a, hi)
    BY <1>1, <1>4, RootsJoin, ZenonT(30)
  <2> QED
    BY <1>1, <1>2, <1>3, <2>1, <2>2 DEF h, a
<1>5. CASE ~(a <= h)
  <2>1. Max2(h, n - 1) = a
    BY <1>1, <1>5 DEF Max2
  <2>2. Roots(a, h - 1) = <<>>
    BY <1>1, <1>5, RootsEmpty
  <2>3. <<>> \o Roots(a, hi) = Roots(a, hi)
    BY <1>3, SeqEmpty
  <2> QED
    BY <1>1, <1>2, <1>3, <2>1, <2>2, <2>3, Zenon DEF h, a
<1> QED
  BY <1>4, <1>5, Zenon

\* A batch that is accepted ends at a block the enclave's set has signed, and
\* the roots join the queue; any other call changes nothing but the flag.
LEMMA HeadersOK ==
  ASSUME chain \in Chains, NEW e, EnclaveOK(e), NEW from \in Nat, NEW hi \in Nat,
         hi <= Len(chain)
  PROVE  /\ EnclaveOK(sync_header(e, from, hi).e)
         /\ sync_header(e, from, hi).ok => sync_header(e, from, hi).n + 1 \in Nat
                                        /\ sync_header(e, from, hi).n \in Int
<1> DEFINE f == [e EXCEPT !.can_load = FALSE]
           lo == Max2(from, f.header_number_next)
           r == submit_finalized_headers(f, lo, hi)
           g == [r.e EXCEPT !.roots = @ \o saved_roots(f, lo, hi),
                            !.header_number_next = hi + 1]
           done == f.init /\ lo <= hi /\ lo = f.header_number_next /\ Justified(hi) /\ r.ok
<1>1. EnclaveOK(f)
  BY FlagOK, Zenon
<1>2. f.header_number_next \in Nat /\ lo \in Nat
  BY <1>1, Zenon DEF EnclaveOK, Enclaves, Max2
<1>3. CASE done
  <2>1. sync_header(e, from, hi) = Ok(g, hi)
    BY <1>2, <1>3 DEF sync_header
  <2>2. /\ verify_with_voter_set(f, hi)
        /\ r.e = [f EXCEPT !.set = IF Change(hi) THEN @ + 1 ELSE @, !.last = hi]
    BY <1>3 DEF submit_finalized_headers, Ok, Err
  <2>3. hi \in Nat \ {0} /\ f.set = SetId(hi - 1)
    BY <1>3, <2>2 DEF Justified, verify_with_voter_set, Signers
  <2>4. (IF Change(hi) THEN f.set + 1 ELSE f.set) = SetId(hi) /\ SetId(hi) \in Nat
    <3>1. SetId(hi) = IF Change(hi) THEN SetId(hi - 1) + 1 ELSE SetId(hi - 1)
      BY <2>3, SetStep, Zenon
    <3>2. SetId(hi) \in Nat
      <4>1. hi \in Int
        OBVIOUS
      <4> QED BY <4>1, SetType, Zenon
    <3> QED BY <2>3, <3>1, <3>2, Zenon
  <2>5. /\ f.roots \o saved_roots(f, lo, hi) = Roots(Front(f), hi)
        /\ Roots(Front(f), hi) \in Seq(Nat)
    BY <1>1, <1>3, QueueGrows, Zenon
  <2>6. g = [f EXCEPT !.set = SetId(hi), !.last = hi, !.roots = Roots(Front(f), hi),
                      !.header_number_next = hi + 1]
    BY <1>1, <2>2, <2>4, <2>5, Zenon DEF EnclaveOK, Enclaves
  <2>7. lo = f.header_number_next /\ lo <= hi /\ f.init
    BY <1>3
  <2> HIDE DEF f, g, lo
  <2>8. /\ g \in Enclaves /\ g.init = f.init /\ g.validated = f.validated
        /\ g.root = f.root /\ g.block_number_next = f.block_number_next
        /\ g.set = SetId(hi) /\ g.last = hi /\ g.roots = Roots(Front(f), hi)
        /\ g.header_number_next = hi + 1
    <3>1. hi + 1 \in Nat /\ f \in Enclaves
      BY <1>1 DEF EnclaveOK
    <3> QED BY <2>4, <2>5, <2>6, <3>1, Zenon DEF Enclaves
  <2>9. Front(g) = Front(f) /\ g.header_number_next - 1 = hi
    BY <2>8 DEF Front
  <2>10. g.block_number_next \in Nat /\ f.header_number_next \in Nat
    BY <1>2, <2>8, Zenon DEF Enclaves
  <2>11. EnclaveOK(g)
    <3>1. /\ hi + 1 <= Len(chain) + 1
          /\ f.header_number_next <= hi + 1
          /\ \A n \in Nat : n <= f.header_number_next => n <= hi + 1
      <4>1. Len(chain) \in Nat
        BY DEF Chains
      <4> QED BY <2>7, <2>10, <4>1
    <3> QED BY <1>1, <2>7, <2>8, <2>9, <2>10, <3>1, Zenon DEF EnclaveOK
  <2> QED
    BY <2>1, <2>11 DEF Ok
<1>4. CASE ~done
  <2>1. /\ sync_header(e, from, hi).e = f
        /\ sync_header(e, from, hi).ok =>
              sync_header(e, from, hi).n = f.header_number_next - 1
    BY <1>2, <1>4 DEF sync_header, Ok, Err
  <2> QED
    BY <1>1, <1>2, <2>1
<1> QED
  BY <1>3, <1>4

\* What is left of the queue once the state that the enclave started from, or
\* was started with, is known to be that of the block before the next.
LEMMA CheckedOK ==
  ASSUME NEW e, EnclaveOK(e), e.init, e.roots # <<>>,
         ~e.validated => e.root = Head(e.roots)
  PROVE  EnclaveOK(IF e.validated THEN e
                   ELSE [e EXCEPT !.roots = Tail(@), !.validated = TRUE])
<1>1. CASE e.validated
  BY <1>1
<1>2. CASE ~e.validated
  <2> DEFINE h == e.header_number_next
             n == e.block_number_next
             d == [e EXCEPT !.roots = Tail(@), !.validated = TRUE]
  <2>1. h \in Nat /\ n \in Nat \ {0} /\ n - 1 \in Nat /\ e.roots = Roots(n - 1, h - 1)
    BY <1>2 DEF EnclaveOK, Enclaves, Front
  <2>2. n - 1 <= h - 1
    BY <2>1, RootsEmpty
  <2>3. Head(e.roots) = n - 1 /\ Tail(e.roots) = Roots((n - 1) + 1, h - 1)
    <3>1. h - 1 \in Int
      BY <2>1
    <3>2. n - 1 \in Nat /\ n - 1 <= h - 1
      BY <2>1, <2>2
    <3> HIDE DEF h, n
    <3>3. /\ Head(Roots(n - 1, h - 1)) = n - 1
          /\ Tail(Roots(n - 1, h - 1)) = Roots((n - 1) + 1, h - 1)
      BY <3>1, <3>2, RootsTail, Zenon
    <3>4. e.roots = Roots(n - 1, h - 1)
      BY <2>1
    <3> QED BY <3>3, <3>4, Zenon
  <2>4. (n - 1) + 1 = n /\ Tail(e.roots) \in Seq(Nat) /\ n <= h
    BY <2>1, <2>2 DEF EnclaveOK, Enclaves
  <2>5. /\ d \in Enclaves /\ d.init /\ d.validated /\ d.root = n - 1 /\ d.block_number_next = n
        /\ d.set = e.set /\ d.last = e.last /\ d.roots = Roots(n, h - 1)
        /\ d.header_number_next = h
    BY <1>2, <2>3, <2>4, Zenon DEF EnclaveOK, Enclaves
  <2>6. Front(d) = n
    BY <2>5, Zenon DEF Front
  <2> HIDE DEF d, h, n
  <2>7. EnclaveOK(d)
    BY <2>1, <2>4, <2>5, <2>6 DEF EnclaveOK, h, n
  <2> QED
    BY <1>2, <2>7 DEF d
<1> QED
  BY <1>1, <1>2

\* A block is applied only if its root is the one at the head of the queue,
\* which is its own.
LEMMA FeedOK ==
  ASSUME NEW e, EnclaveOK(e), e.init, NEW n
  PROVE  EnclaveOK(feed_block(e, n).e)
<1> DEFINE d == IF e.validated THEN e
                ELSE [e EXCEPT !.roots = Tail(@), !.validated = TRUE]
           root == calc_root(d.root, n)
           g == [d EXCEPT !.block_number_next = n + 1, !.root = root, !.roots = Tail(@)]
<1>1. CASE \/ n /= e.block_number_next \/ e.roots = <<>>
           \/ ~e.validated /\ e.root /= Head(e.roots)
  BY <1>1, Zenon DEF feed_block, Err
<1>2. CASE /\ n = e.block_number_next /\ e.roots # <<>>
           /\ ~e.validated => e.root = Head(e.roots)
  <2>1. EnclaveOK(d)
    BY <1>2, CheckedOK, Zenon
  <2>2. d.validated /\ d.block_number_next = n /\ d.init
    BY <1>2 DEF EnclaveOK, Enclaves
  <2> HIDE DEF d
  <2>3. CASE d.roots = <<>> \/ root /= Head(d.roots)
    BY <1>2, <2>1, <2>3, Zenon DEF feed_block, Err, d
  <2>4. CASE d.roots # <<>> /\ root = Head(d.roots)
    <3>1. feed_block(e, n).e = g
      BY <1>2, <2>4, Zenon DEF feed_block, Ok, d
    <3> DEFINE h == d.header_number_next
    <3>2. h \in Nat /\ n \in Nat /\ d.roots = Roots(n, h - 1) /\ d.root = n - 1
      BY <2>1, <2>2 DEF EnclaveOK, Enclaves, Front
    <3>3. n <= h - 1
      BY <2>4, <3>2, RootsEmpty
    <3>4. Tail(d.roots) = Roots(n + 1, h - 1) /\ Tail(d.roots) \in Seq(Nat)
      <4>1. Tail(d.roots) \in Seq(Nat)
        BY <2>1, <2>4 DEF EnclaveOK, Enclaves
      <4>2. h - 1 \in Int
        BY <3>2
      <4> HIDE DEF h
      <4> QED BY <3>2, <3>3, <4>1, <4>2, RootsTail, Zenon
    <3>5. root = n
      BY <3>2 DEF calc_root
    <3> HIDE DEF root
    <3>6. /\ g \in Enclaves /\ g.init /\ g.validated /\ g.root = n
          /\ g.block_number_next = n + 1 /\ g.set = d.set /\ g.last = d.last
          /\ g.roots = Roots(n + 1, h - 1) /\ g.header_number_next = h
      <4>1. n + 1 \in Nat /\ d \in Enclaves
        BY <2>1, <3>2 DEF EnclaveOK
      <4> QED BY <2>2, <3>2, <3>4, <3>5, <4>1, Zenon DEF Enclaves
    <3>7. Front(g) = n + 1
      BY <3>6, Zenon DEF Front
    <3> HIDE DEF g
    <3>8. EnclaveOK(g)
      BY <2>1, <3>2, <3>3, <3>6, <3>7 DEF EnclaveOK
    <3> QED BY <3>1, <3>8
  <2> QED BY <2>3, <2>4
<1> QED
  BY <1>1, <1>2

\* load_chain_state starts the queue at the block it loads.
LEMMA LoadOK ==
  ASSUME NEW e, EnclaveOK(e), NEW n \in Nat, NEW root \in Nat
  PROVE  EnclaveOK(load_chain_state(e, n, root).e)
<1> DEFINE g == [e EXCEPT !.block_number_next = n + 1, !.root = root, !.can_load = FALSE]
           refused == ~e.can_load \/ n = 0 \/ ~e.init
                      \/ e.block_number_next > 1 \/ e.header_number_next > 0
<1>1. CASE refused
  BY <1>1 DEF load_chain_state, Err
<1>2. CASE ~refused
  <2>1. load_chain_state(e, n, root).e = g
    BY <1>2 DEF load_chain_state, Ok
  <2>2. e.header_number_next = 0 /\ e.block_number_next = 1 /\ ~e.validated /\ e.init
    BY <1>2 DEF EnclaveOK, Enclaves
  <2>3. e.roots = <<>>
    <3>1. e.roots = Roots(0, -1)
      BY <2>2 DEF EnclaveOK, Front
    <3> QED BY <3>1, RootsEmpty
  <2>4. Roots(n, -1) = <<>>
    BY RootsEmpty
  <2>5. /\ g \in Enclaves /\ g.init /\ ~g.validated /\ g.block_number_next = n + 1
        /\ g.set = e.set /\ g.last = e.last /\ g.roots = <<>>
        /\ g.header_number_next = 0
    <3>1. n + 1 \in Nat /\ e \in Enclaves
      BY DEF EnclaveOK
    <3> QED BY <2>2, <2>3, <3>1, Zenon DEF Enclaves
  <2>6. Front(g) = n /\ g.header_number_next - 1 = -1
    BY <2>5 DEF Front
  <2> HIDE DEF g
  <2>7. EnclaveOK(g)
    <3>1. n + 1 >= 1
      OBVIOUS
    <3> QED BY <2>2, <2>4, <2>5, <2>6, <3>1, Zenon DEF EnclaveOK
  <2> QED BY <2>1, <2>7
<1> QED
  BY <1>1, <1>2

------------------------------------------------------------------------------
(* The steps.                                                              *)

\* The enclave and its checkpoints stay in order while the chain grows.
LEMMA KeptOK ==
  ASSUME chain \in Chains, NEW b \in [change : BOOLEAN, justified : BOOLEAN],
         chain' = Append(chain, b), NEW e, EnclaveOK(e)
  PROVE  /\ e \in Enclaves /\ e.last <= Len(chain') /\ e.set = SetId(e.last)'
         /\ e.header_number_next <= Len(chain') + 1
<1>1. Len(chain) \in Nat /\ Len(chain') = Len(chain) + 1
  BY DEF Chains
<1>2. e \in Enclaves /\ e.last \in 0..Len(chain) /\ e.header_number_next \in Nat
  BY <1>1 DEF EnclaveOK, Enclaves
<1>3. SetId(e.last)' = SetId(e.last)
  BY <1>2, SetKept
<1> QED
  BY <1>1, <1>2, <1>3 DEF EnclaveOK

LEMMA BridgeOK ==
  ASSUME NEW n \in Nat
  PROVE  Bridge(n) \in Relayers /\ Bridge(n).hi = 0
BY DEF Bridge, Relayers

LEMMA InitSync == Init_sync => SyncInv
<1> SUFFICES ASSUME Init_sync PROVE SyncInv
  OBVIOUS
<1>1. chain \in Chains /\ Len(chain) = 0 /\ 0 <= MaxHeight
  BY BoundsAssumption DEF Init_sync, Chains
<1>2. SetId(0) = 0
  BY SetZero, Zenon
<1>3. EnclaveOK(Fresh) /\ saved \cup {enclave} = {Fresh}
  BY <1>1, <1>2 DEF EnclaveOK, Enclaves, Fresh, Init_sync
<1>4. RelayerOK
  <2>1. Bridge(0) \in Relayers /\ Bridge(0).hi = 0
    BY BridgeOK
  <2>2. 0 <= 0
    OBVIOUS
  <2> QED BY <1>1, <2>1, <2>2, Zenon DEF Init_sync, RelayerOK
<1> QED
  BY <1>1, <1>3, <1>4 DEF SyncInv

\* A step that adds no block.
LEMMA SameChain ==
  ASSUME UNCHANGED chain, NEW e, EnclaveOK(e)
  PROVE  EnclaveOK(e)'
<1>1. SetId(e.last)' = SetId(e.last)
  BY DEF SetId, Change
<1> QED
  BY <1>1 DEF EnclaveOK

LEMMA StepInv ==
  ASSUME SyncInv, UNCHANGED chain, \A e \in saved' \cup {enclave'} : EnclaveOK(e),
         relayer' \in Relayers, relayer'.hi <= Len(chain)
  PROVE  SyncInv'
<1>1. \A e \in saved' \cup {enclave'} : EnclaveOK(e)'
  BY SameChain, Zenon
<1> QED
  BY <1>1 DEF SyncInv, RelayerOK

\* The relayer's records.
LEMMA FailedOK ==
  ASSUME SyncInv, Failed
  PROVE  relayer' \in Relayers /\ relayer'.hi <= Len(chain)
<1>1. relayer.fails \in Nat /\ relayer.stuck \in BOOLEAN /\ Len(chain) \in Nat
  BY DEF SyncInv, RelayerOK, Relayers, Chains
<1>2. (relayer.stuck \/ Orphaned \/ Refused) \in BOOLEAN
  BY <1>1
<1> DEFINE b == Bridge(relayer.fails)
           t == relayer.stuck \/ Orphaned \/ Refused
<1>3. b \in Relayers /\ b.hi = 0
  BY <1>1, BridgeOK
<1>4. relayer' = [b EXCEPT !.pc = "failed", !.stuck = t]
  BY DEF Failed
<1> HIDE DEF b, t
<1>5. relayer' \in Relayers /\ relayer'.hi = 0
  BY <1>2, <1>3, <1>4, Zenon DEF Relayers, t
<1> QED
  BY <1>1, <1>5

LEMMA LoopOK ==
  ASSUME NEW r \in Relayers
  PROVE  /\ Loop(r) \in Relayers /\ Loop(r).hi = r.hi
         /\ Idle(r) \in Relayers /\ Idle(r).hi = r.hi
<1>1. /\ r.fails \in Nat /\ r.stuck \in BOOLEAN /\ r.lo \in Nat /\ r.hi \in Nat
      /\ r.set \in {NoSet} \cup (Int \X Int)
  BY DEF Relayers
<1> DEFINE b == Bridge(r.fails)
<1>2. b \in Relayers
  BY <1>1, BridgeOK
<1> HIDE DEF b
<1>3. Loop(r) \in Relayers /\ Loop(r).hi = r.hi
  BY <1>1, <1>2, Zenon DEF Loop, Relayers, b
<1>4. Idle(r) \in Relayers /\ Idle(r).hi = r.hi
  BY <1>3, Zenon DEF Idle, Relayers
<1> QED
  BY <1>3, <1>4

LEMMA FinalizeInv ==
  ASSUME SyncInv, NEW c \in BOOLEAN, NEW j \in BOOLEAN, Finalize(c, j)
  PROVE  SyncInv'
<1> DEFINE b == [change |-> c, justified |-> j]
<1>1. chain \in Chains /\ b \in [change : BOOLEAN, justified : BOOLEAN]
  BY DEF SyncInv
<1>2. chain' = Append(chain, b) /\ Len(chain) < MaxHeight
  BY DEF Finalize
<1>3. UNCHANGED <<enclave, saved, relayer>>
  BY DEF Finalize
<1> HIDE DEF b
<1>4. chain' \in Chains /\ Len(chain') = Len(chain) + 1 /\ Len(chain) \in Nat
  BY <1>1, <1>2 DEF Chains
<1>5. \A e \in saved' \cup {enclave'} : EnclaveOK(e)'
  <2> SUFFICES ASSUME NEW e \in saved \cup {enclave} PROVE EnclaveOK(e)'
    BY <1>3
  <2>1. EnclaveOK(e)
    BY DEF SyncInv
  <2>2. /\ e \in Enclaves /\ e.last <= Len(chain') /\ e.set = SetId(e.last)'
        /\ e.header_number_next <= Len(chain') + 1
    BY <1>1, <1>2, <2>1, KeptOK, Zenon
  <2> QED
    BY <2>1, <2>2, Zenon DEF EnclaveOK
<1>6. Len(chain') <= MaxHeight
  BY <1>2, <1>4, BoundsAssumption
<1>7. RelayerOK'
  BY <1>3, <1>4 DEF SyncInv, RelayerOK, Relayers
<1> QED
  BY <1>4, <1>5, <1>6, <1>7 DEF SyncInv

LEMMA RestartInv == SyncInv /\ Restart => SyncInv'
<1> SUFFICES ASSUME SyncInv, Restart PROVE SyncInv'
  OBVIOUS
<1>1. UNCHANGED <<chain, saved, relayer>>
  BY DEF Restart
<1>2. EnclaveOK(enclave')
  <2>1. PICK e \in saved : enclave' = [e EXCEPT !.can_load = TRUE]
    BY Zenon DEF Restart
  <2>2. EnclaveOK(e)
    BY DEF SyncInv
  <2> QED BY <2>1, <2>2, FlagOK, Zenon
<1>3. \A e \in saved' \cup {enclave'} : EnclaveOK(e)
  BY <1>1, <1>2 DEF SyncInv
<1> QED
  BY <1>1, <1>3, StepInv DEF SyncInv, RelayerOK

LEMMA FaultInv == SyncInv /\ Fault => SyncInv'
<1> SUFFICES ASSUME SyncInv, Fault PROVE SyncInv'
  OBVIOUS
<1>1. UNCHANGED <<chain, enclave, saved>> /\ Failed
  BY DEF Fault
<1>2. \A e \in saved' \cup {enclave'} : EnclaveOK(e)
  BY <1>1 DEF SyncInv
<1> QED
  BY <1>1, <1>2, FailedOK, StepInv

LEMMA RunInv == SyncInv /\ run => SyncInv'
<1> SUFFICES ASSUME SyncInv, run PROVE SyncInv'
  OBVIOUS
<1>1. UNCHANGED <<chain, enclave, saved>>
  BY DEF run
<1>2. \A e \in saved' \cup {enclave'} : EnclaveOK(e)
  BY <1>1 DEF SyncInv
<1>3. relayer \in Relayers /\ relayer.hi <= Len(chain) /\ Len(chain) \in Nat
  BY DEF SyncInv, RelayerOK, Chains
<1>4. relayer.fails \in Nat /\ relayer.stuck \in BOOLEAN
  BY <1>3 DEF Relayers
<1>5. relayer' \in Relayers /\ relayer'.hi <= Len(chain)
  <2>1. CASE relayer' = [relayer EXCEPT !.pc = "exited"]
    <3>1. relayer' \in Relayers /\ relayer'.hi = relayer.hi
      BY <1>3, <2>1, Zenon DEF Relayers
    <3> QED BY <1>3, <3>1
  <2>2. CASE relayer' = [Bridge(relayer.fails + 1) EXCEPT !.stuck = relayer.stuck]
    <3> DEFINE b == Bridge(relayer.fails + 1)
    <3>1. relayer.fails + 1 \in Nat
      BY <1>4
    <3>2. b \in Relayers /\ b.hi = 0
      BY <3>1, BridgeOK
    <3> HIDE DEF b
    <3>3. relayer' \in Relayers /\ relayer'.hi = 0
      BY <1>4, <2>2, <3>2, Zenon DEF Relayers, b
    <3> QED BY <1>3, <3>3
  <2> QED BY <2>1, <2>2 DEF run
<1> QED
  BY <1>1, <1>2, <1>5, StepInv

LEMMA PcOK ==
  ASSUME SyncInv, relayer' = [relayer EXCEPT !.pc = "loop"]
         \/ relayer' = [relayer EXCEPT !.pc = "headers"]
  PROVE  relayer' \in Relayers /\ relayer'.hi <= Len(chain)
<1>1. relayer \in Relayers /\ relayer.hi <= Len(chain)
  BY DEF SyncInv, RelayerOK
<1>2. relayer' \in Relayers /\ relayer'.hi = relayer.hi
  BY <1>1, Zenon DEF Relayers
<1> QED
  BY <1>1, <1>2, Zenon

LEMMA StartInv == SyncInv /\ start => SyncInv'
<1> SUFFICES ASSUME SyncInv, start PROVE SyncInv'
  OBVIOUS
<1> DEFINE e == IF enclave.init THEN enclave
                ELSE [Genesis EXCEPT !.can_load = enclave.can_load]
<1>1. UNCHANGED <<chain, saved>>
  BY Zenon DEF start
<1>2. EnclaveOK(enclave) /\ chain \in Chains /\ enclave \in Enclaves
  BY DEF SyncInv, EnclaveOK
<1>3. EnclaveOK(e)
  <2>1. SetId(0) = 0
    BY SetZero
  <2>2. Len(chain) \in Nat
    BY <1>2 DEF Chains
  <2>3. Roots(0, -1) = <<>>
    BY RootsEmpty
  <2>4. Genesis \in Enclaves /\ Front(Genesis) = 0
    <3>1. Fresh \in Enclaves
      BY DEF Fresh, Enclaves
    <3>2. Genesis \in Enclaves
      BY <3>1, Zenon DEF Genesis, Enclaves
    <3>3. Genesis.block_number_next = 1 /\ Genesis.validated = FALSE
      BY DEF Genesis, Fresh
    <3>4. 1 - 1 = 0
      OBVIOUS
    <3> QED BY <3>2, <3>3, <3>4, Zenon DEF Front
  <2>5. EnclaveOK(Genesis)
    BY <2>1, <2>2, <2>3, <2>4 DEF EnclaveOK, Genesis, Fresh
  <2>6. enclave.can_load \in BOOLEAN
    BY <1>2 DEF Enclaves
  <2>7. EnclaveOK([Genesis EXCEPT !.can_load = enclave.can_load])
    BY <2>5, <2>6, FlagOK
  <2> QED BY <1>2, <2>7
<1> HIDE DEF e
<1>4. /\ EnclaveOK(enclave')
      /\ relayer' = [relayer EXCEPT !.pc = "loop"] \/ Failed
  <2>1. CASE fast /\ e.can_load
    <3>1. PICK s \in Loadable :
             LET r == load_chain_state(e, s[1], s[2])
             IN  /\ enclave' = r.e
                 /\ IF r.ok THEN relayer' = [relayer EXCEPT !.pc = "loop"]
                    ELSE Failed
      BY <2>1, Zenon DEF start, e
    <3>2. s[1] \in Nat /\ s[2] \in Nat
      BY <1>2, BoundsAssumption DEF Loadable, Orphan, Chains
    <3>3. EnclaveOK(load_chain_state(e, s[1], s[2]).e)
      BY <1>3, <3>2, LoadOK, Zenon
    <3> QED BY <3>1, <3>3, Zenon
  <2>2. CASE ~(fast /\ e.can_load)
    <3>1. enclave' = e /\ relayer' = [relayer EXCEPT !.pc = "loop"]
      BY <2>2, Zenon DEF start, e
    <3> QED BY <1>3, <3>1, Zenon
  <2> QED BY <2>1, <2>2, Zenon
<1>5. \A x \in saved' \cup {enclave'} : EnclaveOK(x)
  BY <1>1, <1>4 DEF SyncInv
<1>6. relayer' \in Relayers /\ relayer'.hi <= Len(chain)
  BY <1>4, FailedOK, PcOK, Zenon
<1> QED
  BY <1>1, <1>5, <1>6, StepInv, Zenon

LEMMA FetchInv == SyncInv /\ fetch => SyncInv'
<1> SUFFICES ASSUME SyncInv, fetch PROVE SyncInv'
  OBVIOUS
<1> DEFINE headernum == enclave.header_number_next
           next == next_block(relayer, headernum)
           limit == next + FetchBlocks - 1
           buffer == Buffered(relayer, headernum) \union next..Min2(limit, Len(chain))
           lo == IF buffer = {} THEN 1 ELSE Least(buffer)
           hi == IF buffer = {} THEN 0 ELSE Greatest(buffer)
           more == limit < Len(chain)
           to == Max2(headernum, 1) - 1
           r == [relayer EXCEPT !.lo = lo, !.hi = hi, !.more = more,
                   !.headernum = headernum, !.blocknum = enclave.block_number_next,
                   !.to = to, !.pc = "blocks"]
<1>1. UNCHANGED <<chain, enclave, saved>> /\ relayer' = IF buffer = {} THEN Idle(r) ELSE r
  BY DEF fetch
<1>2. \A e \in saved' \cup {enclave'} : EnclaveOK(e)
  BY <1>1, Zenon DEF SyncInv
<1>3. enclave \in Enclaves /\ chain \in Chains /\ relayer \in Relayers
      /\ relayer.hi <= Len(chain)
  BY DEF SyncInv, EnclaveOK, RelayerOK
<1>4. /\ headernum \in Nat /\ enclave.block_number_next \in Nat
      /\ relayer.hi \in Nat /\ relayer.lo \in Nat /\ Len(chain) \in Nat
  BY <1>3 DEF Enclaves, Relayers, Chains
<1>5. next \in Nat
  BY <1>4 DEF next_block
<1>6. limit \in Int
  BY <1>5, BatchAssumption
<1>7. buffer \in SUBSET Nat /\ \A n \in buffer : n <= Len(chain)
  <2> HIDE DEF next, limit, headernum
  <2>1. \A n \in Buffered(relayer, headernum) : n \in Nat /\ n <= Len(chain)
    BY <1>3, <1>4 DEF Buffered
  <2>2. \A n \in next..Min2(limit, Len(chain)) : n \in Nat /\ n <= Len(chain)
    BY <1>4, <1>5, <1>6 DEF Min2
  <2> QED BY <2>1, <2>2
<1>8. lo \in Nat /\ hi \in Nat /\ hi <= Len(chain)
  <2> HIDE DEF buffer
  <2>1. CASE buffer = {}
    BY <1>4, <2>1
  <2>2. CASE buffer # {}
    <3>1. Least(buffer) \in buffer /\ Greatest(buffer) \in buffer
      BY <1>4, <1>7, <2>2, LeastIn, GreatestIn, Zenon
    <3> QED BY <1>7, <2>2, <3>1, Zenon
  <2> QED BY <2>1, <2>2
<1>9. more \in BOOLEAN /\ to \in Int
  BY <1>4 DEF Max2
<1> HIDE DEF lo, hi, more, to, headernum, buffer
<1>10. r \in Relayers /\ r.hi = hi
  BY <1>3, <1>4, <1>8, <1>9, Zenon DEF Relayers
<1> HIDE DEF r
<1>11. relayer' \in Relayers /\ relayer'.hi = hi
  BY <1>1, <1>10, LoopOK, Zenon
<1> QED
  BY <1>1, <1>2, <1>8, <1>11, StepInv, Zenon

LEMMA SyncBlocksInv == SyncInv /\ sync_blocks => SyncInv'
<1> SUFFICES ASSUME SyncInv, sync_blocks PROVE SyncInv'
  OBVIOUS
<1>1. /\ UNCHANGED chain /\ EnclaveOK(enclave) /\ \A e \in saved : EnclaveOK(e)
      /\ relayer \in Relayers /\ relayer.hi <= Len(chain)
  BY DEF SyncInv, RelayerOK, sync_blocks
<1>2. CASE relayer.blocknum > relayer.to
  <2>1. UNCHANGED <<enclave, saved>> /\ relayer' = [relayer EXCEPT !.pc = "headers"]
    BY <1>2, Zenon DEF sync_blocks
  <2>2. \A e \in saved' \cup {enclave'} : EnclaveOK(e)
    BY <1>1, <2>1
  <2>3. relayer' \in Relayers /\ relayer'.hi <= Len(chain)
    BY <2>1, PcOK, Zenon
  <2> QED BY <1>1, <2>2, <2>3, StepInv, Zenon
<1>3. CASE ~(relayer.blocknum > relayer.to)
  <2> DEFINE r == dispatch_blocks(enclave, relayer.blocknum)
  <2>1. /\ enclave' = r.e /\ saved' = Checkpoints(r.e)
        /\ IF r.ok THEN relayer' = [relayer EXCEPT !.blocknum = @ + 1, !.synced = TRUE]
           ELSE Failed
    BY <1>3, Zenon DEF sync_blocks
  <2>2. EnclaveOK(r.e)
    <3>1. CASE ~enclave.init
      BY <1>1, <3>1, Zenon DEF dispatch_blocks, Err
    <3>2. CASE enclave.init /\ relayer.blocknum < enclave.block_number_next
      BY <1>1, <3>2 DEF dispatch_blocks, Ok
    <3>3. CASE enclave.init /\ ~(relayer.blocknum < enclave.block_number_next)
      <4>1. r = feed_block(enclave, relayer.blocknum)
        BY <3>3 DEF dispatch_blocks
      <4> QED BY <1>1, <3>3, <4>1, FeedOK, Zenon
    <3> QED BY <3>1, <3>2, <3>3
  <2> HIDE DEF r
  <2>3. saved' \in {saved, saved \cup {r.e}}
    BY <2>1 DEF Checkpoints
  <2>4. \A e \in saved' \cup {enclave'} : EnclaveOK(e)
    BY <1>1, <2>1, <2>2, <2>3
  <2>5. relayer' \in Relayers /\ relayer'.hi <= Len(chain)
    <3>1. CASE r.ok
      <4>1. relayer.blocknum + 1 \in Nat
        BY <1>1 DEF Relayers
      <4>2. relayer' = [relayer EXCEPT !.blocknum = relayer.blocknum + 1, !.synced = TRUE]
        BY <2>1, <3>1
      <4>3. relayer' \in Relayers /\ relayer'.hi = relayer.hi
        BY <1>1, <4>1, <4>2, Zenon DEF Relayers
      <4> QED BY <1>1, <4>3, Zenon
    <3>2. CASE ~r.ok
      BY <2>1, <3>2, FailedOK, Zenon
    <3> QED BY <3>1, <3>2
  <2> QED BY <1>1, <2>4, <2>5, StepInv, Zenon
<1> QED
  BY <1>2, <1>3

LEMMA SyncHeadersInv == SyncInv /\ sync_headers => SyncInv'
<1> SUFFICES ASSUME SyncInv, sync_headers PROVE SyncInv'
  OBVIOUS
<1> DEFINE changes == bisec_setid_change(relayer)
           end == IF changes = {} THEN relayer.hi ELSE Least(changes)
           ends == {n \in relayer.lo..end : Justified(n)}
           last == Greatest(ends)
           from == Max2(relayer.lo, relayer.headernum)
           s == sync_header(enclave, from, last)
           set == IF changes = {} THEN <<relayer.hi, last_set(relayer)[2]>>
                  ELSE <<end + 1, last_set(relayer)[2] + 1>>
<1>1. /\ UNCHANGED <<chain, saved>> /\ EnclaveOK(enclave) /\ \A e \in saved : EnclaveOK(e)
      /\ relayer \in Relayers /\ relayer.hi <= Len(chain) /\ chain \in Chains
  BY DEF SyncInv, RelayerOK, sync_headers
<1>2. /\ relayer.lo \in Nat /\ relayer.hi \in Nat /\ relayer.headernum \in Nat
      /\ relayer.set \in {NoSet} \cup (Int \X Int) /\ Len(chain) \in Nat
  BY <1>1 DEF Relayers, Chains
<1>3. CASE relayer.lo > relayer.hi \/ ends = {}
  <2>1. relayer' \in {Loop(relayer), Idle(relayer)} /\ UNCHANGED enclave
    BY <1>3 DEF sync_headers
  <2>2. \A e \in saved' \cup {enclave'} : EnclaveOK(e)
    BY <1>1, <2>1
  <2>3. relayer' \in Relayers /\ relayer'.hi = relayer.hi
    BY <1>1, <2>1, LoopOK
  <2> QED BY <1>1, <2>2, <2>3, StepInv, Zenon
<1>4. CASE ~(relayer.lo > relayer.hi \/ ends = {})
  <2>1. /\ enclave' = s.e
        /\ IF s.ok
           THEN relayer' = [relayer EXCEPT !.pc = "blocks", !.lo = last + 1,
                              !.headernum = s.n + 1, !.to = s.n, !.set = set]
           ELSE Failed
    BY <1>4, Zenon DEF sync_headers
  <2>2. end \in Nat /\ end <= relayer.hi
    <3>1. changes \in SUBSET Nat /\ \A n \in changes : n <= relayer.hi
      BY <1>2 DEF bisec_setid_change
    <3> HIDE DEF changes
    <3>2. CASE changes = {}
      BY <1>2, <3>2
    <3>3. CASE changes # {}
      <4>1. Least(changes) \in changes
        BY <3>1, <3>3, LeastIn, Zenon
      <4> QED BY <3>1, <3>3, <4>1, Zenon
    <3> QED BY <3>2, <3>3, Zenon
  <2>3. last \in Nat /\ last <= Len(chain)
    <3> HIDE DEF end
    <3>1. ends \in SUBSET Nat /\ \A n \in ends : n <= relayer.hi
      BY <1>2, <2>2
    <3>2. ends # {}
      BY <1>4
    <3> HIDE DEF ends
    <3>3. last \in ends
      BY <1>2, <3>1, <3>2, GreatestIn, Zenon
    <3>4. last \in Nat /\ last <= relayer.hi
      BY <3>1, <3>3, Zenon
    <3> HIDE DEF last
    <3> QED BY <1>1, <1>2, <3>4
  <2>4. from \in Nat
    BY <1>2 DEF Max2
  <2> HIDE DEF from, last
  <2>5. EnclaveOK(s.e) /\ (s.ok => s.n + 1 \in Nat /\ s.n \in Int)
    BY <1>1, <2>3, <2>4, HeadersOK, Zenon
  <2> HIDE DEF s
  <2>6. \A e \in saved' \cup {enclave'} : EnclaveOK(e)
    BY <1>1, <2>1, <2>5, Zenon
  <2>7. set \in Int \X Int
    <3>1. last_set(relayer)[2] \in Int
      <4>1. CASE relayer.set # NoSet
        BY <1>2, <4>1 DEF last_set
      <4>2. CASE relayer.set = NoSet
        <5> DEFINE n == Max2(relayer.lo, 1) - 1
        <5>1. n \in Int
          BY <1>2 DEF Max2
        <5>2. last_set(relayer) = <<n, SetId(n)>>
          BY <4>2 DEF last_set
        <5> HIDE DEF n
        <5>3. SetId(n) \in Nat
          BY <5>1, SetType, Zenon
        <5> QED BY <5>2, <5>3
      <4> QED BY <4>1, <4>2, Zenon
    <3> HIDE DEF end, changes
    <3> QED BY <1>2, <2>2, <3>1
  <2> HIDE DEF set
  <2>8. relayer' \in Relayers /\ relayer'.hi <= Len(chain)
    <3>1. CASE s.ok
      <4>1. last + 1 \in Nat
        BY <2>3
      <4>2. relayer' \in Relayers /\ relayer'.hi = relayer.hi
        BY <1>1, <2>1, <2>5, <2>7, <3>1, <4>1, ZenonT(30) DEF Relayers
      <4> QED BY <1>1, <4>2, Zenon
    <3>2. CASE ~s.ok
      BY <2>1, <3>2, FailedOK, Zenon
    <3> QED BY <3>1, <3>2
  <2> QED BY <1>1, <2>6, <2>8, StepInv, Zenon
<1> QED
  BY <1>3, <1>4

LEMMA NextSync == SyncInv /\ [Next_sync]_syncVars => SyncInv'
<1> SUFFICES ASSUME SyncInv, [Next_sync]_syncVars PROVE SyncInv'
  OBVIOUS
<1>1. CASE UNCHANGED syncVars
  <2>1. UNCHANGED <<chain, enclave, saved, relayer>>
    BY <1>1 DEF syncVars
  <2>2. \A e \in saved' \cup {enclave'} : EnclaveOK(e)
    BY <2>1 DEF SyncInv
  <2> QED BY <2>1, <2>2, StepInv DEF SyncInv, RelayerOK
<1>2. CASE Next_sync
  <2>1. CASE \E c, j \in BOOLEAN : Finalize(c, j)
    BY <2>1, FinalizeInv
  <2>2. CASE Relay
    BY <2>2, RunInv, StartInv, FetchInv, SyncBlocksInv, SyncHeadersInv, Zenon DEF Relay
  <2>3. CASE Fault \/ Restart
    BY <2>3, FaultInv, RestartInv
  <2> QED BY <1>2, <2>1, <2>2, <2>3 DEF Next_sync
<1> QED
  BY <1>1, <1>2

------------------------------------------------------------------------------
\* The authority set of the enclave is the one that signs the block after
\* its last header, and once a block was applied its storage is that of the
\* finalised block before the next one: for every chain, every batch size,
\* wherever calls fail, the enclave restarts and a fast sync begins.
THEOREM SyncSafe == Spec_sync => []FollowsChain
<1>1. SyncInv => FollowsChain
  BY DEF SyncInv, EnclaveOK, FollowsChain
<1> QED
  BY <1>1, InitSync, NextSync, PTL DEF Spec_sync

==============================================================================
