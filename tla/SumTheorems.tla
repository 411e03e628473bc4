----------------------------- MODULE SumTheorems -----------------------------
(***************************************************************************)
(* Facts about finite sets and about finite sums, SumFunctionOnSet of the   *)
(* module Functions, which the accounting invariants add up balances and    *)
(* claims with.                                                             *)
(***************************************************************************)
EXTENDS Integers, Sequences, FiniteSets, Functions, WellFoundedInduction, TLAPS

(* Induction over the natural numbers, for a set G of them.                 *)
LEMMA SetInduction ==
  ASSUME NEW G, 0 \in G, \A n \in Nat : n \in G => n + 1 \in G
  PROVE  \A n \in Nat : n \in G
<1> DEFINE Bad == {n \in Nat : n \notin G}
           R == OpToRel(<, Nat)
<1>1. SUFFICES ASSUME Bad # {} PROVE FALSE
  OBVIOUS
<1>2. IsWellFoundedOn(R, Nat)
  BY NatLessThanWellFounded
<1>3. PICK n \in Bad : \A m \in Bad : <<m, n>> \notin R
  <2>1. Bad \subseteq Nat
    OBVIOUS
  <2> HIDE DEF Bad, R
  <2> QED BY <1>1, <1>2, <2>1, WFMin
<1>4. n \in Nat /\ n # 0 /\ n \notin G
  OBVIOUS
<1>5. n - 1 \in Nat /\ n - 1 \in Bad
  BY <1>4
<1>6. <<n - 1, n>> \in R
  BY <1>4, <1>5 DEF OpToRel
<1> QED BY <1>3, <1>5, <1>6

(* What the first k entries of a sequence list.                             *)
Prefix(s, k) == {s[i] : i \in 1 .. k}

(* A set of subsets of what a sequence lists has a smallest one.            *)
LEMMA SmallestListed ==
  ASSUME NEW s, NEW k \in Nat, NEW B, B # {}, B \subseteq SUBSET Prefix(s, k)
  PROVE  \E T \in B : \A U \in SUBSET T : U # T => U \notin B
<1> DEFINE Least(X) == \E T \in X : \A U \in SUBSET T : U # T => U \notin X
           G == {n \in Nat : \A X \in SUBSET SUBSET Prefix(s, n) : X # {} => Least(X)}
<1>1. 0 \in G
  <2>1. Prefix(s, 0) = {}
    BY DEF Prefix
  <2> QED BY <2>1
<1>2. ASSUME NEW n \in Nat, n \in G
      PROVE  n + 1 \in G
  <2> SUFFICES ASSUME NEW X \in SUBSET SUBSET Prefix(s, n + 1), X # {}
               PROVE  Least(X)
    OBVIOUS
  <2> DEFINE a == s[n + 1]
             P == Prefix(s, n)
             X0 == {T \in X : T \subseteq P}
             X1 == {T \ {a} : T \in X}
  <2>1. Prefix(s, n + 1) = P \cup {a}
    <3>1. 1 .. n + 1 = (1 .. n) \cup {n + 1}
      OBVIOUS
    <3> QED BY <3>1 DEF Prefix
  <2>2. CASE X0 # {}
    <3>1. PICK T \in X0 : \A U \in SUBSET T : U # T => U \notin X0
      <4>1. X0 \in SUBSET SUBSET P
        OBVIOUS
      <4> HIDE DEF X0, P
      <4> QED BY <1>2, <2>2, <4>1 DEF P
    <3> QED BY <3>1
  <2>3. CASE X0 = {}
    <3>1. \A T \in X : a \in T
      BY <2>1, <2>3
    <3>2. PICK V \in X1 : \A U \in SUBSET V : U # V => U \notin X1
      <4>1. \A T \in X : T \ {a} \subseteq P
        BY <2>1
      <4>2. X1 \in SUBSET SUBSET P /\ X1 # {}
        BY <4>1
      <4> HIDE DEF X1, P
      <4> QED BY <1>2, <4>2 DEF P
    <3>3. PICK T \in X : V = T \ {a}
      OBVIOUS
    <3>4. ASSUME NEW U \in SUBSET T, U # T, U \in X
          PROVE  FALSE
      <4>1. a \in U /\ a \in T
        BY <3>1, <3>4
      <4>2. U \ {a} \in X1 /\ U \ {a} \in SUBSET V /\ U \ {a} # V
        BY <3>3, <3>4, <4>1
      <4> QED BY <3>2, <4>2
    <3> QED BY <3>4
  <2> QED BY <2>2, <2>3
<1>3. k \in G
  <2> HIDE DEF G
  <2> QED BY <1>1, <1>2, SetInduction
<1>4. B \in SUBSET SUBSET Prefix(s, k)
  OBVIOUS
<1> QED BY <1>3, <1>4

(* Induction over the subsets of a finite set, for a set G of subsets: if a *)
(* set is in G whenever its proper subsets are, every subset is in G.       *)
LEMMA SubsetInduction ==
  ASSUME NEW S, IsFiniteSet(S), NEW G,
         \A T \in SUBSET S : (\A U \in SUBSET T : U # T => U \in G) => T \in G
  PROVE  \A T \in SUBSET S : T \in G
<1> DEFINE Bad == {T \in SUBSET S : T \notin G}
<1>1. SUFFICES ASSUME Bad # {} PROVE FALSE
  OBVIOUS
<1>2. PICK s \in Seq(S) : \A x \in S : \E n \in 1 .. Len(s) : s[n] = x
  BY DEF IsFiniteSet
<1>3. Len(s) \in Nat /\ S = Prefix(s, Len(s))
  BY <1>2 DEF Prefix
<1>4. PICK T \in Bad : \A U \in SUBSET T : U # T => U \notin Bad
  <2>1. Bad \subseteq SUBSET Prefix(s, Len(s))
    BY <1>3
  <2> HIDE DEF Bad
  <2> QED BY <1>1, <1>3, <2>1, SmallestListed
<1> QED BY <1>4

-----------------------------------------------------------------------------
(* Finite sets. *)

LEMMA FiniteEmpty == IsFiniteSet({})
<1>1. << >> \in Seq({})
  OBVIOUS
<1> QED BY <1>1 DEF IsFiniteSet

(* One more element leaves a set finite.                                    *)
LEMMA FiniteAdd ==
  ASSUME NEW S, IsFiniteSet(S), NEW x
  PROVE  IsFiniteSet(S \cup {x})
<1>1. PICK s \in Seq(S) : \A y \in S : \E n \in 1 .. Len(s) : s[n] = y
  BY DEF IsFiniteSet
<1> DEFINE t == Append(s, x)
<1>2. s \in Seq(S \cup {x}) /\ x \in S \cup {x}
  BY <1>1
<1>3. /\ t \in Seq(S \cup {x}) /\ Len(s) \in Nat /\ Len(t) = Len(s) + 1
      /\ t[Len(t)] = x /\ \A n \in 1 .. Len(s) : t[n] = s[n]
  BY <1>2
<1> HIDE DEF t
<1>4. ASSUME NEW y \in S \cup {x}
      PROVE  \E n \in 1 .. Len(t) : t[n] = y
  <2>1. CASE y = x
    <3>1. Len(t) \in 1 .. Len(t)
      BY <1>3
    <3> QED BY <1>3, <2>1, <3>1
  <2>2. CASE y \in S
    <3>1. PICK n \in 1 .. Len(s) : s[n] = y
      BY <1>1, <2>2
    <3>2. n \in 1 .. Len(t)
      BY <1>3
    <3> QED BY <1>3, <3>1, <3>2
  <2> QED BY <2>1, <2>2
<1> QED BY <1>3, <1>4 DEF IsFiniteSet

(* A subset of a finite set is finite.                                      *)
LEMMA FiniteSubset ==
  ASSUME NEW S, IsFiniteSet(S), NEW T \in SUBSET S
  PROVE  IsFiniteSet(T)
<1> DEFINE G == {U \in SUBSET S : IsFiniteSet(U)}
<1>1. ASSUME NEW V \in SUBSET S, \A U \in SUBSET V : U # V => U \in G
      PROVE  V \in G
  <2>1. CASE V = {}
    BY <2>1, FiniteEmpty
  <2>2. CASE V # {}
    <3>1. PICK x : x \in V
      BY <2>2
    <3>2. IsFiniteSet(V \ {x})
      BY <1>1, <3>1
    <3>3. (V \ {x}) \cup {x} = V
      BY <3>1
    <3> QED BY <3>2, <3>3, FiniteAdd
  <2> QED BY <2>1, <2>2
<1>2. \A V \in SUBSET S : V \in G
  <2> HIDE DEF G
  <2> QED BY <1>1, SubsetInduction
<1> QED BY <1>2

(* The values of a function on a finite set are finitely many.              *)
LEMMA FiniteImage ==
  ASSUME NEW f, NEW S, IsFiniteSet(S)
  PROVE  IsFiniteSet({f[x] : x \in S})
<1> DEFINE Image(T) == {f[x] : x \in T}
           G == {T \in SUBSET S : IsFiniteSet(Image(T))}
<1>1. ASSUME NEW T \in SUBSET S, \A U \in SUBSET T : U # T => U \in G
      PROVE  T \in G
  <2>1. CASE T = {}
    <3>1. Image(T) = {}
      BY <2>1
    <3> QED BY <3>1, FiniteEmpty
  <2>2. CASE T # {}
    <3>1. PICK x : x \in T
      BY <2>2
    <3>2. IsFiniteSet(Image(T \ {x}))
      BY <1>1, <3>1
    <3>3. Image(T) = Image(T \ {x}) \cup {f[x]}
      BY <3>1
    <3> HIDE DEF Image
    <3> QED BY <3>2, <3>3, FiniteAdd
  <2> QED BY <2>1, <2>2
<1>2. \A T \in SUBSET S : T \in G
  <2> HIDE DEF G
  <2> QED BY <1>1, SubsetInduction
<1> QED BY <1>2

(* The union of two finite sets is finite,                                  *)
LEMMA FiniteUnion ==
  ASSUME NEW R, NEW S, IsFiniteSet(R), IsFiniteSet(S)
  PROVE  IsFiniteSet(R \cup S)
<1> DEFINE G == {T \in SUBSET S : IsFiniteSet(R \cup T)}
<1>1. ASSUME NEW T \in SUBSET S, \A U \in SUBSET T : U # T => U \in G
      PROVE  T \in G
  <2>1. CASE T = {}
    <3>1. R \cup T = R
      BY <2>1
    <3> QED BY <3>1
  <2>2. CASE T # {}
    <3>1. PICK x : x \in T
      BY <2>2
    <3>2. IsFiniteSet(R \cup (T \ {x}))
      BY <1>1, <3>1
    <3>3. R \cup T = (R \cup (T \ {x})) \cup {x}
      BY <3>1
    <3> QED BY <3>2, <3>3, FiniteAdd
  <2> QED BY <2>1, <2>2
<1>2. \A T \in SUBSET S : T \in G
  <2> HIDE DEF G
  <2> QED BY <1>1, SubsetInduction
<1> QED BY <1>2

(* and so is their product.                                                 *)
LEMMA FiniteProduct ==
  ASSUME NEW R, NEW S, IsFiniteSet(R), IsFiniteSet(S)
  PROVE  IsFiniteSet(R \X S)
<1> DEFINE G == {T \in SUBSET S : IsFiniteSet(R \X T)}
<1>1. ASSUME NEW T \in SUBSET S, \A U \in SUBSET T : U # T => U \in G
      PROVE  T \in G
  <2>1. CASE T = {}
    <3>1. R \X T = {}
      BY <2>1
    <3> QED BY <3>1, FiniteEmpty
  <2>2. CASE T # {}
    <3>1. PICK x : x \in T
      BY <2>2
    <3>2. IsFiniteSet(R \X (T \ {x}))
      BY <1>1, <3>1
    <3> DEFINE f == [r \in R |-> <<r, x>>]
               V == {f[r] : r \in R}
    <3>3. IsFiniteSet(V)
      <4> HIDE DEF f
      <4> QED BY FiniteImage
    <3>4. R \X T = (R \X (T \ {x})) \cup V
      BY <3>1
    <3> HIDE DEF V
    <3> QED BY <3>2, <3>3, <3>4, FiniteUnion
  <2> QED BY <2>1, <2>2
<1>2. \A T \in SUBSET S : T \in G
  <2> HIDE DEF G
  <2> QED BY <1>1, SubsetInduction
<1> QED BY <1>2

-----------------------------------------------------------------------------
(* The function that the sum is defined by: its value for every subset.     *)

Pick(s) == CHOOSE x \in s : TRUE
Sums(f, S, g) ==
  g = [s \in SUBSET S |-> IF s = {} THEN 0 ELSE f[Pick(s)] + g[s \ {Pick(s)}]]

(* The element picked is one of the set.                                    *)
LEMMA PickIn ==
  ASSUME NEW s, s # {}
  PROVE  Pick(s) \in s
BY DEF Pick

(* The value for one subset.                                                *)
LEMMA SumsAt ==
  ASSUME NEW f, NEW S, NEW g, Sums(f, S, g), NEW s \in SUBSET S
  PROVE  g[s] = IF s = {} THEN 0 ELSE f[Pick(s)] + g[s \ {Pick(s)}]
BY DEF Sums

(* There is at most one such function,                                      *)
LEMMA SumsUnique ==
  ASSUME NEW f, NEW S, NEW T, NEW g, NEW h, IsFiniteSet(S),
         Sums(f, S, g), Sums(f, T, h)
  PROVE  \A s \in SUBSET (S \cap T) : g[s] = h[s]
<1> DEFINE G == {s \in SUBSET (S \cap T) : g[s] = h[s]}
<1>1. ASSUME NEW s \in SUBSET (S \cap T), \A u \in SUBSET s : u # s => u \in G
      PROVE  s \in G
  <2>1. CASE s = {}
    BY <2>1, SumsAt
  <2>2. CASE s # {}
    <3>1. Pick(s) \in s
      BY <2>2, PickIn
    <3>2. s \ {Pick(s)} \in G
      BY <3>1, <1>1
    <3>3. g[s \ {Pick(s)}] = h[s \ {Pick(s)}]
      BY <3>2
    <3>4. s \in SUBSET S /\ s \in SUBSET T
      OBVIOUS
    <3>5. g[s] = f[Pick(s)] + g[s \ {Pick(s)}]
      BY <2>2, <3>4, SumsAt
    <3>6. h[s] = f[Pick(s)] + h[s \ {Pick(s)}]
      BY <2>2, <3>4, SumsAt
    <3> QED BY <3>3, <3>5, <3>6
  <2> QED BY <2>1, <2>2
<1>2. IsFiniteSet(S \cap T)
  BY FiniteSubset
<1>3. \A s \in SUBSET (S \cap T) : s \in G
  <2> HIDE DEF G
  <2> QED BY <1>1, <1>2, SubsetInduction
<1> QED BY <1>3

(* and there is one, for every finite set.                                  *)
LEMMA SumsExist ==
  ASSUME NEW f, NEW S, IsFiniteSet(S)
  PROVE  \E g : Sums(f, S, g)
<1> DEFINE G == {T \in SUBSET S : \E g : Sums(f, T, g)}
<1>1. ASSUME NEW T \in SUBSET S, \A U \in SUBSET T : U # T => U \in G
      PROVE  T \in G
  <2> DEFINE h(U) == CHOOSE g : Sums(f, U, g)
             less(s) == s \ {Pick(s)}
             top == [s \in SUBSET T |-> IF s = {} THEN 0 ELSE f[Pick(s)] + h(less(s))[less(s)]]
  <2>1. ASSUME NEW U \in SUBSET T, U # T
        PROVE  Sums(f, U, h(U))
    BY <1>1, <2>1
  <2>2. ASSUME NEW s \in SUBSET T, s # {}
        PROVE  top[less(s)] = h(less(s))[less(s)]
    <3>1. Pick(s) \in s /\ less(s) \in SUBSET T /\ less(s) # T
      BY <2>2, PickIn
    <3>2. Sums(f, less(s), h(less(s)))
      BY <2>1, <3>1
    <3>3. CASE less(s) = {}
      <4>1. top[less(s)] = 0
        BY <3>1, <3>3
      <4>2. h(less(s))[less(s)] = 0
        <5> HIDE DEF h, less, top
        <5> QED BY <3>2, <3>3, SumsAt
      <4> QED BY <4>1, <4>2
    <3>4. CASE less(s) # {}
      <4> DEFINE u == less(s)
                 w == less(u)
      <4>0. Pick(u) \in u
        BY <3>4, PickIn
      <4>1. w \in SUBSET T /\ w # T /\ w \in SUBSET u
        BY <3>1, <4>0
      <4>2. Sums(f, w, h(w))
        BY <2>1, <4>1
      <4>3. top[u] = f[Pick(u)] + h(w)[w]
        BY <3>1, <3>4
      <4>4. h(u)[u] = f[Pick(u)] + h(u)[w]
        <5>1. w = u \ {Pick(u)}
          OBVIOUS
        <5> HIDE DEF h, less, top, w
        <5> QED BY <3>2, <3>4, <5>1, SumsAt
      <4>5. IsFiniteSet(u) /\ w \in SUBSET (u \cap w)
        BY <3>1, <4>1, FiniteSubset
      <4>6. h(u)[w] = h(w)[w]
        <5> HIDE DEF h, less, top, w
        <5> QED BY <3>2, <4>2, <4>5, SumsUnique
      <4> QED BY <4>3, <4>4, <4>6
    <3> QED BY <3>3, <3>4
  <2>3. Sums(f, T, top)
    <3> HIDE DEF h
    <3> SUFFICES top = [s \in SUBSET T |-> IF s = {} THEN 0 ELSE f[Pick(s)] + top[s \ {Pick(s)}]]
      BY DEF Sums
    <3> QED BY <2>2
  <2> QED BY <2>3
<1>2. \A T \in SUBSET S : T \in G
  <2> HIDE DEF G
  <2> QED BY <1>1, SubsetInduction
<1> QED BY <1>2

(* The sum of the library is its value.                                     *)
LEMMA SumIs ==
  ASSUME NEW f, NEW S, IsFiniteSet(S), NEW g, Sums(f, S, g)
  PROVE  \A T \in SUBSET S : SumFunctionOnSet(f, T) = g[T]
<1> SUFFICES ASSUME NEW T \in SUBSET S PROVE SumFunctionOnSet(f, T) = g[T]
  OBVIOUS
<1>1. IsFiniteSet(T)
  BY FiniteSubset
<1> DEFINE iter == CHOOSE h : Sums(f, T, h)
<1>2. Sums(f, T, iter)
  BY <1>1, SumsExist
<1>3. SumFunctionOnSet(f, T) = iter[T]
  BY DEF SumFunctionOnSet, FoldFunctionOnSet, MapThenFoldSet, Sums, Pick
<1>4. iter[T] = g[T]
  <2> HIDE DEF iter
  <2> QED BY <1>1, <1>2, SumsUnique
<1> QED BY <1>3, <1>4

(* The definition unfolded by one step.                                     *)
LEMMA SumUnfold ==
  ASSUME NEW f, NEW T, IsFiniteSet(T)
  PROVE  SumFunctionOnSet(f, T) =
           IF T = {} THEN 0 ELSE f[Pick(T)] + SumFunctionOnSet(f, T \ {Pick(T)})
<1>1. PICK g : Sums(f, T, g)
  BY SumsExist
<1>2. SumFunctionOnSet(f, T) = g[T] /\ SumFunctionOnSet(f, T \ {Pick(T)}) = g[T \ {Pick(T)}]
  BY <1>1, SumIs
<1>3. g[T] = IF T = {} THEN 0 ELSE f[Pick(T)] + g[T \ {Pick(T)}]
  BY <1>1, SumsAt
<1> QED BY <1>2, <1>3

-----------------------------------------------------------------------------
(* What the accounting proofs use.                                          *)

(* The sum over no element is zero.                                         *)
LEMMA SumEmpty == \A f : SumFunctionOnSet(f, {}) = 0
<1>1. IsFiniteSet({})
  BY FiniteEmpty
<1> QED BY <1>1, SumUnfold

(* A sum of integers is an integer.                                         *)
LEMMA SumInt ==
  ASSUME NEW f, NEW S, IsFiniteSet(S), \A x \in S : f[x] \in Int
  PROVE  SumFunctionOnSet(f, S) \in Int
<1> DEFINE G == {T \in SUBSET S : SumFunctionOnSet(f, T) \in Int}
<1>1. ASSUME NEW T \in SUBSET S, \A U \in SUBSET T : U # T => U \in G
      PROVE  T \in G
  <2>1. IsFiniteSet(T)
    BY FiniteSubset
  <2>2. CASE T = {}
    BY <2>2, SumEmpty
  <2>3. CASE T # {}
    <3>1. Pick(T) \in T
      BY <2>3, PickIn
    <3>2. T \ {Pick(T)} \in G
      BY <1>1, <3>1
    <3>3. SumFunctionOnSet(f, T) = f[Pick(T)] + SumFunctionOnSet(f, T \ {Pick(T)})
      BY <2>1, <2>3, SumUnfold
    <3> QED BY <3>1, <3>2, <3>3
  <2> QED BY <2>2, <2>3
<1>2. \A T \in SUBSET S : T \in G
  <2> HIDE DEF G
  <2> QED BY <1>1, SubsetInduction
<1> QED BY <1>2

(* Any element may be taken out of a sum, not only the one Pick gives.      *)
LEMMA SumRemove ==
  ASSUME NEW f, NEW S, IsFiniteSet(S), \A x \in S : f[x] \in Int, NEW x \in S
  PROVE  SumFunctionOnSet(f, S) = f[x] + SumFunctionOnSet(f, S \ {x})
<1> DEFINE Splits(T, z) == SumFunctionOnSet(f, T) = f[z] + SumFunctionOnSet(f, T \ {z})
           G == {T \in SUBSET S : \A z \in T : Splits(T, z)}
<1>1. ASSUME NEW T \in SUBSET S, \A U \in SUBSET T : U # T => U \in G, NEW z \in T
      PROVE  Splits(T, z)
  <2> DEFINE y == Pick(T)
             R == T \ {y, z}
  <2>1. IsFiniteSet(T) /\ IsFiniteSet(R) /\ y \in T
    BY PickIn, FiniteSubset
  <2>2. SumFunctionOnSet(f, T) = f[y] + SumFunctionOnSet(f, T \ {y})
    BY <2>1, SumUnfold
  <2>3. CASE y = z
    BY <2>2, <2>3
  <2>4. CASE y # z
    <3>1. Splits(T \ {y}, z) /\ Splits(T \ {z}, y)
      <4>1. T \ {y} \in G /\ T \ {z} \in G
        BY <1>1, <2>1
      <4> QED BY <4>1, <2>1, <2>4
    <3>2. (T \ {y}) \ {z} = R /\ (T \ {z}) \ {y} = R
      OBVIOUS
    <3>3. f[y] \in Int /\ f[z] \in Int /\ SumFunctionOnSet(f, R) \in Int
      <4> HIDE DEF y
      <4> QED BY <2>1, SumInt
    <3>4. /\ SumFunctionOnSet(f, T \ {y}) = f[z] + SumFunctionOnSet(f, R)
          /\ SumFunctionOnSet(f, T \ {z}) = f[y] + SumFunctionOnSet(f, R)
      <4> HIDE DEF R, y
      <4> QED BY <3>1, <3>2
    <3> HIDE DEF R, y
    <3> QED BY <2>2, <3>3, <3>4
  <2> QED BY <2>3, <2>4
<1>2. \A T \in SUBSET S : T \in G
  <2>1. \A T \in SUBSET S : (\A U \in SUBSET T : U # T => U \in G) => T \in G
    BY <1>1
  <2> HIDE DEF G
  <2> QED BY <2>1, SubsetInduction
<1> QED BY <1>2

(* One more element adds its value.                                         *)
LEMMA SumAdd ==
  ASSUME NEW f, NEW S, IsFiniteSet(S), NEW x, x \notin S,
         \A y \in S \cup {x} : f[y] \in Int
  PROVE  SumFunctionOnSet(f, S \cup {x}) = f[x] + SumFunctionOnSet(f, S)
<1>1. IsFiniteSet(S \cup {x}) /\ (S \cup {x}) \ {x} = S
  BY FiniteAdd
<1> QED BY <1>1, SumRemove

(* Functions that agree on the set have the same sum.                       *)
LEMMA SumSame ==
  ASSUME NEW f, NEW g, NEW S, IsFiniteSet(S), \A x \in S : f[x] = g[x]
  PROVE  SumFunctionOnSet(f, S) = SumFunctionOnSet(g, S)
<1> DEFINE G == {T \in SUBSET S : SumFunctionOnSet(f, T) = SumFunctionOnSet(g, T)}
<1>1. ASSUME NEW T \in SUBSET S, \A U \in SUBSET T : U # T => U \in G
      PROVE  T \in G
  <2>1. IsFiniteSet(T)
    BY FiniteSubset
  <2>2. CASE T = {}
    BY <2>2, SumEmpty
  <2>3. CASE T # {}
    <3>1. Pick(T) \in T
      BY <2>3, PickIn
    <3>2. T \ {Pick(T)} \in G
      BY <1>1, <3>1
    <3>3. SumFunctionOnSet(f, T) = f[Pick(T)] + SumFunctionOnSet(f, T \ {Pick(T)})
      BY <2>1, <2>3, SumUnfold
    <3>4. SumFunctionOnSet(g, T) = g[Pick(T)] + SumFunctionOnSet(g, T \ {Pick(T)})
      BY <2>1, <2>3, SumUnfold
    <3> QED BY <3>1, <3>2, <3>3, <3>4
  <2> QED BY <2>2, <2>3
<1>2. \A T \in SUBSET S : T \in G
  <2> HIDE DEF G
  <2> QED BY <1>1, SubsetInduction
<1> QED BY <1>2

(* A change at one element changes the sum by as much.                      *)
LEMMA SumChange ==
  ASSUME NEW f, NEW g, NEW S, IsFiniteSet(S), NEW x \in S,
         \A y \in S : f[y] \in Int /\ g[y] \in Int,
         \A y \in S \ {x} : f[y] = g[y]
  PROVE  SumFunctionOnSet(g, S) = SumFunctionOnSet(f, S) + g[x] - f[x]
<1>1. SumFunctionOnSet(f, S) = f[x] + SumFunctionOnSet(f, S \ {x})
  BY SumRemove
<1>2. SumFunctionOnSet(g, S) = g[x] + SumFunctionOnSet(g, S \ {x})
  BY SumRemove
<1>3. IsFiniteSet(S \ {x})
  BY FiniteSubset
<1>4. SumFunctionOnSet(f, S \ {x}) = SumFunctionOnSet(g, S \ {x})
  BY <1>3, SumSame
<1>5. SumFunctionOnSet(f, S \ {x}) \in Int /\ f[x] \in Int /\ g[x] \in Int
  BY <1>3, SumInt
<1> QED BY <1>1, <1>2, <1>4, <1>5

(* A sum of two functions is the sum of their sums.                         *)
LEMMA SumPlus ==
  ASSUME NEW f, NEW g, NEW h, NEW S, IsFiniteSet(S),
         \A x \in S : f[x] \in Int /\ g[x] \in Int /\ h[x] = f[x] + g[x]
  PROVE  SumFunctionOnSet(h, S) = SumFunctionOnSet(f, S) + SumFunctionOnSet(g, S)
<1> DEFINE G == {T \in SUBSET S : SumFunctionOnSet(h, T) =
                                    SumFunctionOnSet(f, T) + SumFunctionOnSet(g, T)}
<1>1. ASSUME NEW T \in SUBSET S, \A U \in SUBSET T : U # T => U \in G
      PROVE  T \in G
  <2>1. IsFiniteSet(T)
    BY FiniteSubset
  <2>2. CASE T = {}
    BY <2>2, SumEmpty
  <2>3. CASE T # {}
    <3> DEFINE x == Pick(T)
               R == T \ {x}
    <3>1. x \in T
      BY <2>3, PickIn
    <3>2. R \in G /\ IsFiniteSet(R)
      BY <1>1, <2>1, <3>1, FiniteSubset
    <3>3. /\ SumFunctionOnSet(f, T) = f[x] + SumFunctionOnSet(f, R)
          /\ SumFunctionOnSet(g, T) = g[x] + SumFunctionOnSet(g, R)
          /\ SumFunctionOnSet(h, T) = h[x] + SumFunctionOnSet(h, R)
      BY <2>1, <2>3, SumUnfold
    <3>4. SumFunctionOnSet(f, R) \in Int /\ SumFunctionOnSet(g, R) \in Int
      <4>1. \A y \in R : f[y] \in Int /\ g[y] \in Int
        OBVIOUS
      <4> HIDE DEF R
      <4> QED BY <3>2, <4>1, SumInt
    <3> HIDE DEF x, R
    <3> QED BY <3>1, <3>2, <3>3, <3>4
  <2> QED BY <2>2, <2>3
<1>2. \A T \in SUBSET S : T \in G
  <2> HIDE DEF G
  <2> QED BY <1>1, SubsetInduction
<1> QED BY <1>2

(* A sum of natural numbers is one, and a larger function has a larger sum. *)
LEMMA SumLeq ==
  ASSUME NEW f, NEW g, NEW S, IsFiniteSet(S),
         \A x \in S : f[x] \in Int /\ g[x] \in Int /\ f[x] <= g[x]
  PROVE  SumFunctionOnSet(f, S) <= SumFunctionOnSet(g, S)
<1> DEFINE G == {T \in SUBSET S : SumFunctionOnSet(f, T) <= SumFunctionOnSet(g, T)}
<1>1. ASSUME NEW T \in SUBSET S, \A U \in SUBSET T : U # T => U \in G
      PROVE  T \in G
  <2>1. IsFiniteSet(T)
    BY FiniteSubset
  <2>2. CASE T = {}
    BY <2>2, SumEmpty
  <2>3. CASE T # {}
    <3> DEFINE x == Pick(T)
               R == T \ {x}
    <3>1. x \in T
      BY <2>3, PickIn
    <3>2. R \in G /\ IsFiniteSet(R)
      BY <1>1, <2>1, <3>1, FiniteSubset
    <3>3. /\ SumFunctionOnSet(f, T) = f[x] + SumFunctionOnSet(f, R)
          /\ SumFunctionOnSet(g, T) = g[x] + SumFunctionOnSet(g, R)
      BY <2>1, <2>3, SumUnfold
    <3>4. SumFunctionOnSet(f, R) \in Int /\ SumFunctionOnSet(g, R) \in Int
      <4>1. \A y \in R : f[y] \in Int /\ g[y] \in Int
        OBVIOUS
      <4> HIDE DEF R
      <4> QED BY <3>2, <4>1, SumInt
    <3> HIDE DEF x, R
    <3> QED BY <3>1, <3>2, <3>3, <3>4
  <2> QED BY <2>2, <2>3
<1>2. \A T \in SUBSET S : T \in G
  <2> HIDE DEF G
  <2> QED BY <1>1, SubsetInduction
<1> QED BY <1>2

(* A sum of zeros is zero,                                                  *)
LEMMA SumZero ==
  ASSUME NEW f, NEW S, IsFiniteSet(S), \A x \in S : f[x] = 0
  PROVE  SumFunctionOnSet(f, S) = 0
<1> DEFINE G == {T \in SUBSET S : SumFunctionOnSet(f, T) = 0}
<1>1. ASSUME NEW T \in SUBSET S, \A U \in SUBSET T : U # T => U \in G
      PROVE  T \in G
  <2>1. IsFiniteSet(T)
    BY FiniteSubset
  <2>2. CASE T = {}
    BY <2>2, SumEmpty
  <2>3. CASE T # {}
    <3>1. Pick(T) \in T
      BY <2>3, PickIn
    <3>2. T \ {Pick(T)} \in G
      BY <1>1, <3>1
    <3>3. SumFunctionOnSet(f, T) = f[Pick(T)] + SumFunctionOnSet(f, T \ {Pick(T)})
      BY <2>1, <2>3, SumUnfold
    <3> QED BY <3>1, <3>2, <3>3
  <2> QED BY <2>2, <2>3
<1>2. \A T \in SUBSET S : T \in G
  <2> HIDE DEF G
  <2> QED BY <1>1, SubsetInduction
<1> QED BY <1>2

(* a sum of natural numbers is one,                                         *)
LEMMA SumNat ==
  ASSUME NEW f, NEW S, IsFiniteSet(S), \A x \in S : f[x] \in Nat
  PROVE  SumFunctionOnSet(f, S) \in Nat
<1> DEFINE zero == [x \in S |-> 0]
<1>1. SumFunctionOnSet(f, S) \in Int
  BY SumInt
<1>2. SumFunctionOnSet(zero, S) = 0
  BY SumZero
<1>3. SumFunctionOnSet(zero, S) <= SumFunctionOnSet(f, S)
  <2>1. \A x \in S : zero[x] \in Int /\ f[x] \in Int /\ zero[x] <= f[x]
    OBVIOUS
  <2> HIDE DEF zero
  <2> QED BY <2>1, SumLeq
<1> QED BY <1>1, <1>2, <1>3

(* A sum of natural numbers is at least each of them.                       *)
LEMMA SumElement ==
  ASSUME NEW f, NEW S, IsFiniteSet(S), \A y \in S : f[y] \in Nat, NEW x \in S
  PROVE  f[x] <= SumFunctionOnSet(f, S)
<1>1. SumFunctionOnSet(f, S) = f[x] + SumFunctionOnSet(f, S \ {x})
  BY SumRemove
<1>2. IsFiniteSet(S \ {x})
  BY FiniteSubset
<1>3. SumFunctionOnSet(f, S \ {x}) \in Nat
  BY <1>2, SumNat
<1> QED BY <1>1, <1>3
-----------------------------------------------------------------------------
(* The cardinality of a finite set is the sum of ones.                      *)
Ones(S) == [x \in S |-> 1]

LEMMA CardinalitySum ==
  ASSUME NEW S, IsFiniteSet(S)
  PROVE  Cardinality(S) = SumFunctionOnSet(Ones(S), S)
<1> DEFINE Rec(g) == g = [T \in SUBSET S |-> IF T = {} THEN 0
                                              ELSE 1 + g[T \ {CHOOSE x : x \in T}]]
           CS == CHOOSE g : Rec(g)
<1>1. ASSUME NEW g
      PROVE  Rec(g) <=> Sums(Ones(S), S, g)
  <2>1. \A T \in SUBSET S : T # {} => (CHOOSE x : x \in T) = Pick(T) /\ Pick(T) \in S
    BY PickIn DEF Pick
  <2>2. \A T \in SUBSET S : T # {} => Ones(S)[Pick(T)] = 1
    BY <2>1 DEF Ones
  <2> QED BY <2>1, <2>2 DEF Sums
<1>2. PICK g : Sums(Ones(S), S, g)
  BY SumsExist
<1>3. Rec(CS)
  <2>1. Rec(g)
    BY <1>1, <1>2
  <2> HIDE DEF Rec
  <2> QED BY <2>1
<1>4. Cardinality(S) = CS[S]
  BY DEF Cardinality
<1> HIDE DEF CS, Rec
<1>5. Sums(Ones(S), S, CS)
  BY <1>1, <1>3
<1> QED BY <1>4, <1>5, SumIs

LEMMA CardinalityEmpty == Cardinality({}) = 0
BY CardinalitySum, FiniteEmpty, SumEmpty

LEMMA CardinalityNat ==
  ASSUME NEW S, IsFiniteSet(S)
  PROVE  Cardinality(S) \in Nat
<1>1. \A x \in S : Ones(S)[x] \in Nat
  BY DEF Ones
<1> QED BY <1>1, CardinalitySum, SumNat

(* An element counts for one.                                               *)
LEMMA CardinalityRemove ==
  ASSUME NEW S, IsFiniteSet(S), NEW x \in S
  PROVE  Cardinality(S \ {x}) = Cardinality(S) - 1
<1>1. IsFiniteSet(S \ {x})
  BY FiniteSubset
<1>2. \A y \in S : Ones(S)[y] = 1
  BY DEF Ones
<1>3. \A y \in S \ {x} : Ones(S \ {x})[y] = Ones(S)[y]
  BY DEF Ones
<1>4. SumFunctionOnSet(Ones(S), S) = 1 + SumFunctionOnSet(Ones(S), S \ {x})
  BY <1>2, SumRemove
<1>5. SumFunctionOnSet(Ones(S \ {x}), S \ {x}) = SumFunctionOnSet(Ones(S), S \ {x})
  BY <1>1, <1>3, SumSame
<1>6. Cardinality(S) = 1 + Cardinality(S \ {x})
  BY <1>1, <1>4, <1>5, CardinalitySum
<1> QED BY <1>1, <1>6, CardinalityNat

LEMMA CardinalityAdd ==
  ASSUME NEW S, IsFiniteSet(S), NEW x, x \notin S
  PROVE  Cardinality(S \cup {x}) = Cardinality(S) + 1
<1>1. IsFiniteSet(S \cup {x}) /\ (S \cup {x}) \ {x} = S /\ x \in S \cup {x}
  BY FiniteAdd
<1>2. Cardinality(S) = Cardinality(S \cup {x}) - 1
  BY <1>1, CardinalityRemove
<1> QED BY <1>1, <1>2, CardinalityNat
==============================================================================
