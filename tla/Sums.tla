-------------------------------- MODULE Sums --------------------------------
(***************************************************************************)
(* Sums over finite sets of indices, as SumFunctionOnSet of Functions      *)
(* computes them, for the proofs about balances, votes and histories.      *)
(*                                                                         *)
(* SumFunctionOnSet is a fold: a recursive function over all subsets of    *)
(* the indices that takes them in an order nobody knows.  The lemmas say   *)
(* that it exists, that it is the sum whatever the order, and how it moves *)
(* when a summand is added or changed.  Instead of an induction rule they  *)
(* use that subsets of a finite set are well-founded: of the subsets for   *)
(* which a lemma is false there would be a smallest one.                   *)
(***************************************************************************)
EXTENDS Functions, Integers, Sequences, FiniteSetTheorems, WellFoundedInduction, TLAPS

\* Of the subsets of a finite set that are in B one has no smaller one in B.
LEMMA SmallestSubset ==
    ASSUME NEW S, IsFiniteSet(S), NEW B \in SUBSET SUBSET S, B # {}
    PROVE  \E T \in B : IsFiniteSet(T) /\ \A U \in SUBSET T : U # T => U \notin B
  <1>1. FiniteSubsetsOf(S) = SUBSET S
    BY FS_FiniteSubsetsOfFinite
  <1>2. IsWellFoundedOn(StrictSubsetOrdering(S), SUBSET S)
    BY <1>1, FS_StrictSubsetOrderingWellFounded
  <1>3. PICK T \in B : \A U \in B : <<U, T>> \notin StrictSubsetOrdering(S)
    BY <1>2, WFMin
  <1>4. \A U \in SUBSET T : U # T => U \notin B
    BY <1>3 DEF StrictSubsetOrdering
  <1>5. QED
    BY <1>3, <1>4, FS_Subset

One(s) == CHOOSE x \in s : TRUE

\* h adds f up over every subset of S, one chosen element after the other.
AddsUp(h, f, S) ==
    h = [s \in SUBSET S |-> IF s = {} THEN 0 ELSE f[One(s)] + h[s \ {One(s)}]]

LEMMA SumIsFold ==
    ASSUME NEW f, NEW S
    PROVE  SumFunctionOnSet(f, S) = (CHOOSE h : AddsUp(h, f, S))[S]
  BY DEF SumFunctionOnSet, FoldFunctionOnSet, MapThenFoldSet, AddsUp, One

LEMMA OneIsIn == ASSUME NEW s, s # {} PROVE One(s) \in s
  BY DEF One

LEMMA AddsUpUnique ==
    ASSUME NEW f, NEW S, NEW T, NEW g, NEW h, AddsUp(g, f, S), AddsUp(h, f, T),
           NEW V \in SUBSET (S \intersect T), IsFiniteSet(V)
    PROVE  g[V] = h[V]
  <1> DEFINE B == {U \in SUBSET V : g[U] # h[U]}
  <1> SUFFICES ASSUME B # {} PROVE FALSE
    OBVIOUS
  <1>0. B \in SUBSET SUBSET V
    OBVIOUS
  <1>1. PICK U \in B : \A W \in SUBSET U : W # U => W \notin B
    <2> HIDE DEF B
    <2>1. QED BY <1>0, SmallestSubset
  <1>2. /\ g[U] = IF U = {} THEN 0 ELSE f[One(U)] + g[U \ {One(U)}]
        /\ h[U] = IF U = {} THEN 0 ELSE f[One(U)] + h[U \ {One(U)}]
    BY DEF AddsUp
  <1>3. U # {}
    BY <1>2
  <1>4. g[U \ {One(U)}] = h[U \ {One(U)}]
    BY <1>1, <1>3, OneIsIn
  <1>5. QED
    BY <1>2, <1>3, <1>4

LEMMA AddsUpExists ==
    ASSUME NEW f, NEW S, IsFiniteSet(S)
    PROVE  AddsUp(CHOOSE h : AddsUp(h, f, S), f, S)
  <1> DEFINE Fold(V) == CHOOSE h : AddsUp(h, f, V)
             B == {V \in SUBSET S : ~AddsUp(Fold(V), f, V)}
  <1> SUFFICES ASSUME B # {} PROVE FALSE
    OBVIOUS
  <1>0. B \in SUBSET SUBSET S
    OBVIOUS
  <1>1. PICK T \in B : IsFiniteSet(T) /\ \A U \in SUBSET T : U # T => U \notin B
    <2> HIDE DEF B
    <2>1. QED BY <1>0, SmallestSubset
  <1> DEFINE k == [s \in SUBSET T |-> IF s = {} THEN 0
                     ELSE f[One(s)] + Fold(s \ {One(s)})[s \ {One(s)}]]
  <1>2. ASSUME NEW s \in SUBSET T, s # {}
        PROVE  k[s \ {One(s)}] = Fold(s \ {One(s)})[s \ {One(s)}]
    <2> DEFINE V == s \ {One(s)}
               W == V \ {One(V)}
    <2>1. One(s) \in s
      BY <1>2, OneIsIn
    <2>2. V \in SUBSET T /\ V # T /\ V \in SUBSET S
      BY <2>1
    <2>3. AddsUp(Fold(V), f, V)
      BY <1>1, <2>2
    <2>4. Fold(V)[V] = IF V = {} THEN 0 ELSE f[One(V)] + Fold(V)[W]
      <3> HIDE DEF Fold
      <3>1. QED BY <2>3 DEF AddsUp
    <2>5. CASE V = {}
      BY <2>2, <2>4, <2>5
    <2>6. CASE V # {}
      <3>1. One(V) \in V
        BY <2>6, OneIsIn
      <3>2. W \in SUBSET T /\ W # T /\ W \in SUBSET S /\ W \in SUBSET V
        BY <2>2, <3>1
      <3>3. AddsUp(Fold(W), f, W) /\ IsFiniteSet(W)
        BY <1>1, <3>2, FS_Subset
      <3>4. Fold(V)[W] = Fold(W)[W]
        <4> HIDE DEF Fold, W, V
        <4>1. W \in SUBSET (V \intersect W)
          BY <3>2
        <4>2. QED BY <2>3, <3>3, <4>1, AddsUpUnique
      <3>5. k[V] = f[One(V)] + Fold(W)[W]
        BY <2>2, <2>6
      <3>6. QED
        BY <2>4, <2>6, <3>4, <3>5
    <2>7. QED
      BY <2>5, <2>6
  <1>3. AddsUp(k, f, T)
    <2>1. ASSUME NEW s \in SUBSET T
          PROVE  k[s] = IF s = {} THEN 0 ELSE f[One(s)] + k[s \ {One(s)}]
      <3>1. k[s] = IF s = {} THEN 0 ELSE f[One(s)] + Fold(s \ {One(s)})[s \ {One(s)}]
        OBVIOUS
      <3> HIDE DEF Fold, k
      <3>2. CASE s = {}
        BY <3>1, <3>2
      <3>3. CASE s # {}
        BY <3>1, <3>3, <1>2
      <3>4. QED
        BY <3>2, <3>3
    <2> HIDE DEF Fold
    <2>2. k = [s \in SUBSET T |-> k[s]]
      OBVIOUS
    <2> HIDE DEF k
    <2>3. QED
      BY <2>1, <2>2 DEF AddsUp
  <1>4. AddsUp(Fold(T), f, T)
    <2> HIDE DEF k
    <2>1. QED BY <1>3
  <1>5. QED
    BY <1>4

LEMMA SumUnfolds ==
    ASSUME NEW f, NEW S, IsFiniteSet(S)
    PROVE  SumFunctionOnSet(f, S) =
             IF S = {} THEN 0 ELSE f[One(S)] + SumFunctionOnSet(f, S \ {One(S)})
  <1> DEFINE h == CHOOSE h : AddsUp(h, f, S)
             T == S \ {One(S)}
             g == CHOOSE g : AddsUp(g, f, T)
  <1>1. IsFiniteSet(T)
    BY FS_Subset
  <1>2. AddsUp(h, f, S) /\ AddsUp(g, f, T)
    BY <1>1, AddsUpExists
  <1>3. SumFunctionOnSet(f, S) = h[S] /\ SumFunctionOnSet(f, T) = g[T]
    BY SumIsFold
  <1> HIDE DEF h, g
  <1>4. h[T] = g[T]
    <2> HIDE DEF T
    <2>1. T \in SUBSET (S \intersect T)
      BY DEF T
    <2>2. QED BY <1>1, <1>2, <2>1, AddsUpUnique
  <1>5. h[S] = IF S = {} THEN 0 ELSE f[One(S)] + h[T]
    BY <1>2 DEF AddsUp
  <1>6. QED
    BY <1>3, <1>4, <1>5

\* A sum over nothing.
LEMMA SumEmpty == ASSUME NEW f PROVE SumFunctionOnSet(f, {}) = 0
  BY SumUnfolds, FS_EmptySet

\* A sum of integers is an integer, a sum of natural numbers a natural number.
LEMMA SumType ==
    ASSUME NEW N \in {Nat, Int}, NEW f, NEW S, IsFiniteSet(S), \A x \in S : f[x] \in N
    PROVE  SumFunctionOnSet(f, S) \in N
  <1> DEFINE B == {T \in SUBSET S : SumFunctionOnSet(f, T) \notin N}
  <1> SUFFICES ASSUME B # {} PROVE FALSE
    OBVIOUS
  <1>0. B \in SUBSET SUBSET S
    OBVIOUS
  <1>1. PICK T \in B : IsFiniteSet(T) /\ \A U \in SUBSET T : U # T => U \notin B
    <2> HIDE DEF B
    <2>1. QED BY <1>0, SmallestSubset
  <1>2. /\ SumFunctionOnSet(f, T) =
             IF T = {} THEN 0 ELSE f[One(T)] + SumFunctionOnSet(f, T \ {One(T)})
        /\ T # {} => One(T) \in T
    BY <1>1, SumUnfolds, OneIsIn
  <1>3. T # {} => f[One(T)] \in N /\ SumFunctionOnSet(f, T \ {One(T)}) \in N
    BY <1>1, <1>2
  <1>4. QED
    BY <1>2, <1>3

\* Any summand can be taken out first.
LEMMA SumTakes ==
    ASSUME NEW f, NEW S, IsFiniteSet(S), \A x \in S : f[x] \in Int, NEW x \in S
    PROVE  SumFunctionOnSet(f, S) = f[x] + SumFunctionOnSet(f, S \ {x})
  <1> DEFINE sum(T) == SumFunctionOnSet(f, T)
             B == {T \in SUBSET S : \E y \in T : sum(T) # f[y] + sum(T \ {y})}
  <1> SUFFICES ASSUME B # {} PROVE FALSE
    OBVIOUS
  <1>0. B \in SUBSET SUBSET S
    OBVIOUS
  <1>1. PICK T \in B : IsFiniteSet(T) /\ \A U \in SUBSET T : U # T => U \notin B
    <2> HIDE DEF B
    <2>1. QED BY <1>0, SmallestSubset
  <1>2. PICK y \in T : sum(T) # f[y] + sum(T \ {y})
    BY <1>1
  <1> DEFINE c == One(T)
  <1>3. c \in T /\ sum(T) = f[c] + sum(T \ {c})
    BY <1>1, SumUnfolds, OneIsIn
  <1>4. IsFiniteSet((T \ {c}) \ {y})
    BY <1>1, FS_Subset
  <1>5. f[c] \in Int /\ f[y] \in Int /\ sum((T \ {c}) \ {y}) \in Int
    BY <1>3, <1>4, SumType
  <1> HIDE DEF c
  <1>6. c # y
    BY <1>2, <1>3
  <1>7. sum(T \ {c}) = f[y] + sum((T \ {c}) \ {y})
    BY <1>1, <1>3, <1>6
  <1>8. sum(T \ {y}) = f[c] + sum((T \ {y}) \ {c})
    BY <1>1, <1>3, <1>6
  <1>9. (T \ {y}) \ {c} = (T \ {c}) \ {y}
    OBVIOUS
  <1>10. sum(T) = f[c] + (f[y] + sum((T \ {c}) \ {y}))
    BY <1>3, <1>7
  <1>11. sum(T \ {y}) = f[c] + sum((T \ {c}) \ {y})
    BY <1>8, <1>9
  <1> HIDE DEF sum
  <1>12. QED
    BY <1>2, <1>5, <1>10, <1>11

\* Only the summands count.
LEMMA SumAgrees ==
    ASSUME NEW f, NEW g, NEW S, IsFiniteSet(S), \A x \in S : f[x] = g[x]
    PROVE  SumFunctionOnSet(f, S) = SumFunctionOnSet(g, S)
  <1> DEFINE B == {T \in SUBSET S : SumFunctionOnSet(f, T) # SumFunctionOnSet(g, T)}
  <1> SUFFICES ASSUME B # {} PROVE FALSE
    OBVIOUS
  <1>0. B \in SUBSET SUBSET S
    OBVIOUS
  <1>1. PICK T \in B : IsFiniteSet(T) /\ \A U \in SUBSET T : U # T => U \notin B
    <2> HIDE DEF B
    <2>1. QED BY <1>0, SmallestSubset
  <1>2. /\ SumFunctionOnSet(f, T) =
             IF T = {} THEN 0 ELSE f[One(T)] + SumFunctionOnSet(f, T \ {One(T)})
        /\ SumFunctionOnSet(g, T) =
             IF T = {} THEN 0 ELSE g[One(T)] + SumFunctionOnSet(g, T \ {One(T)})
        /\ T # {} => One(T) \in T
    BY <1>1, SumUnfolds, OneIsIn
  <1>3. T # {} => /\ f[One(T)] = g[One(T)]
                  /\ SumFunctionOnSet(f, T \ {One(T)}) = SumFunctionOnSet(g, T \ {One(T)})
    BY <1>1, <1>2
  <1>4. QED
    BY <1>2, <1>3

\* Larger summands add up to more.
LEMMA SumMonotone ==
    ASSUME NEW f, NEW g, NEW S, IsFiniteSet(S),
           \A x \in S : f[x] \in Int /\ g[x] \in Int /\ f[x] <= g[x]
    PROVE  SumFunctionOnSet(f, S) <= SumFunctionOnSet(g, S)
  <1> DEFINE B == {T \in SUBSET S : ~(SumFunctionOnSet(f, T) <= SumFunctionOnSet(g, T))}
  <1> SUFFICES ASSUME B # {} PROVE FALSE
    OBVIOUS
  <1>0. B \in SUBSET SUBSET S
    OBVIOUS
  <1>1. PICK T \in B : IsFiniteSet(T) /\ \A U \in SUBSET T : U # T => U \notin B
    <2> HIDE DEF B
    <2>1. QED BY <1>0, SmallestSubset
  <1>2. /\ SumFunctionOnSet(f, T) =
             IF T = {} THEN 0 ELSE f[One(T)] + SumFunctionOnSet(f, T \ {One(T)})
        /\ SumFunctionOnSet(g, T) =
             IF T = {} THEN 0 ELSE g[One(T)] + SumFunctionOnSet(g, T \ {One(T)})
        /\ T # {} => One(T) \in T
    BY <1>1, SumUnfolds, OneIsIn
  <1>3. CASE T # {}
    <2>1. /\ f[One(T)] \in Int /\ g[One(T)] \in Int /\ f[One(T)] <= g[One(T)]
          /\ SumFunctionOnSet(f, T \ {One(T)}) <= SumFunctionOnSet(g, T \ {One(T)})
      BY <1>1, <1>2, <1>3
    <2>2. /\ SumFunctionOnSet(f, T \ {One(T)}) \in Int
          /\ SumFunctionOnSet(g, T \ {One(T)}) \in Int
      <3>1. IsFiniteSet(T \ {One(T)}) /\ T \ {One(T)} \subseteq S
        BY <1>1, FS_Subset
      <3>2. QED
        BY <3>1, SumType
    <2>3. QED
      BY <1>1, <1>2, <1>3, <2>1, <2>2
  <1>4. QED
    BY <1>1, <1>2, <1>3

\* A new index adds its summand.
LEMMA SumAdds ==
    ASSUME NEW f, NEW S, IsFiniteSet(S), NEW x, x \notin S, \A y \in S \union {x} : f[y] \in Int
    PROVE  SumFunctionOnSet(f, S \union {x}) = f[x] + SumFunctionOnSet(f, S)
  <1>1. IsFiniteSet(S \union {x})
    BY FS_AddElement
  <1>2. (S \union {x}) \ {x} = S /\ x \in S \union {x}
    OBVIOUS
  <1> DEFINE T == S \union {x}
  <1>3. SumFunctionOnSet(f, T) = f[x] + SumFunctionOnSet(f, T \ {x})
    <2> HIDE DEF T
    <2>1. QED BY <1>1, <1>2, SumTakes DEF T
  <1>4. QED
    BY <1>2, <1>3

\* A changed summand changes the sum by as much.
LEMMA SumChanges ==
    ASSUME NEW f, NEW g, NEW S, IsFiniteSet(S), NEW x \in S,
           \A y \in S : f[y] \in Int /\ g[y] \in Int, \A y \in S \ {x} : f[y] = g[y]
    PROVE  SumFunctionOnSet(g, S) = SumFunctionOnSet(f, S) + g[x] - f[x]
  <1>1. IsFiniteSet(S \ {x})
    BY FS_Subset
  <1>2. SumFunctionOnSet(f, S \ {x}) = SumFunctionOnSet(g, S \ {x})
    BY <1>1, SumAgrees
  <1>3. SumFunctionOnSet(f, S \ {x}) \in Int
    BY <1>1, SumType
  <1>4. /\ SumFunctionOnSet(f, S) = f[x] + SumFunctionOnSet(f, S \ {x})
        /\ SumFunctionOnSet(g, S) = g[x] + SumFunctionOnSet(g, S \ {x})
    BY SumTakes
  <1>5. QED
    BY <1>2, <1>3, <1>4

\* Nothing but zeros.
LEMMA SumZeros ==
    ASSUME NEW f, NEW S, IsFiniteSet(S), \A x \in S : f[x] = 0
    PROVE  SumFunctionOnSet(f, S) = 0
  <1> DEFINE B == {T \in SUBSET S : SumFunctionOnSet(f, T) # 0}
  <1> SUFFICES ASSUME B # {} PROVE FALSE
    OBVIOUS
  <1>0. B \in SUBSET SUBSET S
    OBVIOUS
  <1>1. PICK T \in B : IsFiniteSet(T) /\ \A U \in SUBSET T : U # T => U \notin B
    <2> HIDE DEF B
    <2>1. QED BY <1>0, SmallestSubset
  <1>2. /\ SumFunctionOnSet(f, T) =
             IF T = {} THEN 0 ELSE f[One(T)] + SumFunctionOnSet(f, T \ {One(T)})
        /\ T # {} => One(T) \in T
    BY <1>1, SumUnfolds, OneIsIn
  <1>3. T # {} => f[One(T)] = 0 /\ SumFunctionOnSet(f, T \ {One(T)}) = 0
    BY <1>1, <1>2
  <1>4. QED
    BY <1>2, <1>3

\* An entry more at the end of a sequence.
LEMMA SumAppend ==
    ASSUME NEW f, NEW g, NEW n \in Nat, \A i \in 1..(n + 1) : g[i] \in Int,
           \A i \in 1..n : f[i] = g[i]
    PROVE  SumFunctionOnSet(g, 1..(n + 1)) = SumFunctionOnSet(f, 1..n) + g[n + 1]
  <1>1. 1..(n + 1) = (1..n) \union {n + 1} /\ n + 1 \notin 1..n
    OBVIOUS
  <1>2. IsFiniteSet(1..n)
    BY FS_Interval
  <1>3. SumFunctionOnSet(g, 1..n) = SumFunctionOnSet(f, 1..n)
    BY <1>2, SumAgrees
  <1>4. SumFunctionOnSet(g, (1..n) \union {n + 1}) = g[n + 1] + SumFunctionOnSet(g, 1..n)
    BY <1>1, <1>2, SumAdds
  <1>5. SumFunctionOnSet(g, 1..n) \in Int
    BY <1>2, SumType
  <1>6. SumFunctionOnSet(g, 1..(n + 1)) = SumFunctionOnSet(g, (1..n) \union {n + 1})
    BY <1>1
  <1>7. g[n + 1] \in Int
    OBVIOUS
  <1>8. QED
    BY <1>3, <1>4, <1>5, <1>6, <1>7

----------------------------------------------------------------------------
(* the sum of all values of a function *)

LEMMA SumOverDomain ==
    ASSUME NEW S, NEW f, DOMAIN f = S
    PROVE  SumFunction(f) = SumFunctionOnSet(f, S)
  BY DEF SumFunction

LEMMA SumFunctionType ==
    ASSUME NEW N \in {Nat, Int}, NEW S, IsFiniteSet(S), NEW f \in [S -> N]
    PROVE  SumFunction(f) \in N
  <1>1. SumFunction(f) = SumFunctionOnSet(f, S)
    BY SumOverDomain
  <1>2. \A x \in S : f[x] \in N
    OBVIOUS
  <1>3. QED
    BY <1>1, <1>2, SumType

\* One value more or less.
LEMMA SumExcept ==
    ASSUME NEW S, IsFiniteSet(S), NEW f \in [S -> Int], NEW x \in S, NEW v \in Int
    PROVE  SumFunction([f EXCEPT ![x] = v]) = SumFunction(f) + v - f[x]
  <1> DEFINE g == [f EXCEPT ![x] = v]
  <1>1. /\ g \in [S -> Int] /\ g[x] = v
        /\ \A y \in S : f[y] \in Int /\ g[y] \in Int
        /\ \A y \in S \ {x} : f[y] = g[y]
    OBVIOUS
  <1>2. SumFunction(f) = SumFunctionOnSet(f, S)
    BY SumOverDomain
  <1> HIDE DEF g
  <1>3. SumFunction(g) = SumFunctionOnSet(g, S)
    BY <1>1, SumOverDomain
  <1>4. SumFunctionOnSet(g, S) = SumFunctionOnSet(f, S) + g[x] - f[x]
    BY <1>1, SumChanges
  <1>5. QED
    BY <1>1, <1>2, <1>3, <1>4 DEF g

\* A sequence, and one entry more at its end.
LEMMA SumOfSeq ==
    ASSUME NEW N \in {Nat, Int}, NEW s \in Seq(N)
    PROVE  /\ SumFunction(s) \in N
           /\ s = <<>> => SumFunction(s) = 0
  <1>1. DOMAIN s = 1 .. Len(s) /\ Len(s) \in Nat /\ \A i \in 1 .. Len(s) : s[i] \in N
    OBVIOUS
  <1>2. SumFunction(s) = SumFunctionOnSet(s, 1 .. Len(s))
    BY <1>1, SumOverDomain
  <1>3. IsFiniteSet(1 .. Len(s))
    BY <1>1, FS_Interval
  <1>4. SumFunctionOnSet(s, 1 .. Len(s)) \in N
    BY <1>1, <1>3, SumType
  <1>5. s = <<>> => 1 .. Len(s) = {}
    BY <1>1
  <1>6. QED
    BY <1>2, <1>4, <1>5, SumEmpty

LEMMA SumOfAppend ==
    ASSUME NEW s \in Seq(Int), NEW e \in Int
    PROVE  SumFunction(Append(s, e)) = SumFunction(s) + e
  <1> DEFINE t == Append(s, e)
             n == Len(s)
  <1>1. /\ n \in Nat /\ DOMAIN s = 1 .. n /\ DOMAIN t = 1 .. (n + 1)
        /\ \A i \in 1 .. (n + 1) : t[i] \in Int
        /\ \A i \in 1 .. n : s[i] = t[i]
        /\ t[n + 1] = e
    OBVIOUS
  <1> HIDE DEF t, n
  <1>2. SumFunctionOnSet(t, 1 .. (n + 1)) = SumFunctionOnSet(s, 1 .. n) + t[n + 1]
    BY <1>1, SumAppend
  <1>3. SumFunction(t) = SumFunctionOnSet(t, 1 .. (n + 1))
    BY <1>1, SumOverDomain
  <1>4. SumFunction(s) = SumFunctionOnSet(s, 1 .. n)
    BY <1>1, SumOverDomain
  <1>5. QED
    BY <1>1, <1>2, <1>3, <1>4 DEF t
=============================================================================
