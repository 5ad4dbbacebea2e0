------------------------------ MODULE FiniteSums ------------------------------
(***************************************************************************)
(* Facts about the sum of a function over a finite set.                    *)
(*                                                                         *)
(* The fold of the community modules is a recursive function on the        *)
(* subsets of a finite set, which takes out a chosen member at a time.     *)
(* What is shown of it here is shown of a smallest counterexample.         *)
(***************************************************************************)
EXTENDS Integers, FiniteSets, Functions, TLAPS, FiniteSetTheorems

LEMMA SmallestSet ==
    ASSUME NEW S, IsFiniteSet(S), NEW B, B \subseteq SUBSET S, B # {}
    PROVE  \E T \in B : \A U \in B : U \subseteq T => U = T
<1> DEFINE R == StrictSubsetOrdering(S)
<1>1. B \subseteq FiniteSubsetsOf(S)
  BY FS_FiniteSubsetsOfFinite
<1>2. IsWellFoundedOn(R, FiniteSubsetsOf(S))
  BY FS_StrictSubsetOrderingWellFounded
<1> HIDE DEF R
<1>3. PICK T \in B : \A U \in B : <<U, T>> \notin R
  BY <1>1, <1>2, WFMin
<1>4. \A U \in B : U \subseteq T /\ U # T => <<U, T>> \in R
  BY DEF R, StrictSubsetOrdering
<1>5. \A U \in B : ~ (U \subseteq T /\ U # T)
  BY <1>3, <1>4, Zenon
<1> QED
  BY <1>5

Chosen(S) == CHOOSE x \in S : TRUE

Adds(f, S, g) ==
    g = [s \in SUBSET S |-> IF s = {} THEN 0 ELSE f[Chosen(s)] + g[s \ {Chosen(s)}]]

Total(f, S) == SumFunctionOnSet(f, S)

LEMMA TotalIs ==
    ASSUME NEW f, NEW S
    PROVE  Total(f, S) = (CHOOSE g : Adds(f, S, g))[S]
  BY DEF Total, SumFunctionOnSet, FoldFunctionOnSet, MapThenFoldSet, Adds, Chosen

LEMMA ChosenIn == ASSUME NEW S, S # {} PROVE Chosen(S) \in S
  BY DEF Chosen

LEMMA AddsOnce ==
    ASSUME NEW f, NEW S, IsFiniteSet(S), NEW T \in SUBSET S,
           NEW g, Adds(f, S, g), NEW h, Adds(f, T, h)
    PROVE  \A s \in SUBSET T : g[s] = h[s]
<1> DEFINE B == {s \in SUBSET T : g[s] # h[s]}
<1> SUFFICES ASSUME B # {} PROVE FALSE
  OBVIOUS
<1>1. IsFiniteSet(T)
  BY FS_Subset
<1>2. PICK s \in B : \A u \in B : u \subseteq s => u = s
  <2>1. B \subseteq SUBSET T
    OBVIOUS
  <2> HIDE DEF B
  <2> QED
    BY <1>1, <2>1, SmallestSet
<1>3. s \in SUBSET T /\ s \in SUBSET S /\ g[s] # h[s]
  BY <1>2
<1>4. g[s] = IF s = {} THEN 0 ELSE f[Chosen(s)] + g[s \ {Chosen(s)}]
  BY <1>3 DEF Adds
<1>5. h[s] = IF s = {} THEN 0 ELSE f[Chosen(s)] + h[s \ {Chosen(s)}]
  BY <1>3 DEF Adds
<1>6. s # {}
  BY <1>3, <1>4, <1>5
<1>7. Chosen(s) \in s
  BY <1>6, ChosenIn
<1>8. s \ {Chosen(s)} \in SUBSET T /\ s \ {Chosen(s)} # s
  BY <1>3, <1>7
<1>9. g[s \ {Chosen(s)}] = h[s \ {Chosen(s)}]
  BY <1>2, <1>8
<1> QED
  BY <1>3, <1>4, <1>5, <1>9

LEMMA AddsSome ==
    ASSUME NEW f, NEW S, IsFiniteSet(S)
    PROVE  \E g : Adds(f, S, g)
<1> DEFINE B == {s \in SUBSET S : ~ \E g : Adds(f, s, g)}
<1> SUFFICES ASSUME B # {} PROVE FALSE
  <2>1. S \notin B
    OBVIOUS
  <2> QED
    BY <2>1
<1>1. PICK T \in B : \A u \in B : u \subseteq T => u = T
  <2>1. B \subseteq SUBSET S
    OBVIOUS
  <2> HIDE DEF B
  <2> QED
    BY <2>1, SmallestSet
<1>2. T \in SUBSET S /\ ~ \E g : Adds(f, T, g)
  BY <1>1
<1> DEFINE of(u) == CHOOSE g : Adds(f, u, g)
           sum(u) == of(u)[u]
<1>3. \A u \in SUBSET T : u # T => Adds(f, u, of(u)) /\ IsFiniteSet(u)
  <2> SUFFICES ASSUME NEW u \in SUBSET T, u # T PROVE Adds(f, u, of(u)) /\ IsFiniteSet(u)
    OBVIOUS
  <2>1. \E g : Adds(f, u, g)
    BY <1>1, <1>2
  <2>2. IsFiniteSet(u)
    BY <1>2, FS_Subset
  <2> QED
    BY <2>1, <2>2
<1> HIDE DEF of
<1>4. \A u \in SUBSET T : u # T => sum(u) =
          IF u = {} THEN 0 ELSE f[Chosen(u)] + sum(u \ {Chosen(u)})
  <2> SUFFICES ASSUME NEW u \in SUBSET T, u # T
               PROVE  sum(u) = IF u = {} THEN 0 ELSE f[Chosen(u)] + sum(u \ {Chosen(u)})
    OBVIOUS
  <2>1. Adds(f, u, of(u)) /\ IsFiniteSet(u)
    BY <1>3
  <2>2. sum(u) = IF u = {} THEN 0 ELSE f[Chosen(u)] + of(u)[u \ {Chosen(u)}]
    BY <2>1 DEF Adds
  <2>3. CASE u = {}
    BY <2>2, <2>3
  <2>4. CASE u # {}
    <3> DEFINE v == u \ {Chosen(u)}
    <3>1. v \in SUBSET u /\ v \in SUBSET T /\ v # T
      BY <2>4, ChosenIn
    <3>2. Adds(f, v, of(v))
      BY <1>3, <3>1
    <3>3. of(u)[v] = of(v)[v]
      BY <2>1, <3>1, <3>2, AddsOnce
    <3> QED
      BY <2>2, <2>4, <3>3
  <2> QED
    BY <2>3, <2>4
<1> HIDE DEF sum
<1> DEFINE g == [s \in SUBSET T |-> IF s = {} THEN 0 ELSE f[Chosen(s)] + sum(s \ {Chosen(s)})]
<1>5. \A u \in SUBSET T : u # T => g[u] = sum(u)
  BY <1>4
<1>6. \A s \in SUBSET T : s # {} =>
          s \ {Chosen(s)} \in SUBSET T /\ s \ {Chosen(s)} # T
  BY ChosenIn
<1>7. \A s \in SUBSET T : s # {} => g[s \ {Chosen(s)}] = sum(s \ {Chosen(s)})
  BY <1>5, <1>6
<1>8. \A s \in SUBSET T :
          g[s] = IF s = {} THEN 0 ELSE f[Chosen(s)] + g[s \ {Chosen(s)}]
  <2>1. \A s \in SUBSET T : g[s] = IF s = {} THEN 0 ELSE f[Chosen(s)] + sum(s \ {Chosen(s)})
    OBVIOUS
  <2> HIDE DEF g
  <2> QED
    BY <1>7, <2>1
<1>9. Adds(f, T, g)
  <2>1. g = [s \in SUBSET T |-> g[s]]
    OBVIOUS
  <2> HIDE DEF g
  <2> QED
    BY <1>8, <2>1 DEF Adds
<1> QED
  BY <1>2, <1>9

LEMMA TotalUnfolds ==
    ASSUME NEW f, NEW S, IsFiniteSet(S)
    PROVE  Total(f, S) =
               IF S = {} THEN 0 ELSE f[Chosen(S)] + Total(f, S \ {Chosen(S)})
<1> DEFINE g == CHOOSE h : Adds(f, S, h)
           T == S \ {Chosen(S)}
           k == CHOOSE h : Adds(f, T, h)
<1>1. Adds(f, S, g)
  BY AddsSome
<1>2. IsFiniteSet(T) /\ T \in SUBSET S
  BY FS_Subset
<1>3. Adds(f, T, k)
  BY <1>2, AddsSome
<1>4. Total(f, S) = g[S] /\ Total(f, T) = k[T]
  BY TotalIs
<1> HIDE DEF g, k
<1>5. g[S] = IF S = {} THEN 0 ELSE f[Chosen(S)] + g[T]
  BY <1>1 DEF Adds
<1>6. g[T] = k[T]
  <2> HIDE DEF T
  <2>1. \A s \in SUBSET T : g[s] = k[s]
    BY <1>1, <1>2, <1>3, AddsOnce
  <2> QED
    BY <2>1
<1> QED
  BY <1>4, <1>5, <1>6

LEMMA TotalEmpty == ASSUME NEW f PROVE Total(f, {}) = 0
  BY TotalUnfolds, FS_EmptySet

LEMMA TotalNat ==
    ASSUME NEW f, NEW S, IsFiniteSet(S), \A x \in S : f[x] \in Nat
    PROVE  Total(f, S) \in Nat
<1> DEFINE B == {T \in SUBSET S : Total(f, T) \notin Nat}
<1> SUFFICES ASSUME B # {} PROVE FALSE
  OBVIOUS
<1>1. PICK T \in B : \A U \in B : U \subseteq T => U = T
  <2>1. B \subseteq SUBSET S
    OBVIOUS
  <2> HIDE DEF B
  <2> QED
    BY <2>1, SmallestSet
<1>2. T \in SUBSET S /\ IsFiniteSet(T) /\ T # {}
  <2>1. T \in SUBSET S /\ Total(f, T) \notin Nat
    BY <1>1
  <2>2. IsFiniteSet(T)
    BY <2>1, FS_Subset
  <2>3. Total(f, {}) \in Nat
    BY TotalEmpty
  <2> QED
    BY <2>1, <2>2, <2>3
<1>3. Chosen(T) \in T
  BY <1>2, ChosenIn
<1>4. Total(f, T \ {Chosen(T)}) \in Nat
  BY <1>1, <1>2, <1>3
<1>5. Total(f, T) = f[Chosen(T)] + Total(f, T \ {Chosen(T)})
  BY <1>2, TotalUnfolds
<1>6. f[Chosen(T)] \in Nat
  BY <1>2, <1>3
<1>7. Total(f, T) \in Nat
  BY <1>4, <1>5, <1>6
<1> QED
  BY <1>1, <1>7

LEMMA TotalInt ==
    ASSUME NEW f, NEW S, IsFiniteSet(S), \A x \in S : f[x] \in Int
    PROVE  Total(f, S) \in Int
<1> DEFINE B == {T \in SUBSET S : Total(f, T) \notin Int}
<1> SUFFICES ASSUME B # {} PROVE FALSE
  OBVIOUS
<1>1. PICK T \in B : \A U \in B : U \subseteq T => U = T
  <2>1. B \subseteq SUBSET S
    OBVIOUS
  <2> HIDE DEF B
  <2> QED
    BY <2>1, SmallestSet
<1>2. T \in SUBSET S /\ IsFiniteSet(T) /\ T # {}
  <2>1. T \in SUBSET S /\ Total(f, T) \notin Int
    BY <1>1
  <2>2. IsFiniteSet(T)
    BY <2>1, FS_Subset
  <2>3. Total(f, {}) \in Int
    BY TotalEmpty
  <2> QED
    BY <2>1, <2>2, <2>3
<1>3. Chosen(T) \in T
  BY <1>2, ChosenIn
<1>4. Total(f, T \ {Chosen(T)}) \in Int
  BY <1>1, <1>2, <1>3
<1>5. Total(f, T) = f[Chosen(T)] + Total(f, T \ {Chosen(T)})
  BY <1>2, TotalUnfolds
<1>6. f[Chosen(T)] \in Int
  BY <1>2, <1>3
<1>7. Total(f, T) \in Int
  BY <1>4, <1>5, <1>6
<1> QED
  BY <1>1, <1>7

(* Any member can be taken out first.                                        *)
LEMMA TotalSplits ==
    ASSUME NEW f, NEW S, IsFiniteSet(S), \A x \in S : f[x] \in Int
    PROVE  \A a \in S : Total(f, S) = f[a] + Total(f, S \ {a})
<1> DEFINE Bad(T) == \E a \in T : Total(f, T) # f[a] + Total(f, T \ {a})
           B == {T \in SUBSET S : Bad(T)}
<1> SUFFICES ASSUME B # {} PROVE FALSE
  <2>1. S \notin B
    OBVIOUS
  <2> QED
    BY <2>1
<1>1. PICK T \in B : \A U \in B : U \subseteq T => U = T
  <2>1. B \subseteq SUBSET S
    OBVIOUS
  <2> HIDE DEF B
  <2> QED
    BY <2>1, SmallestSet
<1>2. T \in SUBSET S /\ Bad(T)
  BY <1>1
<1>3. IsFiniteSet(T)
  BY <1>2, FS_Subset
<1>4. \A U \in SUBSET T : U # T => ~ Bad(U)
  BY <1>1, <1>2
<1>5. PICK a \in T : Total(f, T) # f[a] + Total(f, T \ {a})
  BY <1>2
<1> HIDE DEF B
<1> DEFINE b == Chosen(T)
<1>6. b \in T /\ Total(f, T) = f[b] + Total(f, T \ {b})
  BY <1>3, <1>5, ChosenIn, TotalUnfolds
<1>7. a # b
  BY <1>5, <1>6
<1> HIDE DEF b
<1>8. Total(f, T \ {b}) = f[a] + Total(f, (T \ {b}) \ {a})
  BY <1>4, <1>6, <1>7
<1>9. Total(f, T \ {a}) = f[b] + Total(f, (T \ {a}) \ {b})
  BY <1>4, <1>6, <1>7
<1>10. (T \ {a}) \ {b} = (T \ {b}) \ {a}
  OBVIOUS
<1> DEFINE rest == Total(f, (T \ {a}) \ {b})
<1>11. rest \in Int
  <2>1. IsFiniteSet((T \ {a}) \ {b})
    BY <1>3, FS_Subset
  <2>2. \A x \in (T \ {a}) \ {b} : f[x] \in Int
    BY <1>2
  <2> QED
    BY <2>1, <2>2, TotalInt
<1>12. f[a] \in Int /\ f[b] \in Int
  BY <1>2, <1>6
<1>13. /\ Total(f, T) = f[b] + (f[a] + rest)
       /\ Total(f, T \ {a}) = f[b] + rest
  BY <1>6, <1>8, <1>9, <1>10
<1> HIDE DEF rest
<1>14. f[b] + (f[a] + rest) = f[a] + (f[b] + rest)
  BY <1>11, <1>12
<1> QED
  BY <1>5, <1>13, <1>14

(* A sum is no smaller where no term is; and terms of equal sums that are    *)
(* nowhere greater are equal.                                                *)
LEMMA TotalGrows ==
    ASSUME NEW f, NEW g, NEW S, IsFiniteSet(S),
           \A x \in S : f[x] \in Int /\ g[x] \in Int /\ f[x] <= g[x]
    PROVE  Total(f, S) <= Total(g, S)
<1> DEFINE B == {T \in SUBSET S : ~ (Total(f, T) <= Total(g, T))}
<1> SUFFICES ASSUME B # {} PROVE FALSE
  <2>1. S \notin B
    OBVIOUS
  <2> QED
    BY <2>1
<1>1. PICK T \in B : \A U \in B : U \subseteq T => U = T
  <2>1. B \subseteq SUBSET S
    OBVIOUS
  <2> HIDE DEF B
  <2> QED
    BY <2>1, SmallestSet
<1>2. T \in SUBSET S /\ ~ (Total(f, T) <= Total(g, T))
  BY <1>1
<1>3. IsFiniteSet(T) /\ T # {}
  <2>1. Total(f, {}) <= Total(g, {})
    BY TotalEmpty
  <2>2. T # {}
    BY <1>2, <2>1
  <2> QED
    BY <1>2, <2>2, FS_Subset
<1> DEFINE b == Chosen(T)
           U == T \ {b}
<1>4. b \in T
  BY <1>3, ChosenIn
<1>5. U \in SUBSET S /\ U # T /\ IsFiniteSet(U)
  BY <1>2, <1>3, <1>4, FS_Subset
<1>6. Total(f, U) <= Total(g, U)
  BY <1>1, <1>5
<1>7. Total(f, T) = f[b] + Total(f, U) /\ Total(g, T) = g[b] + Total(g, U)
  BY <1>3, TotalUnfolds
<1>8. Total(f, U) \in Int /\ Total(g, U) \in Int
  <2>1. \A x \in U : f[x] \in Int /\ g[x] \in Int
    BY <1>5
  <2> HIDE DEF U
  <2> QED
    BY <1>5, <2>1, TotalInt
<1>9. f[b] \in Int /\ g[b] \in Int /\ f[b] <= g[b]
  BY <1>2, <1>4
<1> HIDE DEF b, U, B
<1> QED
  BY <1>2, <1>6, <1>7, <1>8, <1>9

LEMMA TotalSame ==
    ASSUME NEW f, NEW g, NEW S, IsFiniteSet(S),
           \A x \in S : f[x] \in Int /\ g[x] = f[x]
    PROVE  Total(f, S) = Total(g, S)
<1>1. \A x \in S : f[x] <= g[x] /\ g[x] <= f[x] /\ g[x] \in Int
  OBVIOUS
<1>2. Total(f, S) <= Total(g, S) /\ Total(g, S) <= Total(f, S)
  BY <1>1, TotalGrows
<1>3. Total(f, S) \in Int /\ Total(g, S) \in Int
  BY <1>1, TotalInt
<1> QED
  BY <1>2, <1>3

LEMMA TotalEqualTerms ==
    ASSUME NEW f, NEW g, NEW S, IsFiniteSet(S),
           \A x \in S : f[x] \in Int /\ g[x] \in Int /\ f[x] <= g[x],
           Total(f, S) = Total(g, S)
    PROVE  \A x \in S : f[x] = g[x]
<1> SUFFICES ASSUME NEW x \in S PROVE f[x] = g[x]
  OBVIOUS
<1>1. Total(f, S) = f[x] + Total(f, S \ {x}) /\ Total(g, S) = g[x] + Total(g, S \ {x})
  BY TotalSplits
<1>2. IsFiniteSet(S \ {x})
  BY FS_Subset
<1>3. /\ Total(f, S \ {x}) <= Total(g, S \ {x})
      /\ Total(f, S \ {x}) \in Int /\ Total(g, S \ {x}) \in Int
  BY <1>2, TotalGrows, TotalInt
<1>4. f[x] \in Int /\ g[x] \in Int /\ f[x] <= g[x]
  OBVIOUS
<1> DEFINE F == Total(f, S \ {x})
           G == Total(g, S \ {x})
<1>5. f[x] + F = g[x] + G /\ F <= G /\ F \in Int /\ G \in Int
  BY <1>1, <1>3
<1> HIDE DEF F, G
<1> QED
  BY <1>4, <1>5

(* One term is changed; a term is added.                                     *)
LEMMA TotalAdded ==
    ASSUME NEW f, NEW g, NEW T, NEW a \in T, NEW S, S = T \ {a}, IsFiniteSet(T),
           g[a] \in Int, \A x \in S : f[x] \in Int /\ g[x] = f[x]
    PROVE  Total(g, T) = Total(f, S) + g[a]
<1>1. \A x \in T : g[x] \in Int
  OBVIOUS
<1>2. Total(g, T) = g[a] + Total(g, S)
  BY <1>1, TotalSplits
<1>3. IsFiniteSet(S)
  BY FS_Subset
<1>4. Total(g, S) = Total(f, S) /\ Total(f, S) \in Int
  BY <1>3, TotalSame, TotalInt
<1> QED
  BY <1>2, <1>4

LEMMA TotalChanged ==
    ASSUME NEW f, NEW g, NEW S, NEW a \in S, IsFiniteSet(S), g[a] \in Int,
           \A x \in S : f[x] \in Int /\ (x # a => g[x] = f[x])
    PROVE  Total(g, S) + f[a] = Total(f, S) + g[a]
<1> DEFINE U == S \ {a}
<1>1. IsFiniteSet(U) /\ \A x \in U : f[x] \in Int /\ g[x] = f[x]
  BY FS_Subset
<1>2. U = S \ {a} /\ f[a] \in Int /\ \A x \in U : f[x] \in Int /\ f[x] = f[x]
  OBVIOUS
<1> HIDE DEF U
<1>3. Total(g, S) = Total(f, U) + g[a] /\ Total(f, S) = Total(f, U) + f[a]
  BY <1>1, <1>2, TotalAdded
<1>4. Total(f, U) \in Int
  BY <1>1, TotalInt
<1> QED
  BY <1>3, <1>4
=============================================================================
