----------------------------- MODULE SumProofs -----------------------------
(***************************************************************************)
(* Facts about SumOver, by induction over finite sets: a set of subsets of *)
(* a finite set has a minimal member, so a statement that fails for some   *)
(* subset fails for one all of whose proper subsets satisfy it.            *)
(***************************************************************************)
EXTENDS Sums, FiniteSets, FiniteSetTheorems, TLAPS

Some(s) == CHOOSE x \in s : TRUE

\* h sums f over every subset of S.
SumsUp(f, S, h) ==
    h = [s \in SUBSET S |-> IF s = {} THEN 0 ELSE f[Some(s)] + h[s \ {Some(s)}]]

\* SumOver, unfolded to the recursive function FoldSet defines.
LEMMA SumUnfolds ==
    ASSUME NEW f, NEW S
    PROVE  SumOver(f, S) = (CHOOSE h : SumsUp(f, S, h))[S]
BY DEF SumOver, FoldSet, MapThenFoldSet, SumsUp, Some

\* FoldSet's choice from a set that is not empty is one of its elements.
LEMMA SomeIn ==
    ASSUME NEW s, s # {}
    PROVE  Some(s) \in s
BY DEF Some

\* Of some subsets of a finite set, one contains no other.
LEMMA MinimalSubset ==
    ASSUME NEW S, IsFiniteSet(S), NEW B, B \subseteq SUBSET S, B # {}
    PROVE  \E T \in B : \A U \in B : ~(U \subseteq T /\ U # T)
<1>1. IsWellFoundedOn(StrictSubsetOrdering(S), SUBSET S)
  BY FS_StrictSubsetOrderingWellFounded, FS_FiniteSubsetsOfFinite
<1>2. PICK T \in B : \A U \in B : ~(<<U, T>> \in StrictSubsetOrdering(S))
  BY <1>1, WFMin
<1>3. ASSUME NEW U \in B, U \subseteq T, U # T PROVE FALSE
  <2>1. <<U, T>> \in (SUBSET S) \X (SUBSET S)
    OBVIOUS
  <2>2. <<U, T>> \in StrictSubsetOrdering(S)
    BY <2>1, <1>3 DEF StrictSubsetOrdering
  <2>. QED BY <2>2, <1>2
<1>. QED BY <1>3

\* What the recursive function gives for one subset.
LEMMA SumsStep ==
    ASSUME NEW f, NEW S, NEW h, SumsUp(f, S, h), NEW U \in SUBSET S
    PROVE  /\ U = {} => h[U] = 0
           /\ U # {} => h[U] = f[Some(U)] + h[U \ {Some(U)}]
<1>1. h = [s \in SUBSET S |-> IF s = {} THEN 0 ELSE f[Some(s)] + h[s \ {Some(s)}]]
  BY DEF SumsUp
<1>2. h[U] = IF U = {} THEN 0 ELSE f[Some(U)] + h[U \ {Some(U)}]
  BY <1>1
<1>. QED BY <1>2

\* The recursive functions of a set and of a subset agree where both are defined.
LEMMA SumsAgree ==
    ASSUME NEW f, NEW S, IsFiniteSet(S), NEW T \in SUBSET S,
           NEW h, SumsUp(f, S, h), NEW k, SumsUp(f, T, k), NEW W \in SUBSET T
    PROVE  h[W] = k[W]
<1> DEFINE B == {U \in SUBSET T : h[U] # k[U]}
<1>1. SUFFICES ASSUME B # {} PROVE FALSE
  OBVIOUS
<1>2. PICK U \in B : \A V \in B : ~(V \subseteq U /\ V # U)
  <2>1. IsFiniteSet(T)
    BY FS_Subset
  <2>2. B \subseteq SUBSET T
    OBVIOUS
  <2> HIDE DEF B
  <2>. QED BY <2>1, <2>2, <1>1, MinimalSubset
<1>3. U # {}
  BY <1>2, SumsStep
<1>4. /\ Some(U) \in U
      /\ U \ {Some(U)} \in SUBSET T
  BY <1>3, SomeIn
<1>5. U \ {Some(U)} \notin B
  BY <1>2, <1>4
<1>6. h[U \ {Some(U)}] = k[U \ {Some(U)}]
  BY <1>4, <1>5
<1>7. /\ h[U] = f[Some(U)] + h[U \ {Some(U)}]
      /\ k[U] = f[Some(U)] + k[U \ {Some(U)}]
  BY <1>3, SumsStep
<1>. QED BY <1>6, <1>7

\* FoldSet's recursive function exists for every finite set: the definition is
\* not vacuous.
LEMMA SumsExists ==
    ASSUME NEW f, NEW S, IsFiniteSet(S)
    PROVE  \E h : SumsUp(f, S, h)
<1> DEFINE B == {T \in SUBSET S : ~ \E h : SumsUp(f, T, h)}
<1>1. SUFFICES ASSUME B # {} PROVE FALSE
  OBVIOUS
<1>2. PICK T \in B : \A U \in B : ~(U \subseteq T /\ U # T)
  <2>2. B \subseteq SUBSET S
    OBVIOUS
  <2> HIDE DEF B
  <2>. QED BY <2>2, <1>1, MinimalSubset
<1> DEFINE F(U) == CHOOSE h : SumsUp(f, U, h)
<1>3. ASSUME NEW U \in SUBSET T, U # T
      PROVE  SumsUp(f, U, F(U))
  <2>1. U \notin B
    BY <1>2, <1>3
  <2>2. \E h : SumsUp(f, U, h)
    BY <2>1
  <2>. QED BY <2>2
<1> DEFINE H == [U \in SUBSET T |->
                   IF U = {} THEN 0 ELSE f[Some(U)] + F(U \ {Some(U)})[U \ {Some(U)}]]
<1> HIDE DEF F
<1>4. ASSUME NEW V \in SUBSET T, V # T
      PROVE  H[V] = F(V)[V]
  <2>1. SumsUp(f, V, F(V))
    BY <1>3, <1>4
  <2>2. CASE V = {}
    <3>1. F(V)[V] = 0
      BY <2>1, <2>2, SumsStep
    <3>2. H[V] = 0
      BY <2>2
    <3>. QED BY <3>1, <3>2
  <2>3. CASE V # {}
    <3> DEFINE W == V \ {Some(V)}
    <3>1. /\ Some(V) \in V
          /\ W \in SUBSET V
          /\ W \in SUBSET T
          /\ W # T
      BY <2>3, SomeIn
    <3>2. SumsUp(f, W, F(W))
      BY <1>3, <3>1
    <3>3. IsFiniteSet(V)
      BY FS_Subset
    <3>4. F(V)[W] = F(W)[W]
      <4> HIDE DEF W
      <4>. QED BY <2>1, <3>1, <3>2, <3>3, SumsAgree
    <3>5. F(V)[V] = f[Some(V)] + F(V)[W]
      BY <2>1, <2>3, SumsStep
    <3>6. H[V] = f[Some(V)] + F(W)[W]
      BY <2>3
    <3>. QED BY <3>4, <3>5, <3>6
  <2>. QED BY <2>2, <2>3
<1>5. ASSUME NEW U \in SUBSET T, U # {}
      PROVE  H[U \ {Some(U)}] = F(U \ {Some(U)})[U \ {Some(U)}]
  <2>1. U \ {Some(U)} \in SUBSET T /\ U \ {Some(U)} # T
    BY <1>5, SomeIn
  <2>. QED BY <2>1, <1>4
<1>6. ASSUME NEW U \in SUBSET T
      PROVE  H[U] = IF U = {} THEN 0 ELSE f[Some(U)] + H[U \ {Some(U)}]
  BY <1>5
<1>7. SumsUp(f, T, H)
  <2>1. H = [U \in SUBSET T |-> H[U]]
    OBVIOUS
  <2> HIDE DEF H
  <2>2. [U \in SUBSET T |-> H[U]]
          = [U \in SUBSET T |-> IF U = {} THEN 0 ELSE f[Some(U)] + H[U \ {Some(U)}]]
    BY <1>6
  <2>. QED BY <2>1, <2>2 DEF SumsUp
<1>. QED BY <1>2, <1>7

\* The sum of a set is found by the function that sums any larger one.
LEMMA SumWithin ==
    ASSUME NEW f, NEW S, IsFiniteSet(S), NEW h, SumsUp(f, S, h), NEW T \in SUBSET S
    PROVE  SumOver(f, T) = h[T]
<1>1. IsFiniteSet(T)
  BY FS_Subset
<1> DEFINE k == CHOOSE g : SumsUp(f, T, g)
<1>2. SumsUp(f, T, k)
  BY <1>1, SumsExists
<1>3. SumOver(f, T) = k[T]
  BY SumUnfolds
<1> HIDE DEF k
<1>4. k[T] = h[T]
  <2>1. T \in SUBSET T
    OBVIOUS
  <2>2. \A g : SumsUp(f, T, g) => h[T] = g[T]
    BY <2>1, SumsAgree
  <2>. QED BY <1>2, <2>2
<1>. QED BY <1>3, <1>4

\* Nothing adds up to 0.
LEMMA SumEmpty ==
    ASSUME NEW f
    PROVE  SumOver(f, {}) = 0
<1>1. IsFiniteSet({})
  BY FS_EmptySet
<1>2. PICK h : SumsUp(f, {}, h)
  BY <1>1, SumsExists
<1>3. SumOver(f, {}) = h[{}]
  BY <1>1, <1>2, SumWithin
<1>. QED BY <1>2, <1>3, SumsStep

\* The sum is that of the chosen element and of the others.
LEMMA SumTakesSome ==
    ASSUME NEW f, NEW S, IsFiniteSet(S), S # {}
    PROVE  SumOver(f, S) = f[Some(S)] + SumOver(f, S \ {Some(S)})
<1>1. PICK h : SumsUp(f, S, h)
  BY SumsExists
<1>2. /\ SumOver(f, S) = h[S]
      /\ SumOver(f, S \ {Some(S)}) = h[S \ {Some(S)}]
  BY <1>1, SumWithin
<1>3. h[S] = f[Some(S)] + h[S \ {Some(S)}]
  <2>1. S \in SUBSET S
    OBVIOUS
  <2>. QED BY <2>1, <1>1, SumsStep
<1>. QED BY <1>2, <1>3

\* A sum of integers is an integer.
LEMMA SumInt ==
    ASSUME NEW f, NEW S, IsFiniteSet(S), \A x \in S : f[x] \in Int
    PROVE  SumOver(f, S) \in Int
<1> DEFINE B == {T \in SUBSET S : SumOver(f, T) \notin Int}
<1>1. SUFFICES ASSUME B # {} PROVE FALSE
  OBVIOUS
<1>2. PICK T \in B : \A U \in B : ~(U \subseteq T /\ U # T)
  <2>2. B \subseteq SUBSET S
    OBVIOUS
  <2> HIDE DEF B
  <2>. QED BY <2>2, <1>1, MinimalSubset
<1>3. T # {}
  <2>1. SumOver(f, T) # 0
    BY <1>2
  <2>. QED BY <2>1, SumEmpty
<1>4. Some(T) \in T
  BY <1>3, SomeIn
<1>5. SumOver(f, T \ {Some(T)}) \in Int
  BY <1>2, <1>4
<1>6. SumOver(f, T) = f[Some(T)] + SumOver(f, T \ {Some(T)})
  <2>1. IsFiniteSet(T)
    BY FS_Subset
  <2>. QED BY <2>1, <1>3, SumTakesSome
<1>. QED BY <1>4, <1>5, <1>6

\* Any element may be taken out first: the order does not matter.
LEMMA SumRemove ==
    ASSUME NEW f, NEW S, IsFiniteSet(S), \A x \in S : f[x] \in Int, NEW x \in S
    PROVE  SumOver(f, S) = f[x] + SumOver(f, S \ {x})
<1> DEFINE P(T) == \A y \in T : SumOver(f, T) = f[y] + SumOver(f, T \ {y})
<1> DEFINE B == {T \in SUBSET S : ~P(T)}
<1>1. SUFFICES ASSUME B # {} PROVE FALSE
  OBVIOUS
<1>2. PICK T \in B : \A U \in B : ~(U \subseteq T /\ U # T)
  <2>2. B \subseteq SUBSET S
    OBVIOUS
  <2> HIDE DEF B
  <2>. QED BY <2>2, <1>1, MinimalSubset
<1>3. PICK y \in T : SumOver(f, T) # f[y] + SumOver(f, T \ {y})
  BY <1>2
<1> DEFINE c == Some(T)
           A == T \ {c}
           D == T \ {y}
           E == T \ {c, y}
<1>4. /\ IsFiniteSet(T) /\ IsFiniteSet(A) /\ IsFiniteSet(D) /\ IsFiniteSet(E)
  <2>1. IsFiniteSet(T)
    BY FS_Subset
  <2>. QED BY <2>1, FS_Subset
<1>5. c \in T
  BY SomeIn
<1>6. SumOver(f, T) = f[c] + SumOver(f, A)
  BY <1>4, SumTakesSome
<1>7. c # y
  BY <1>3, <1>6
<1>t. T \subseteq S
  OBVIOUS
<1>8. A \notin B /\ D \notin B /\ A \in SUBSET S /\ D \in SUBSET S
  BY <1>2, <1>5
<1>9. y \in A /\ c \in D /\ A \ {y} = E /\ D \ {c} = E
  BY <1>5, <1>7
<1>10. P(A) /\ P(D)
  BY <1>8
<1> HIDE DEF A, D, E, B
<1>11. /\ SumOver(f, A) = f[y] + SumOver(f, E)
       /\ SumOver(f, D) = f[c] + SumOver(f, E)
  BY <1>9, <1>10
<1>12. SumOver(f, E) \in Int
  <2>1. \A e \in E : f[e] \in Int
    BY <1>t DEF E
  <2>. QED BY <2>1, <1>4, SumInt
<1>13. f[c] \in Int /\ f[y] \in Int
  BY <1>5, <1>t
<1>14. SumOver(f, T) = f[y] + SumOver(f, D)
  <2> HIDE DEF c
  <2>. QED BY <1>6, <1>11, <1>12, <1>13
<1>. QED BY <1>3, <1>14 DEF D

\* An element more.
LEMMA SumAdd ==
    ASSUME NEW f, NEW S, IsFiniteSet(S), NEW x, x \notin S,
           \A y \in S \cup {x} : f[y] \in Int
    PROVE  SumOver(f, S \cup {x}) = f[x] + SumOver(f, S)
<1> DEFINE T == S \cup {x}
<1>1. IsFiniteSet(T) /\ x \in T /\ T \ {x} = S
  BY FS_AddElement
<1>2. \A y \in T : f[y] \in Int
  OBVIOUS
<1> HIDE DEF T
<1>3. SumOver(f, T) = f[x] + SumOver(f, T \ {x})
  BY <1>1, <1>2, SumRemove
<1>. QED BY <1>1, <1>3 DEF T

\* A sum of natural numbers is one.
LEMMA SumNat ==
    ASSUME NEW f, NEW S, IsFiniteSet(S), \A x \in S : f[x] \in Nat
    PROVE  SumOver(f, S) \in Nat
<1> DEFINE B == {T \in SUBSET S : SumOver(f, T) \notin Nat}
<1>1. SUFFICES ASSUME B # {} PROVE FALSE
  OBVIOUS
<1>2. PICK T \in B : \A U \in B : ~(U \subseteq T /\ U # T)
  <2>2. B \subseteq SUBSET S
    OBVIOUS
  <2> HIDE DEF B
  <2>. QED BY <2>2, <1>1, MinimalSubset
<1>3. T # {}
  <2>1. SumOver(f, T) # 0
    BY <1>2
  <2>. QED BY <2>1, SumEmpty
<1>4. Some(T) \in T
  BY <1>3, SomeIn
<1>5. SumOver(f, T \ {Some(T)}) \in Nat
  BY <1>2, <1>4
<1>6. SumOver(f, T) = f[Some(T)] + SumOver(f, T \ {Some(T)})
  <2>1. IsFiniteSet(T)
    BY FS_Subset
  <2>. QED BY <2>1, <1>3, SumTakesSome
<1>. QED BY <1>4, <1>5, <1>6

\* Zeroes add up to 0.
LEMMA SumZero ==
    ASSUME NEW f, NEW S, IsFiniteSet(S), \A x \in S : f[x] = 0
    PROVE  SumOver(f, S) = 0
<1> DEFINE B == {T \in SUBSET S : SumOver(f, T) # 0}
<1>1. SUFFICES ASSUME B # {} PROVE FALSE
  OBVIOUS
<1>2. PICK T \in B : \A U \in B : ~(U \subseteq T /\ U # T)
  <2>2. B \subseteq SUBSET S
    OBVIOUS
  <2> HIDE DEF B
  <2>. QED BY <2>2, <1>1, MinimalSubset
<1>3. T # {}
  <2>1. SumOver(f, T) # 0
    BY <1>2
  <2>. QED BY <2>1, SumEmpty
<1>4. Some(T) \in T
  BY <1>3, SomeIn
<1>5. SumOver(f, T \ {Some(T)}) = 0
  BY <1>2, <1>4
<1>6. SumOver(f, T) = f[Some(T)] + SumOver(f, T \ {Some(T)})
  <2>1. IsFiniteSet(T)
    BY FS_Subset
  <2>. QED BY <2>1, <1>3, SumTakesSome
<1>. QED BY <1>2, <1>4, <1>5, <1>6

\* Only the values on S count.
LEMMA SumSame ==
    ASSUME NEW f, NEW g, NEW S, IsFiniteSet(S), \A x \in S : f[x] = g[x]
    PROVE  SumOver(f, S) = SumOver(g, S)
<1> DEFINE B == {T \in SUBSET S : SumOver(f, T) # SumOver(g, T)}
<1>1. SUFFICES ASSUME B # {} PROVE FALSE
  OBVIOUS
<1>2. PICK T \in B : \A U \in B : ~(U \subseteq T /\ U # T)
  <2>2. B \subseteq SUBSET S
    OBVIOUS
  <2> HIDE DEF B
  <2>. QED BY <2>2, <1>1, MinimalSubset
<1>3. T # {}
  <2>1. SumOver(f, T) # SumOver(g, T)
    BY <1>2
  <2>. QED BY <2>1, SumEmpty
<1>4. Some(T) \in T
  BY <1>3, SomeIn
<1>5. SumOver(f, T \ {Some(T)}) = SumOver(g, T \ {Some(T)})
  BY <1>2, <1>4
<1>6. /\ SumOver(f, T) = f[Some(T)] + SumOver(f, T \ {Some(T)})
      /\ SumOver(g, T) = g[Some(T)] + SumOver(g, T \ {Some(T)})
  <2>1. IsFiniteSet(T)
    BY FS_Subset
  <2>. QED BY <2>1, <1>3, SumTakesSome
<1>. QED BY <1>2, <1>4, <1>5, <1>6

\* One value changes.
LEMMA SumUpdate ==
    ASSUME NEW f, NEW g, NEW S, IsFiniteSet(S), NEW x \in S,
           \A y \in S : f[y] \in Int /\ g[y] \in Int,
           \A y \in S \ {x} : f[y] = g[y]
    PROVE  SumOver(g, S) = (SumOver(f, S) - f[x]) + g[x]
<1> DEFINE R == S \ {x}
<1>1. IsFiniteSet(R) /\ \A y \in R : f[y] = g[y] /\ f[y] \in Int
  BY FS_RemoveElement
<1>2. /\ SumOver(f, S) = f[x] + SumOver(f, R)
      /\ SumOver(g, S) = g[x] + SumOver(g, R)
  BY SumRemove
<1> HIDE DEF R
<1>3. SumOver(f, R) = SumOver(g, R) /\ SumOver(f, R) \in Int
  BY <1>1, SumSame, SumInt
<1>. QED BY <1>2, <1>3

\* The sum over a set is that over a part and over the rest.
LEMMA SumSplit ==
    ASSUME NEW f, NEW S, IsFiniteSet(S), \A x \in S : f[x] \in Int, NEW T \in SUBSET S
    PROVE  SumOver(f, S) = SumOver(f, T) + SumOver(f, S \ T)
<1> DEFINE C == {U \in SUBSET T : SumOver(f, S) # SumOver(f, U) + SumOver(f, S \ U)}
<1>1. SUFFICES ASSUME C # {} PROVE FALSE
  OBVIOUS
<1>0. IsFiniteSet(T)
  BY FS_Subset
<1>2. PICK U \in C : \A V \in C : ~(V \subseteq U /\ V # U)
  <2>2. C \subseteq SUBSET T
    OBVIOUS
  <2> HIDE DEF C
  <2>. QED BY <1>0, <2>2, <1>1, MinimalSubset
<1>u. U \subseteq T
  OBVIOUS
<1>3. SumOver(f, S) # SumOver(f, U) + SumOver(f, S \ U)
  OBVIOUS
<1>4. U # {}
  <2>1. SUFFICES ASSUME U = {} PROVE FALSE
    OBVIOUS
  <2>2. SumOver(f, U) = 0 /\ S \ U = S
    BY <2>1, SumEmpty
  <2>3. SumOver(f, S) \in Int
    BY SumInt
  <2>. QED BY <1>3, <2>2, <2>3
<1>5. PICK x : x \in U
  BY <1>4
<1> DEFINE V == U \ {x}
           W == S \ V
           Y == S \ U
<1>6. V \notin C
  BY <1>2, <1>5
<1>7. SumOver(f, S) = SumOver(f, V) + SumOver(f, W)
  BY <1>6, <1>u
<1>8. IsFiniteSet(U) /\ IsFiniteSet(V) /\ IsFiniteSet(W) /\ IsFiniteSet(Y)
  <2>1. U \in SUBSET S /\ V \in SUBSET S /\ W \in SUBSET S /\ Y \in SUBSET S
    BY <1>u
  <2>. QED BY <2>1, FS_Subset
<1>9. W \ {x} = Y /\ x \in W /\ x \in S
  BY <1>5, <1>u
<1>10. /\ \A y \in U : f[y] \in Int
       /\ \A y \in V : f[y] \in Int
       /\ \A y \in W : f[y] \in Int
       /\ \A y \in Y : f[y] \in Int
  BY <1>u
<1>11. SumOver(f, U) = f[x] + SumOver(f, V)
  BY <1>5, <1>8, <1>10, SumRemove
<1> HIDE DEF V, W, Y, C
<1>12. SumOver(f, W) = f[x] + SumOver(f, Y)
  BY <1>8, <1>9, <1>10, SumRemove
<1>13. SumOver(f, V) \in Int /\ SumOver(f, Y) \in Int /\ f[x] \in Int
  BY <1>8, <1>9, <1>10, SumInt
<1>14. SumOver(f, S) = SumOver(f, U) + SumOver(f, Y)
  BY <1>7, <1>11, <1>12, <1>13
<1>. QED BY <1>3, <1>14 DEF Y

\* A finite set of numbers has a greatest element.
LEMMA MaxIn ==
    ASSUME NEW S, IsFiniteSet(S), S # {}, S \subseteq Int
    PROVE  Max(S) \in S /\ \A y \in S : y <= Max(S)
<1> DEFINE Has(T) == \E m \in T : \A y \in T : y <= m
<1> DEFINE B == {T \in SUBSET S : T # {} /\ ~Has(T)}
<1>1. SUFFICES ASSUME B # {} PROVE FALSE
  <2>1. Has(S)
    BY <1>1
  <2>. QED BY <2>1 DEF Max
<1>2. PICK T \in B : \A U \in B : ~(U \subseteq T /\ U # T)
  <2>2. B \subseteq SUBSET S /\ B # {}
    BY <1>1
  <2> HIDE DEF B
  <2>. QED BY ONLY IsFiniteSet(S), <2>2, MinimalSubset
<1>3. PICK x \in T : TRUE
  BY <1>2
<1>4. T \ {x} \notin B
  BY <1>2, <1>3
<1>5. CASE T \ {x} = {}
  <2>1. \A y \in T : y = x
    BY <1>5
  <2>2. x \in Int
    BY <1>3
  <2>. QED BY <2>1, <2>2, <1>2
<1>6. CASE T \ {x} # {}
  <2>1. PICK m \in T \ {x} : \A y \in T \ {x} : y <= m
    BY <1>4, <1>6
  <2>2. m \in Int /\ x \in Int /\ \A y \in T : y \in Int
    BY <1>3
  <2>3. CASE x <= m
    BY <2>1, <2>2, <2>3, <1>2
  <2>4. CASE ~(x <= m)
    <3>1. \A y \in T : y <= x
      BY <2>1, <2>2, <2>4
    <3>. QED BY <3>1, <1>2, <1>3
  <2>. QED BY <2>3, <2>4
<1>. QED BY <1>5, <1>6
=============================================================================
