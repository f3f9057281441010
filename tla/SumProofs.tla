------------------------------ MODULE SumProofs ------------------------------
(***************************************************************************)
(* Sums of the values of a function on a finite set, as SumFunctionOnSet   *)
(* of Functions defines them: by taking one element after the other away.  *)
(***************************************************************************)
EXTENDS Functions, FiniteSetTheorems, TLAPS

\* The element a sum takes next.
Pick(s) == CHOOSE x \in s : TRUE

\* g has, for each subset of S, the sum of f on it.
Sums(g, f, S) ==
    g = [s \in SUBSET S |-> IF s = {} THEN 0 ELSE f[Pick(s)] + g[s \ {Pick(s)}]]

LEMMA SumDef ==
    ASSUME NEW f, NEW S
    PROVE  SumFunctionOnSet(f, S) = (CHOOSE g : Sums(g, f, S))[S]
  BY DEF SumFunctionOnSet, FoldFunctionOnSet, MapThenFoldSet, Sums, Pick

-----------------------------------------------------------------------------
(* Induction on finite sets, for a set of subsets in the place of a        *)
(* property: one that has no smallest member is empty.                     *)

LEMMA NoSmallest ==
    ASSUME NEW S, IsFiniteSet(S), NEW B \in SUBSET SUBSET S,
           \A T \in B : \E U \in B : U \subseteq T /\ U # T
    PROVE  B = {}
  <1> SUFFICES ASSUME B # {} PROVE FALSE
    OBVIOUS
  <1>1. IsWellFoundedOn(StrictSubsetOrdering(S), SUBSET S)
    <2>1. FiniteSubsetsOf(S) = SUBSET S
      BY FS_FiniteSubsetsOfFinite
    <2>2. IsWellFoundedOn(StrictSubsetOrdering(S), FiniteSubsetsOf(S))
      BY FS_StrictSubsetOrderingWellFounded
    <2> QED
      BY <2>1, <2>2
  <1>2. PICK T \in B : \A U \in B : <<U, T>> \notin StrictSubsetOrdering(S)
    BY <1>1, WFMin, Zenon
  <1>3. PICK U \in B : U \subseteq T /\ U # T
    OBVIOUS
  <1> QED
    BY <1>2, <1>3 DEF StrictSubsetOrdering

-----------------------------------------------------------------------------
(* The recursion has a solution.                                           *)

LEMMA PickIn ==
    ASSUME NEW s, s # {}
    PROVE  /\ Pick(s) \in s
           /\ s \ {Pick(s)} \subseteq s /\ s \ {Pick(s)} # s
  BY DEF Pick

\* Solutions for two sets agree where both are defined.
LEMMA SumsAgree ==
    ASSUME NEW f, NEW S, NEW T, IsFiniteSet(S), NEW g, NEW h, Sums(g, f, S), Sums(h, f, T),
           NEW s \in SUBSET S, s \in SUBSET T
    PROVE  g[s] = h[s]
  <1> DEFINE B == {u \in SUBSET s : g[u] # h[u]}
  <1>1. ASSUME NEW u \in B
        PROVE  \E v \in B : v \subseteq u /\ v # u
    <2>1. u # {}
      BY <1>1 DEF Sums
    <2>2. /\ g[u] = f[Pick(u)] + g[u \ {Pick(u)}]
          /\ h[u] = f[Pick(u)] + h[u \ {Pick(u)}]
      BY <1>1, <2>1 DEF Sums
    <2>3. u \ {Pick(u)} \in B
      BY <1>1, <2>1, <2>2, PickIn
    <2> QED
      BY <2>1, <2>3, PickIn
  <1>2. IsFiniteSet(s)
    BY FS_Subset
  <1>3. B = {}
    <2>1. B \in SUBSET SUBSET s
      OBVIOUS
    <2> HIDE DEF B
    <2> QED
      BY <1>1, <1>2, <2>1, NoSmallest
  <1> QED
    BY <1>3

LEMMA SumsExist ==
    ASSUME NEW f, NEW S, IsFiniteSet(S)
    PROVE  \E g : Sums(g, f, S)
  <1> DEFINE B == {s \in SUBSET S : ~ \E g : Sums(g, f, s)}
             G(s) == CHOOSE g : Sums(g, f, s)
  <1>1. ASSUME NEW T \in B, \A U \in B : ~(U \subseteq T /\ U # T)
        PROVE  FALSE
    <2> DEFINE below(u) == u \ {Pick(u)}
               h == [u \in SUBSET T |->
                       IF u = {} THEN 0 ELSE f[Pick(u)] + G(below(u))[below(u)]]
    <2>1. ASSUME NEW u, u \subseteq T, u # T
          PROVE  Sums(G(u), f, u)
      <3>1. u \in SUBSET S /\ u \notin B
        BY <1>1, <2>1
      <3> QED
        BY <3>1, Zenon
    <2>2. ASSUME NEW u \in SUBSET T, u # {}
          PROVE  h[below(u)] = G(below(u))[below(u)]
      <3> DEFINE v == below(u)
      <3>1. v \subseteq T /\ v # T
        BY <2>2, PickIn
      <3>2. Sums(G(v), f, v)
        BY <2>1, <3>1
      <3>3. CASE v = {}
        <4>1. h[v] = 0
          BY <3>1, <3>3
        <4>2. G(v)[v] = 0
          <5> HIDE DEF G, v
          <5> QED
            BY <3>2, <3>3 DEF Sums
        <4> QED
          BY <4>1, <4>2
      <3>4. CASE v # {}
        <4>1. below(v) \subseteq T /\ below(v) # T /\ below(v) \subseteq v
          BY <3>1, <3>4, PickIn
        <4>2. Sums(G(below(v)), f, below(v))
          BY <2>1, <4>1
        <4>3. G(v)[below(v)] = G(below(v))[below(v)]
          <5>1. IsFiniteSet(v)
            BY <3>1, FS_Subset
          <5> HIDE DEF G, v, below
          <5> QED
            BY <3>2, <4>1, <4>2, <5>1, SumsAgree
        <4>4. G(v)[v] = f[Pick(v)] + G(v)[below(v)]
          <5> HIDE DEF G, v
          <5> QED
            BY <3>2, <3>4 DEF Sums
        <4>5. h[v] = f[Pick(v)] + G(below(v))[below(v)]
          <5> HIDE DEF G, v, below
          <5> QED
            BY <3>1, <3>4
        <4> QED
          BY <4>3, <4>4, <4>5
      <3> QED
        BY <3>3, <3>4
    <2>3. h = [u \in SUBSET T |-> IF u = {} THEN 0 ELSE f[Pick(u)] + h[below(u)]]
      <3> HIDE DEF G, below
      <3> QED
        BY <2>2
    <2>4. Sums(h, f, T)
      BY <2>3 DEF Sums
    <2> QED
      BY <1>1, <2>4
  <1>2. B = {}
    <2>1. B \in SUBSET SUBSET S
      OBVIOUS
    <2> HIDE DEF B
    <2> QED
      BY <1>1, <2>1, NoSmallest
  <1> QED
    BY <1>2

-----------------------------------------------------------------------------
(* What a sum is, taken apart at any of its elements.                      *)

LEMMA SumAtPick ==
    ASSUME NEW f, NEW S, IsFiniteSet(S), NEW T \in SUBSET S
    PROVE  SumFunctionOnSet(f, T) =
              IF T = {} THEN 0 ELSE f[Pick(T)] + SumFunctionOnSet(f, T \ {Pick(T)})
  <1> DEFINE g == CHOOSE h : Sums(h, f, T)
             R == T \ {Pick(T)}
             k == CHOOSE h : Sums(h, f, R)
  <1>1. IsFiniteSet(T) /\ IsFiniteSet(R)
    BY FS_Subset
  <1>2. Sums(g, f, T)
    <2>1. \E h : Sums(h, f, T)
      BY <1>1, SumsExist
    <2> QED
      BY <2>1, Zenon
  <1>3. Sums(k, f, R)
    <2>1. \E h : Sums(h, f, R)
      BY <1>1, SumsExist
    <2> HIDE DEF R
    <2> QED
      BY <2>1, Zenon
  <1>4. g[R] = k[R]
    <2>1. R \in SUBSET T /\ R \in SUBSET R
      OBVIOUS
    <2> HIDE DEF g, k, R
    <2> QED
      BY <1>1, <1>2, <1>3, <2>1, SumsAgree
  <1>5. g[T] = IF T = {} THEN 0 ELSE f[Pick(T)] + g[R]
    <2> HIDE DEF g
    <2> QED
      BY <1>2 DEF Sums
  <1>6. SumFunctionOnSet(f, T) = g[T] /\ SumFunctionOnSet(f, R) = k[R]
    BY SumDef
  <1> HIDE DEF g, k
  <1> QED
    BY <1>4, <1>5, <1>6

\* The sum of nothing is 0.
LEMMA SumEmpty ==
    ASSUME NEW f
    PROVE  SumFunctionOnSet(f, {}) = 0
  <1>1. IsFiniteSet({})
    BY FS_EmptySet
  <1> QED
    BY <1>1, SumAtPick

\* A sum of integers is one.
LEMMA SumType ==
    ASSUME NEW f, NEW S, IsFiniteSet(S), \A x \in S : f[x] \in Int
    PROVE  SumFunctionOnSet(f, S) \in Int
  <1> DEFINE B == {T \in SUBSET S : SumFunctionOnSet(f, T) \notin Int}
  <1>1. ASSUME NEW T \in B
        PROVE  \E U \in B : U \subseteq T /\ U # T
    <2>1. SumFunctionOnSet(f, T) =
             IF T = {} THEN 0 ELSE f[Pick(T)] + SumFunctionOnSet(f, T \ {Pick(T)})
      BY <1>1, SumAtPick
    <2>2. T # {} /\ f[Pick(T)] \in Int
      BY <1>1, <2>1, PickIn
    <2>3. SumFunctionOnSet(f, T \ {Pick(T)}) \notin Int
      BY <1>1, <2>1, <2>2
    <2> QED
      BY <2>2, <2>3, PickIn
  <1>2. B = {}
    <2>1. B \in SUBSET SUBSET S
      OBVIOUS
    <2> HIDE DEF B
    <2> QED
      BY <1>1, <2>1, NoSmallest
  <1> QED
    BY <1>2

\* Whichever element is taken away first, the sum is the same.
LEMMA SumAt ==
    ASSUME NEW f, NEW S, IsFiniteSet(S), \A x \in S : f[x] \in Int, NEW y \in S
    PROVE  SumFunctionOnSet(f, S) = f[y] + SumFunctionOnSet(f, S \ {y})
  <1> DEFINE Sum(T) == SumFunctionOnSet(f, T)
             B == {T \in SUBSET S : \E x \in T : Sum(T) # f[x] + Sum(T \ {x})}
  <1>1. \A T \in SUBSET S : Sum(T) \in Int
    BY SumType, FS_Subset
  <1>2. \A T \in SUBSET S : T # {} => Sum(T) = f[Pick(T)] + Sum(T \ {Pick(T)})
    BY SumAtPick
  <1>3. ASSUME NEW T \in B
        PROVE  \E U \in B : U \subseteq T /\ U # T
    <2> HIDE DEF Sum
    <2>1. PICK x \in T : Sum(T) # f[x] + Sum(T \ {x})
      BY <1>3
    <2> DEFINE c == Pick(T)
    <2>2. c \in T /\ Sum(T) = f[c] + Sum(T \ {c})
      BY <1>2, <1>3, <2>1, PickIn
    <2>3. c # x
      BY <2>1, <2>2
    <2> HIDE DEF c
    <2>4. /\ T \ {c} \in SUBSET S /\ T \ {x} \in SUBSET S
          /\ x \in T \ {c} /\ c \in T \ {x}
          /\ T \ {c} # T /\ T \ {x} # T
          /\ (T \ {c}) \ {x} = (T \ {x}) \ {c}
      BY <1>3, <2>1, <2>2, <2>3
    <2>5. CASE T \ {c} \in B \/ T \ {x} \in B
      BY <2>4, <2>5
    <2>6. CASE T \ {c} \notin B /\ T \ {x} \notin B
      <3>1. Sum(T \ {c}) = f[x] + Sum((T \ {c}) \ {x})
        BY <2>4, <2>6
      <3>2. Sum(T \ {x}) = f[c] + Sum((T \ {x}) \ {c})
        BY <2>4, <2>6
      <3>3. f[x] \in Int /\ f[c] \in Int /\ Sum((T \ {x}) \ {c}) \in Int
        BY <1>1, <1>3, <2>1, <2>2
      <3>4. Sum(T \ {c}) = f[x] + Sum((T \ {x}) \ {c})
        BY <2>4, <3>1
      <3>5. Sum(T) = f[x] + Sum(T \ {x})
        <4> HIDE DEF B
        <4> QED
          BY <2>2, <3>2, <3>3, <3>4
      <3> QED
        BY <2>1, <3>5
    <2> QED
      BY <2>5, <2>6
  <1>4. B = {}
    <2>1. B \in SUBSET SUBSET S
      OBVIOUS
    <2> HIDE DEF B
    <2> QED
      BY <1>3, <2>1, NoSmallest
  <1> QED
    BY <1>4

\* One more element adds its value.
LEMMA SumAdd ==
    ASSUME NEW f, NEW S, IsFiniteSet(S), NEW y, y \notin S, \A x \in S \cup {y} : f[x] \in Int
    PROVE  SumFunctionOnSet(f, S \cup {y}) = SumFunctionOnSet(f, S) + f[y]
  <1>1. IsFiniteSet(S \cup {y})
    BY FS_AddElement
  <1>2. SumFunctionOnSet(f, S \cup {y}) = f[y] + SumFunctionOnSet(f, (S \cup {y}) \ {y})
    BY <1>1, SumAt
  <1>3. (S \cup {y}) \ {y} = S
    OBVIOUS
  <1>4. SumFunctionOnSet(f, S) \in Int /\ f[y] \in Int
    BY SumType
  <1>5. SumFunctionOnSet(f, S \cup {y}) = f[y] + SumFunctionOnSet(f, S)
    BY <1>2, <1>3
  <1> QED
    BY <1>4, <1>5

\* A single value is its own sum.
LEMMA SumOne ==
    ASSUME NEW f, NEW y, f[y] \in Int
    PROVE  SumFunctionOnSet(f, {y}) = f[y]
  <1>1. SumFunctionOnSet(f, {} \cup {y}) = SumFunctionOnSet(f, {}) + f[y]
    BY FS_EmptySet, SumAdd
  <1>2. {} \cup {y} = {y}
    OBVIOUS
  <1>3. SumFunctionOnSet(f, {y}) = 0 + f[y]
    BY <1>1, <1>2, SumEmpty
  <1> QED
    BY <1>3

\* Noughts add up to 0.
LEMMA SumZero ==
    ASSUME NEW f, NEW S, IsFiniteSet(S), \A x \in S : f[x] = 0
    PROVE  SumFunctionOnSet(f, S) = 0
  <1> DEFINE B == {T \in SUBSET S : SumFunctionOnSet(f, T) # 0}
  <1>1. ASSUME NEW T \in B
        PROVE  \E U \in B : U \subseteq T /\ U # T
    <2> DEFINE U == T \ {Pick(T)}
    <2>1. SumFunctionOnSet(f, T) = IF T = {} THEN 0 ELSE f[Pick(T)] + SumFunctionOnSet(f, U)
      BY <1>1, SumAtPick
    <2>2. T # {} /\ f[Pick(T)] = 0
      BY <1>1, <2>1, PickIn
    <2>3. SumFunctionOnSet(f, U) # 0
      BY <1>1, <2>1, <2>2
    <2> QED
      BY <2>2, <2>3, PickIn
  <1>2. B = {}
    <2>1. B \in SUBSET SUBSET S
      OBVIOUS
    <2> HIDE DEF B
    <2> QED
      BY <1>1, <2>1, NoSmallest
  <1> QED
    BY <1>2

\* A sum depends only on the values of the elements.
LEMMA SumSame ==
    ASSUME NEW f, NEW g, NEW S, IsFiniteSet(S),
           \A x \in S : f[x] \in Int /\ g[x] = f[x]
    PROVE  SumFunctionOnSet(g, S) = SumFunctionOnSet(f, S)
  <1> DEFINE B == {T \in SUBSET S : SumFunctionOnSet(g, T) # SumFunctionOnSet(f, T)}
  <1>1. ASSUME NEW T \in B
        PROVE  \E U \in B : U \subseteq T /\ U # T
    <2> DEFINE U == T \ {Pick(T)}
    <2>1. /\ SumFunctionOnSet(f, T) = IF T = {} THEN 0 ELSE f[Pick(T)] + SumFunctionOnSet(f, U)
          /\ SumFunctionOnSet(g, T) = IF T = {} THEN 0 ELSE g[Pick(T)] + SumFunctionOnSet(g, U)
      BY <1>1, SumAtPick
    <2>2. T # {}
      BY <1>1, <2>1
    <2>3. U \in B
      BY <1>1, <2>1, <2>2, PickIn
    <2> QED
      BY <2>2, <2>3, PickIn
  <1>2. B = {}
    <2>1. B \in SUBSET SUBSET S
      OBVIOUS
    <2> HIDE DEF B
    <2> QED
      BY <1>1, <2>1, NoSmallest
  <1> QED
    BY <1>2

\* A sum changes by what the value of one element does.
LEMMA SumChange ==
    ASSUME NEW f, NEW g, NEW S, IsFiniteSet(S), NEW y \in S, g[y] \in Int,
           \A x \in S : f[x] \in Int /\ (x # y => g[x] = f[x])
    PROVE  SumFunctionOnSet(g, S) = SumFunctionOnSet(f, S) + (g[y] - f[y])
  <1> DEFINE R == S \ {y}
  <1>1. IsFiniteSet(R)
    BY FS_Subset
  <1>2. SumFunctionOnSet(g, R) = SumFunctionOnSet(f, R)
    BY <1>1, SumSame
  <1>3. SumFunctionOnSet(f, S) = f[y] + SumFunctionOnSet(f, R)
    BY SumAt
  <1>4. SumFunctionOnSet(g, S) = g[y] + SumFunctionOnSet(g, R)
    <2>1. \A x \in S : g[x] \in Int
      OBVIOUS
    <2> QED
      BY <2>1, SumAt
  <1>5. SumFunctionOnSet(f, R) \in Int /\ f[y] \in Int
    BY <1>1, SumType
  <1> HIDE DEF R
  <1> QED
    BY <1>2, <1>3, <1>4, <1>5
=============================================================================
