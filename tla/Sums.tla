-------------------------------- MODULE Sums --------------------------------
(***************************************************************************)
(* Lemmas about SumFunctionOnSet of the community modules: the sum of the  *)
(* values f[x] of the elements x of a finite set, in which FileStorage     *)
(* counts bytes.  The operator is a fold that picks one element after      *)
(* another, so what holds of it is shown of the smallest subset for which  *)
(* it would fail (SmallestSubset).                                         *)
(***************************************************************************)
EXTENDS Integers, Functions, FiniteSets, FiniteSetTheorems, TLAPS

(* The element taken next, and the recursion of the fold over the subsets of T. *)
Pick(s) == CHOOSE x \in s : TRUE
Recurs(it, f, T) ==
    it = [s \in SUBSET T |->
            IF s = {} THEN 0 ELSE f[Pick(s)] + it[s \ {Pick(s)}]]

(* The sum is the value of that recursion on the whole set. *)
LEMMA SumUnfolds ==
    ASSUME NEW f, NEW S
    PROVE  SumFunctionOnSet(f, S) = (CHOOSE it : Recurs(it, f, S))[S]
  BY Zenon DEF SumFunctionOnSet, FoldFunctionOnSet, MapThenFoldSet, Recurs, Pick

LEMMA PickIn == ASSUME NEW s, s # {} PROVE Pick(s) \in s
  BY DEF Pick

(* Among the subsets of a finite set that are bad, one has no bad proper subset. *)
LEMMA SmallestSubset ==
    ASSUME NEW S, IsFiniteSet(S), NEW Bad \in SUBSET (SUBSET S), Bad # {}
    PROVE  \E s \in Bad : \A t \in SUBSET s : t # s => t \notin Bad
  <1>1. IsWellFoundedOn(StrictSubsetOrdering(S), SUBSET S)
    BY FS_FiniteSubsetsOfFinite, FS_StrictSubsetOrderingWellFounded
  <1>2. PICK s \in Bad : \A t \in Bad : <<t, s>> \notin StrictSubsetOrdering(S)
    BY <1>1, WFMin
  <1> QED BY <1>2 DEF StrictSubsetOrdering

LEMMA RecursAt ==
    ASSUME NEW it, NEW f, NEW T, Recurs(it, f, T), NEW s \in SUBSET T
    PROVE  it[s] = IF s = {} THEN 0 ELSE f[Pick(s)] + it[s \ {Pick(s)}]
  <1> HIDE DEF Pick
  <1> QED BY DEF Recurs

(* Two such recursions, on whatever sets, agree where both are defined. *)
LEMMA RecursUnique ==
    ASSUME NEW f, NEW T, NEW U, NEW g, NEW h, Recurs(g, f, T), Recurs(h, f, U),
           NEW s, s \subseteq T, s \subseteq U, IsFiniteSet(s)
    PROVE  g[s] = h[s]
  <1> DEFINE Bad == {t \in SUBSET s : g[t] # h[t]}
  <1>1. SUFFICES ASSUME Bad # {} PROVE FALSE
    OBVIOUS
  <1>2. PICK t \in Bad : \A u \in SUBSET t : u # t => u \notin Bad
    <2>1. Bad \in SUBSET (SUBSET s)
      OBVIOUS
    <2> HIDE DEF Bad
    <2> QED BY <1>1, <2>1, SmallestSubset
  <1>3. t # {}
    BY <1>2, RecursAt
  <1>4. Pick(t) \in t
    BY <1>3, PickIn
  <1> DEFINE u == t \ {Pick(t)}
  <1>5. u \in SUBSET t /\ u # t
    BY <1>4
  <1>6. g[u] = h[u]
    BY <1>2, <1>5
  <1>7. g[t] = f[Pick(t)] + g[u] /\ h[t] = f[Pick(t)] + h[u]
    BY <1>2, <1>3, RecursAt
  <1> QED BY <1>2, <1>6, <1>7

(* On a finite set the recursion has a solution. *)
LEMMA RecursExists ==
    ASSUME NEW f, NEW S, IsFiniteSet(S)
    PROVE  \E it : Recurs(it, f, S)
  <1> DEFINE Bad == {t \in SUBSET S : ~\E it : Recurs(it, f, t)}
  <1>1. SUFFICES ASSUME Bad # {} PROVE FALSE
    OBVIOUS
  <1>2. PICK t \in Bad : \A u \in SUBSET t : u # t => u \notin Bad
    <2>1. Bad \in SUBSET (SUBSET S)
      OBVIOUS
    <2> HIDE DEF Bad
    <2> QED BY <1>1, <2>1, SmallestSubset
  <1> DEFINE G(u) == CHOOSE it : Recurs(it, f, u)
             rest(u) == u \ {Pick(u)}
             V(u) == IF u = {} THEN 0 ELSE f[Pick(u)] + G(rest(u))[rest(u)]
             h == [u \in SUBSET t |-> V(u)]
  <1>3. \A u \in SUBSET t : u # t => Recurs(G(u), f, u)
    BY <1>2
  <1>4. ASSUME NEW u \in SUBSET t, u # {}
        PROVE  rest(u) \in SUBSET t /\ rest(u) # t /\ rest(u) \subseteq u
    BY <1>4, PickIn
  <1> HIDE DEF G
  <1>5. ASSUME NEW u \in SUBSET t, u # t PROVE V(u) = G(u)[u]
    <2>1. CASE u = {}
      BY <2>1, <1>3, <1>5, RecursAt
    <2>2. CASE u # {}
      <3>1. G(u)[u] = f[Pick(u)] + G(u)[rest(u)]
        BY <1>3, <1>5, <2>2, RecursAt
      <3>2. G(u)[rest(u)] = G(rest(u))[rest(u)]
        <4>1. Recurs(G(u), f, u) /\ Recurs(G(rest(u)), f, rest(u))
          BY <1>3, <1>4, <1>5, <2>2
        <4>2. IsFiniteSet(rest(u)) /\ rest(u) \subseteq u
          BY <1>4, <2>2, FS_Subset
        <4> HIDE DEF rest
        <4> QED BY <4>1, <4>2, RecursUnique
      <3> QED BY <2>2, <3>1, <3>2
    <2> QED BY <2>1, <2>2
  <1>6. \A u \in SUBSET t : V(u) = IF u = {} THEN 0 ELSE f[Pick(u)] + h[rest(u)]
    <2> SUFFICES ASSUME NEW u \in SUBSET t, u # {} PROVE V(u) = f[Pick(u)] + h[rest(u)]
      OBVIOUS
    <2>1. h[rest(u)] = V(rest(u)) /\ V(rest(u)) = G(rest(u))[rest(u)]
      <3>1. rest(u) \in SUBSET t /\ rest(u) # t
        BY <1>4
      <3> HIDE DEF V, rest
      <3> QED BY <3>1, <1>5
    <2> QED BY <2>1
  <1>7. Recurs(h, f, t)
    <2> HIDE DEF V
    <2>1. h = [u \in SUBSET t |-> IF u = {} THEN 0 ELSE f[Pick(u)] + h[rest(u)]]
      <3>1. h = [u \in SUBSET t |-> V(u)]
        OBVIOUS
      <3> HIDE DEF h
      <3> QED BY <1>6, <3>1
    <2> QED BY <2>1 DEF Recurs
  <1> QED BY <1>2, <1>7

(* What the definition says of one step. *)
LEMMA SumRecurs ==
    ASSUME NEW f, NEW S, IsFiniteSet(S)
    PROVE  /\ SumFunctionOnSet(f, {}) = 0
           /\ S # {} =>
                SumFunctionOnSet(f, S) = f[Pick(S)] + SumFunctionOnSet(f, S \ {Pick(S)})
  <1> DEFINE It(T) == CHOOSE it : Recurs(it, f, T)
             R == S \ {Pick(S)}
  <1>1. IsFiniteSet(R) /\ IsFiniteSet({}) /\ R \subseteq S
    BY FS_Subset, FS_EmptySet
  <1>2. Recurs(It(S), f, S) /\ Recurs(It(R), f, R) /\ Recurs(It({}), f, {})
    <2>1. \A T : IsFiniteSet(T) => \E it : Recurs(it, f, T)
      BY RecursExists
    <2> QED BY <1>1, <2>1
  <1>3. /\ SumFunctionOnSet(f, {}) = It({})[{}]
        /\ SumFunctionOnSet(f, S) = It(S)[S]
        /\ SumFunctionOnSet(f, R) = It(R)[R]
    BY SumUnfolds
  <1> HIDE DEF It, R
  <1>4. It({})[{}] = 0
    BY <1>2, RecursAt
  <1>5. It(S)[R] = It(R)[R]
    BY <1>1, <1>2, RecursUnique
  <1>6. S # {} => It(S)[S] = f[Pick(S)] + It(S)[R]
    BY <1>2, RecursAt DEF R
  <1> QED BY <1>3, <1>4, <1>5, <1>6 DEF R

LEMMA SumEmpty == ASSUME NEW f PROVE SumFunctionOnSet(f, {}) = 0
  BY SumRecurs, FS_EmptySet

(* Sums of integers and of natural numbers are such numbers. *)
LEMMA SumInt ==
    ASSUME NEW f, NEW S, IsFiniteSet(S), \A x \in S : f[x] \in Int
    PROVE  SumFunctionOnSet(f, S) \in Int
  <1> DEFINE Bad == {t \in SUBSET S : SumFunctionOnSet(f, t) \notin Int}
  <1>1. SUFFICES ASSUME Bad # {} PROVE FALSE
    OBVIOUS
  <1>2. PICK t \in Bad : \A u \in SUBSET t : u # t => u \notin Bad
    <2>1. Bad \in SUBSET (SUBSET S)
      OBVIOUS
    <2> HIDE DEF Bad
    <2> QED BY <1>1, <2>1, SmallestSubset
  <1>3. t # {}
    BY <1>2, SumEmpty
  <1>4. Pick(t) \in t /\ f[Pick(t)] \in Int /\ IsFiniteSet(t)
    BY <1>2, <1>3, PickIn, FS_Subset
  <1>5. SumFunctionOnSet(f, t \ {Pick(t)}) \in Int
    BY <1>2, <1>4
  <1> QED BY <1>2, <1>3, <1>4, <1>5, SumRecurs

LEMMA SumNat ==
    ASSUME NEW f, NEW S, IsFiniteSet(S), \A x \in S : f[x] \in Nat
    PROVE  SumFunctionOnSet(f, S) \in Nat
  <1> DEFINE Bad == {t \in SUBSET S : SumFunctionOnSet(f, t) \notin Nat}
  <1>1. SUFFICES ASSUME Bad # {} PROVE FALSE
    OBVIOUS
  <1>2. PICK t \in Bad : \A u \in SUBSET t : u # t => u \notin Bad
    <2>1. Bad \in SUBSET (SUBSET S)
      OBVIOUS
    <2> HIDE DEF Bad
    <2> QED BY <1>1, <2>1, SmallestSubset
  <1>3. t # {}
    <2>1. SumFunctionOnSet(f, {}) \in Nat
      BY SumEmpty
    <2> QED BY <1>2, <2>1
  <1>4. Pick(t) \in t /\ f[Pick(t)] \in Nat /\ IsFiniteSet(t)
    BY <1>2, <1>3, PickIn, FS_Subset
  <1>5. SumFunctionOnSet(f, t \ {Pick(t)}) \in Nat
    BY <1>2, <1>4
  <1> QED BY <1>2, <1>3, <1>4, <1>5, SumRecurs

(* Only the values on the set matter. *)
LEMMA SumCongruence ==
    ASSUME NEW f, NEW g, NEW S, IsFiniteSet(S), \A x \in S : f[x] = g[x]
    PROVE  SumFunctionOnSet(f, S) = SumFunctionOnSet(g, S)
  <1> DEFINE Bad == {t \in SUBSET S : SumFunctionOnSet(f, t) # SumFunctionOnSet(g, t)}
  <1>1. SUFFICES ASSUME Bad # {} PROVE FALSE
    OBVIOUS
  <1>2. PICK t \in Bad : \A u \in SUBSET t : u # t => u \notin Bad
    <2>1. Bad \in SUBSET (SUBSET S)
      OBVIOUS
    <2> HIDE DEF Bad
    <2> QED BY <1>1, <2>1, SmallestSubset
  <1>3. t # {}
    BY <1>2, SumEmpty
  <1>4. Pick(t) \in t /\ f[Pick(t)] = g[Pick(t)] /\ IsFiniteSet(t)
    BY <1>2, <1>3, PickIn, FS_Subset
  <1>5. SumFunctionOnSet(f, t \ {Pick(t)}) = SumFunctionOnSet(g, t \ {Pick(t)})
    BY <1>2, <1>4
  <1> QED BY <1>2, <1>3, <1>4, <1>5, SumRecurs

(* Any element may be taken first: the sum does not depend on the order. *)
LEMMA SumRemove ==
    ASSUME NEW f, NEW S, IsFiniteSet(S), \A x \in S : f[x] \in Int, NEW x \in S
    PROVE  SumFunctionOnSet(f, S) = f[x] + SumFunctionOnSet(f, S \ {x})
  <1> DEFINE Bad == {t \in SUBSET S : \E y \in t :
                        SumFunctionOnSet(f, t) # f[y] + SumFunctionOnSet(f, t \ {y})}
  <1>1. SUFFICES ASSUME Bad # {} PROVE FALSE
    OBVIOUS
  <1>2. PICK t \in Bad : \A u \in SUBSET t : u # t => u \notin Bad
    <2>1. Bad \in SUBSET (SUBSET S)
      OBVIOUS
    <2> HIDE DEF Bad
    <2> QED BY <1>1, <2>1, SmallestSubset
  <1>3. PICK y \in t : SumFunctionOnSet(f, t) # f[y] + SumFunctionOnSet(f, t \ {y})
    BY <1>2
  <1> DEFINE z == Pick(t)
             both == (t \ {y}) \ {z}
  <1>4. z \in t /\ IsFiniteSet(t) /\ IsFiniteSet(both) /\ \A v \in t : f[v] \in Int
    BY <1>2, <1>3, PickIn, FS_Subset
  <1>5. SumFunctionOnSet(f, t) = f[z] + SumFunctionOnSet(f, t \ {z})
    BY <1>3, <1>4, SumRecurs
  <1> HIDE DEF z
  <1>6. z # y
    BY <1>3, <1>5
  <1>7. \A u \in SUBSET t : u # t => \A v \in u :
            SumFunctionOnSet(f, u) = f[v] + SumFunctionOnSet(f, u \ {v})
    BY <1>2
  <1>8. SumFunctionOnSet(f, t \ {z}) = f[y] + SumFunctionOnSet(f, both)
    <2>1. (t \ {z}) \ {y} = both
      OBVIOUS
    <2> QED BY <1>3, <1>4, <1>6, <1>7, <2>1
  <1>9. SumFunctionOnSet(f, t \ {y}) = f[z] + SumFunctionOnSet(f, both)
    BY <1>3, <1>4, <1>6, <1>7
  <1>10. SumFunctionOnSet(f, both) \in Int /\ f[y] \in Int /\ f[z] \in Int
    BY <1>3, <1>4, SumInt
  <1> QED BY <1>3, <1>5, <1>8, <1>9, <1>10

LEMMA TimesOneMore ==
    ASSUME NEW k \in Int, NEW m \in Int
    PROVE  k * m \in Int /\ 0 * m = 0 /\ k * m = (k - 1) * m + m
  <1>1. k * m \in Int /\ 0 * m = 0
    OBVIOUS
  <1>2. k * m = (k - 1) * m + m
    OBVIOUS
  <1> QED BY <1>1, <1>2

(* A sum of values up to m is at most m for each element. *)
LEMMA SumBounded ==
    ASSUME NEW f, NEW S, IsFiniteSet(S), NEW m \in Nat, \A x \in S : f[x] \in 0..m
    PROVE  /\ SumFunctionOnSet(f, S) \in Int
           /\ 0 <= SumFunctionOnSet(f, S)
           /\ SumFunctionOnSet(f, S) <= Cardinality(S) * m
  <1> DEFINE Fine(t) == /\ 0 <= SumFunctionOnSet(f, t)
                        /\ SumFunctionOnSet(f, t) <= Cardinality(t) * m
             Bad == {t \in SUBSET S : ~Fine(t)}
  <1>1. SUFFICES ASSUME Bad # {} PROVE FALSE
    BY SumInt
  <1>2. PICK t \in Bad : \A u \in SUBSET t : u # t => u \notin Bad
    <2>1. Bad \in SUBSET (SUBSET S)
      OBVIOUS
    <2> HIDE DEF Bad
    <2> QED BY <1>1, <2>1, SmallestSubset
  <1>3. t # {}
    <2>1. Fine({})
      BY SumEmpty, FS_EmptySet, TimesOneMore
    <2> QED BY <1>2, <2>1
  <1> DEFINE z == Pick(t)
             u == t \ {z}
  <1>4. z \in t /\ IsFiniteSet(t) /\ IsFiniteSet(u) /\ f[z] \in 0..m
    BY <1>2, <1>3, PickIn, FS_Subset
  <1>5. Fine(u)
    BY <1>2, <1>4
  <1>6. SumFunctionOnSet(f, t) = f[z] + SumFunctionOnSet(f, u)
    BY <1>3, <1>4, SumRecurs
  <1>7. Cardinality(t) \in Nat /\ Cardinality(u) = Cardinality(t) - 1
    BY <1>4, FS_CardinalityType, FS_RemoveElement
  <1>8. SumFunctionOnSet(f, u) \in Int
    BY <1>2, <1>4, SumInt
  <1> HIDE DEF z, u
  <1>9. Cardinality(t) * m = Cardinality(u) * m + m /\ Cardinality(u) * m \in Int
    <2> DEFINE k == Cardinality(t)
    <2>1. k \in Int /\ k - 1 \in Int /\ m \in Int /\ Cardinality(u) = k - 1
      BY <1>7
    <2> HIDE DEF k
    <2>2. k * m = (k - 1) * m + m /\ (k - 1) * m \in Int
      BY <2>1, TimesOneMore
    <2> QED BY <2>1, <2>2 DEF k
  <1>10. Fine(t)
    BY <1>4, <1>5, <1>6, <1>8, <1>9
  <1> QED BY <1>2, <1>10
=============================================================================
