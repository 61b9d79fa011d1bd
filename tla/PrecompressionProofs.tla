------------------------ MODULE PrecompressionProofs ------------------------
(***************************************************************************)
(* What the tables and the data of the lines guarantee for every size of a *)
(* line, of a set and of the tables, and every command line.               *)
(*                                                                         *)
(* The library's folds are recursive functions, and its induction theorems *)
(* take predicates: here sets stand for the predicates.                    *)
(***************************************************************************)
EXTENDS PrecompressionHistory, CacheTheorems, FiniteSetTheorems

----------------------------------------------------------------------------
(* Induction and folds.                                                    *)

\* Induction with a set in the place of a predicate.
LEMMA SetOfNaturals ==
    ASSUME NEW G \in SUBSET Nat, 0 \in G, \A n \in G : n + 1 \in G
    PROVE  G = Nat
PROOF
<1> SUFFICES ASSUME Nat \ G # {} PROVE FALSE
  OBVIOUS
<1>1. PICK n \in Nat \ G : \A m \in Nat \ G : ~ (<<m, n>> \in OpToRel(<, Nat))
  BY NatLessThanWellFounded, WFMin
<1>2. \A m \in Nat \ G : ~ (m < n)
  BY <1>1 DEF OpToRel
<1>3. n \in Nat /\ n # 0
  OBVIOUS
<1>4. n - 1 \in Nat /\ n - 1 < n /\ (n - 1) + 1 = n
  BY <1>3
<1>5. n - 1 \in G
  BY <1>2, <1>4
<1> QED
  BY <1>4, <1>5

\* Induction over the subsets of a finite set.
LEMMA SetOfSubsets ==
    ASSUME NEW S, IsFiniteSet(S), NEW G \in SUBSET (SUBSET S), {} \in G,
           \A s \in SUBSET S : s # {} => \E x \in s : s \ {x} \in G => s \in G
    PROVE  G = SUBSET S
PROOF
<1> DEFINE N == {n \in Nat : \A s \in SUBSET S : Cardinality(s) = n => s \in G}
<1>1. \A s \in SUBSET S : IsFiniteSet(s) /\ Cardinality(s) \in Nat
  BY FS_Subset, FS_CardinalityType
<1>2. 0 \in N
  BY <1>1, FS_EmptySet
<1>3. \A n \in N : n + 1 \in N
  <2> SUFFICES ASSUME NEW n \in N, NEW s \in SUBSET S, Cardinality(s) = n + 1
               PROVE  s \in G
    OBVIOUS
  <2>0. n \in Nat /\ \A t \in SUBSET S : Cardinality(t) = n => t \in G
    OBVIOUS
  <2> HIDE DEF N
  <2>1. s # {}
    BY <2>0, FS_EmptySet
  <2>2. PICK x \in s : s \ {x} \in G => s \in G
    BY <2>1
  <2>3. x \in s /\ IsFiniteSet(s)
    BY <1>1, <2>2
  <2>4. Cardinality(s \ {x}) = Cardinality(s) - 1
    BY <2>3, FS_RemoveElement
  <2>5. Cardinality(s \ {x}) = n
    BY <2>0, <2>4
  <2> QED
    BY <2>0, <2>2, <2>5
<1>4. N = Nat
  <2> HIDE DEF N
  <2>1. N \in SUBSET Nat
    BY DEF N
  <2> QED
    BY <1>2, <1>3, <2>1, SetOfNaturals
<1> QED
  BY <1>1, <1>4

\* f folds step over the subsets of S, in the order in which pick takes elements.
IsFold(f, S, V, base, pick, step) ==
    /\ f \in [SUBSET S -> V]
    /\ \A s \in SUBSET S :
          f[s] = IF s = {} THEN base
                 ELSE step[<<pick[s], f[s \ {pick[s]}]>>]

\* A fold is well defined.
LEMMA FoldExists ==
    ASSUME NEW S, IsFiniteSet(S), NEW V, NEW base \in V, NEW pick, NEW step \in [S \X V -> V],
           \A s \in SUBSET S : s # {} => pick[s] \in s
    PROVE  \E f : IsFold(f, S, V, base, pick, step)
PROOF
<1> DEFINE P(n) == {s \in SUBSET S : Cardinality(s) <= n}
           Value(f, s) == IF s = {} THEN base ELSE step[<<pick[s], f[s \ {pick[s]}]>>]
           N == {n \in Nat : \E f \in [P(n) -> V] : \A s \in P(n) : f[s] = Value(f, s)}
<1>1. \A s \in SUBSET S : IsFiniteSet(s) /\ Cardinality(s) \in Nat
  BY FS_Subset, FS_CardinalityType
<1>2. 0 \in N
  <2>1. P(0) = {{}}
    BY <1>1, FS_EmptySet
  <2>2. /\ [s \in P(0) |-> base] \in [P(0) -> V]
        /\ \A s \in P(0) :
              [t \in P(0) |-> base][s] = Value([t \in P(0) |-> base], s)
    BY <2>1
  <2> QED
    BY <2>2
<1>3. \A n \in N : n + 1 \in N
  <2> SUFFICES ASSUME NEW n \in Nat, NEW f \in [P(n) -> V], \A s \in P(n) : f[s] = Value(f, s)
               PROVE  n + 1 \in N
    OBVIOUS
  <2> DEFINE g == [s \in P(n + 1) |-> Value(f, s)]
  <2>1. \A s \in P(n + 1) : s # {} => pick[s] \in S /\ s \ {pick[s]} \in P(n)
    BY <1>1, FS_RemoveElement
  <2>2. \A s \in P(n) : s \in P(n + 1) /\ g[s] = f[s]
    BY <1>1
  <2>3. g \in [P(n + 1) -> V]
    BY <2>1
  <2>4. \A s \in P(n + 1) : g[s] = Value(g, s)
    BY <2>1, <2>2
  <2>5. \E h \in [P(n + 1) -> V] : \A s \in P(n + 1) : h[s] = Value(h, s)
    <3> HIDE DEF g, P, Value
    <3> QED
      BY <2>3, <2>4
  <2> HIDE DEF P, Value
  <2> QED
    BY <2>5
<1>4. N = Nat
  <2> HIDE DEF N
  <2>1. N \in SUBSET Nat
    BY DEF N
  <2> QED
    BY <1>2, <1>3, <2>1, SetOfNaturals
<1>5. P(Cardinality(S)) = SUBSET S
  BY <1>1, FS_Subset
<1>6. Cardinality(S) \in N
  BY <1>1, <1>4
<1>7. PICK f \in [SUBSET S -> V] : \A s \in SUBSET S : f[s] = Value(f, s)
  BY <1>5, <1>6
<1> QED
  BY <1>7 DEF IsFold

\* Every finite set of numbers has a maximum ...
LEMMA MaxExists ==
    ASSUME NEW T \in SUBSET Int, IsFiniteSet(T), T # {}
    PROVE  Max(T) \in T /\ \A x \in T : x <= Max(T)
PROOF
<1> DEFINE G == {s \in SUBSET T : s = {} \/ \E m \in s : \A x \in s : x <= m}
<1>1. {} \in G
  OBVIOUS
<1>2. ASSUME NEW s \in SUBSET T, s # {}
      PROVE  \E x \in s : s \ {x} \in G => s \in G
  <2>1. PICK x \in s : TRUE
    BY <1>2
  <2>2. ASSUME s \ {x} = {}
        PROVE  s \in G
    <3>1. \A y \in s : y <= x
      BY <2>1, <2>2
    <3> QED
      BY <2>1, <3>1
  <2>3. ASSUME NEW m \in s \ {x}, \A y \in s \ {x} : y <= m
        PROVE  s \in G
    <3>1. CASE x <= m
      BY <2>3, <3>1
    <3>2. CASE ~(x <= m)
      <4>1. \A y \in s : y <= x
        BY <2>1, <2>3, <3>2
      <4> QED
        BY <2>1, <4>1
    <3> QED
      BY <3>1, <3>2
  <2> QED
    BY <2>1, <2>2, <2>3
<1> HIDE DEF G
<1>3. G \in SUBSET (SUBSET T)
  BY DEF G
<1>4. \A s \in SUBSET T : s # {} => \E x \in s : s \ {x} \in G => s \in G
  BY <1>2
<1>5. G = SUBSET T
  BY <1>1, <1>3, <1>4, SetOfSubsets
<1>6. T \in G
  BY <1>5
<1>7. \E m \in T : \A x \in T : m >= x
  BY <1>6 DEF G
<1>8. Max(T) \in T /\ \A x \in T : Max(T) >= x
  BY <1>7 DEF Max
<1> QED
  BY <1>8

\* ... and a minimum.
LEMMA MinExists ==
    ASSUME NEW T \in SUBSET Nat, T # {}
    PROVE  Min(T) \in T /\ \A x \in T : Min(T) <= x
PROOF
<1>1. PICK d \in T : \A e \in T : ~ (<<e, d>> \in OpToRel(<, Nat))
  BY NatLessThanWellFounded, WFMin
<1>2. \A e \in T : ~ (e < d)
  BY <1>1 DEF OpToRel
<1>3. \E m \in T : \A x \in T : m <= x
  BY <1>2
<1> QED
  BY <1>3 DEF Min

\* The sums of the weights of the subsets of S.
IsSum(f, S) ==
    f = [s \in SUBSET S |-> IF s = {} THEN 0
           ELSE LET x == CHOOSE y \in s : TRUE IN Weight(x) + f[s \ {x}]]

LEMMA PositionsAreFinite ==
    ASSUME NEW S \in SUBSET Positions
    PROVE  IsFiniteSet(S) /\ \A j \in S : Weight(j) \in Nat
PROOF
<1>1. IsFiniteSet(Positions)
  BY FrequencyAssumption, FS_Interval DEF Positions
<1>2. \A j \in S : Weight(j) \in Nat
  BY FrequencyAssumption DEF Weight, Positions
<1> QED
  BY <1>1, <1>2, FS_Subset

LEMMA SumExists ==
    ASSUME NEW S \in SUBSET Positions
    PROVE  \E f \in [SUBSET S -> Nat] : IsSum(f, S) /\ MapThenSumSet(Weight, S) = f[S]
PROOF
<1> DEFINE pick == [s \in SUBSET S |-> CHOOSE x \in s : TRUE]
           step == [a \in S \X Nat |-> Weight(a[1]) + a[2]]
           iter == CHOOSE f : IsSum(f, S)
<1>1. IsFiniteSet(S) /\ \A j \in S : Weight(j) \in Nat
  BY PositionsAreFinite
<1>3. step \in [S \X Nat -> Nat]
  BY <1>1
<1>4. \A s \in SUBSET S : s # {} => pick[s] \in s
  OBVIOUS
<1>5. PICK g : IsFold(g, S, Nat, 0, pick, step)
  <2> HIDE DEF pick, step
  <2> QED
    BY <1>1, <1>3, <1>4, FoldExists
<1>6. IsSum(g, S)
  <2>1. g = [s \in SUBSET S |-> g[s]]
    BY <1>5 DEF IsFold
  <2>2. \A s \in SUBSET S : g[s] = IF s = {} THEN 0
                          ELSE LET x == CHOOSE y \in s : TRUE IN Weight(x) + g[s \ {x}]
    <3> SUFFICES ASSUME NEW s \in SUBSET S
                 PROVE  g[s] = IF s = {} THEN 0
                          ELSE LET x == CHOOSE y \in s : TRUE IN Weight(x) + g[s \ {x}]
      OBVIOUS
    <3>1. CASE s = {}
      BY <1>5, <3>1 DEF IsFold
    <3>2. CASE s # {}
      <4> DEFINE x == CHOOSE y \in s : TRUE
      <4>1. pick[s] = x /\ x \in s /\ s \ {x} \in SUBSET S
        BY <3>2
      <4> HIDE DEF x, pick
      <4>2. g[s \ {x}] \in Nat
        BY <1>5, <4>1 DEF IsFold
      <4>3. step[<<x, g[s \ {x}]>>] = Weight(x) + g[s \ {x}]
        BY <4>1, <4>2
      <4>4. g[s] = step[<<x, g[s \ {x}]>>]
        BY <1>5, <3>2, <4>1 DEF IsFold
      <4> QED
        BY <3>2, <4>3, <4>4 DEF x
    <3> QED
      BY <3>1, <3>2
  <2> QED
    BY <2>1, <2>2 DEF IsSum
<1>7. IsSum(iter, S)
  BY <1>6
<1>8. {s \in SUBSET S : iter[s] \in Nat} = SUBSET S
  <2> DEFINE G == {s \in SUBSET S : iter[s] \in Nat}
  <2> HIDE DEF iter
  <2>1. {} \in G
    BY <1>7 DEF IsSum
  <2>2. ASSUME NEW s \in SUBSET S, s # {}
        PROVE  \E x \in s : s \ {x} \in G => s \in G
    <3> DEFINE x == CHOOSE y \in s : TRUE
    <3>1. x \in s
      BY <2>2
    <3>2. iter[s] = Weight(x) + iter[s \ {x}]
      BY <1>7, <2>2 DEF IsSum
    <3> HIDE DEF x
    <3>3. Weight(x) \in Nat
      BY <1>1, <3>1
    <3>4. s \ {x} \in G => s \in G
      BY <3>2, <3>3
    <3> QED
      BY <3>1, <3>4
  <2> HIDE DEF G
  <2>3. G \in SUBSET (SUBSET S)
    BY DEF G
  <2>4. \A s \in SUBSET S : s # {} => \E x \in s : s \ {x} \in G => s \in G
    BY <2>2
  <2>5. G = SUBSET S
    BY <1>1, <2>1, <2>3, <2>4, SetOfSubsets
  <2> QED
    BY <2>5 DEF G
<1>9. MapThenSumSet(Weight, S) = iter[S]
  BY DEF MapThenSumSet, MapThenFoldSet, IsSum
<1> HIDE DEF iter
<1>10. iter \in [SUBSET S -> Nat]
  BY <1>7, <1>8 DEF IsSum
<1> QED
  BY <1>7, <1>9, <1>10

\* The sum of a set does not depend on the set around it.
LEMMA SumIsUnique ==
    ASSUME NEW S \in SUBSET Positions, NEW A \in SUBSET S,
           NEW f, IsSum(f, S), NEW g, IsSum(g, A)
    PROVE  f[A] = g[A]
PROOF
<1> DEFINE G == {s \in SUBSET A : f[s] = g[s]}
<1>1. {} \in G
  BY DEF IsSum
<1>2. ASSUME NEW s \in SUBSET A, s # {}
      PROVE  \E x \in s : s \ {x} \in G => s \in G
  <2> DEFINE x == CHOOSE y \in s : TRUE
  <2>1. x \in s /\ s \in SUBSET S
    BY <1>2
  <2>2. f[s] = Weight(x) + f[s \ {x}] /\ g[s] = Weight(x) + g[s \ {x}]
    BY <1>2, <2>1 DEF IsSum
  <2> HIDE DEF x
  <2> QED
    BY <2>1, <2>2
<1> HIDE DEF G
<1>3. G \in SUBSET (SUBSET A) /\ IsFiniteSet(A)
  BY PositionsAreFinite DEF G
<1>4. \A s \in SUBSET A : s # {} => \E x \in s : s \ {x} \in G => s \in G
  BY <1>2
<1>5. G = SUBSET A
  BY <1>1, <1>3, <1>4, SetOfSubsets
<1> QED
  BY <1>5 DEF G

\* Nor on the order in which its elements are taken.
LEMMA SumWithout ==
    ASSUME NEW S \in SUBSET Positions, NEW f \in [SUBSET S -> Nat], IsSum(f, S),
           NEW s \in SUBSET S, NEW x \in s
    PROVE  f[s] = Weight(x) + f[s \ {x}]
PROOF
<1> DEFINE N == {n \in Nat : \A t \in SUBSET S : Cardinality(t) = n =>
                               \A y \in t : f[t] = Weight(y) + f[t \ {y}]}
<1>1. \A t \in SUBSET S : IsFiniteSet(t) /\ Cardinality(t) \in Nat
  BY PositionsAreFinite, FS_CardinalityType
<1>2. 0 \in N
  BY <1>1, FS_EmptySet
<1>3. \A n \in N : n + 1 \in N
  <2> SUFFICES ASSUME NEW n \in Nat,
                      \A t \in SUBSET S : Cardinality(t) = n =>
                         \A y \in t : f[t] = Weight(y) + f[t \ {y}],
                      NEW t \in SUBSET S, Cardinality(t) = n + 1, NEW y \in t
               PROVE  f[t] = Weight(y) + f[t \ {y}]
    OBVIOUS
  <2> HIDE DEF N
  <2> DEFINE z == CHOOSE w \in t : TRUE
  <2>1. z \in t /\ f[t] = Weight(z) + f[t \ {z}]
    BY DEF IsSum
  <2> HIDE DEF z
  <2>2. CASE y = z
    BY <2>1, <2>2
  <2>3. CASE y # z
    <3>1. Cardinality(t \ {y}) = n /\ Cardinality(t \ {z}) = n
      BY <1>1, <2>1, FS_RemoveElement
    <3>2. f[t \ {z}] = Weight(y) + f[(t \ {z}) \ {y}]
      BY <2>3, <3>1
    <3>3. f[t \ {y}] = Weight(z) + f[(t \ {y}) \ {z}]
      BY <2>1, <2>3, <3>1
    <3>4. (t \ {z}) \ {y} = (t \ {y}) \ {z}
      OBVIOUS
    <3>5. PICK a, b, c : a = f[(t \ {y}) \ {z}] /\ b = Weight(y) /\ c = Weight(z)
      OBVIOUS
    <3>6. a \in Nat /\ b \in Nat /\ c \in Nat
      <4>1. (t \ {y}) \ {z} \in SUBSET S /\ y \in S /\ z \in S
        BY <2>1
      <4> QED
        BY <3>5, <4>1, PositionsAreFinite
    <3>7. f[t] = c + (b + a) /\ f[t \ {y}] = c + a
      BY <2>1, <3>2, <3>3, <3>4, <3>5
    <3> QED
      BY <3>5, <3>6, <3>7
  <2> QED
    BY <2>2, <2>3
<1>4. N = Nat
  <2>1. N \in SUBSET Nat
    OBVIOUS
  <2> HIDE DEF N
  <2> QED
    BY <1>2, <1>3, <2>1, SetOfNaturals
<1> QED
  BY <1>1, <1>4

\* Fewer positions weigh less.
LEMMA PartWeighsLess ==
    ASSUME NEW S \in SUBSET Positions, NEW A \in SUBSET S, A # S
    PROVE  MapThenSumSet(Weight, A) < MapThenSumSet(Weight, S)
PROOF
<1>1. PICK f \in [SUBSET S -> Nat] : IsSum(f, S) /\ MapThenSumSet(Weight, S) = f[S]
  BY SumExists
<1>2. PICK g \in [SUBSET A -> Nat] : IsSum(g, A) /\ MapThenSumSet(Weight, A) = g[A]
  BY SumExists
<1>3. f[A] = g[A]
  BY <1>1, <1>2, SumIsUnique
<1>4. \A s \in SUBSET S : \A x \in s : f[s] = Weight(x) + f[s \ {x}]
  BY <1>1, SumWithout
<1> DEFINE G == {s \in SUBSET S : \A a \in SUBSET s : a = s \/ f[a] < f[s]}
<1>5. {} \in G
  OBVIOUS
<1>6. ASSUME NEW s \in SUBSET S, NEW x \in s, s \ {x} \in G
      PROVE  s \in G
  <2> SUFFICES ASSUME NEW a \in SUBSET s, a # s
               PROVE  f[a] < f[s]
    OBVIOUS
  <2>1. \A b \in SUBSET (s \ {x}) : b = s \ {x} \/ f[b] < f[s \ {x}]
    BY <1>6
  <2> HIDE DEF G
  <2>2. PICK rest, part, w : rest = s \ {x} /\ part = a \ {x} /\ w = Weight(x)
    OBVIOUS
  <2>3. w \in Nat \ {0}
    BY <2>2, FrequencyAssumption DEF Weight, Positions
  <2>4. a \in SUBSET S /\ rest \in SUBSET S /\ part \in SUBSET S
    BY <2>2
  <2>5. f[a] \in Nat /\ f[rest] \in Nat /\ f[part] \in Nat
    BY <2>4
  <2>6. f[s] = w + f[rest]
    BY <1>4, <2>2
  <2>7. CASE x \notin a
    <3>1. a = rest \/ f[a] < f[rest]
      BY <2>1, <2>2, <2>7
    <3> QED
      BY <2>3, <2>5, <2>6, <3>1
  <2>8. CASE x \in a
    <3>1. f[a] = w + f[part]
      <4>1. \A y \in a : f[a] = Weight(y) + f[a \ {y}]
        BY <1>4, <2>4
      <4> QED
        BY <2>2, <2>8, <4>1
    <3>2. f[part] < f[rest]
      <4>1. a = part \cup {x} /\ s = rest \cup {x} /\ part \in SUBSET (s \ {x})
        BY <2>2, <2>8
      <4> QED
        BY <2>1, <2>2, <4>1
    <3> QED
      BY <2>3, <2>5, <2>6, <3>1, <3>2
  <2> QED
    BY <2>7, <2>8
<1>7. G \in SUBSET (SUBSET S) /\ IsFiniteSet(S)
  BY PositionsAreFinite
<1> HIDE DEF G
<1>8. \A s \in SUBSET S : s # {} => \E x \in s : s \ {x} \in G => s \in G
  BY <1>6
<1>9. G = SUBSET S
  BY <1>5, <1>7, <1>8, SetOfSubsets
<1>10. \A a \in SUBSET S : a = S \/ f[a] < f[S]
  <2>1. S \in G
    BY <1>9
  <2> QED
    BY <2>1 DEF G
<1> QED
  BY <1>1, <1>2, <1>3, <1>10

LEMMA SimilarityType ==
    ASSUME NEW entry, NEW data
    PROVE  Similarity(entry, data) \in Nat
PROOF
<1> DEFINE S == {j \in Significant : entry[j] = data[j]}
<1>1. S \in SUBSET Positions
  BY DEF Significant
<1>2. Similarity(entry, data) = MapThenSumSet(Weight, S)
  BY DEF Similarity
<1> HIDE DEF S
<1>3. \E f \in [SUBSET S -> Nat] : MapThenSumSet(Weight, S) = f[S]
  BY <1>1, SumExists
<1>4. S \in SUBSET S
  OBVIOUS
<1> QED
  BY <1>2, <1>3, <1>4

\* The increasing enumeration of a finite set of numbers exists.
LEMMA InOrderProperties ==
    ASSUME NEW S \in SUBSET Nat, IsFiniteSet(S)
    PROVE  /\ InOrder(S) \in [1 .. Cardinality(S) -> S]
           /\ \A i, j \in 1 .. Cardinality(S) : i < j => InOrder(S)[i] < InOrder(S)[j]
           /\ \A x \in S : \E i \in 1 .. Cardinality(S) : InOrder(S)[i] = x
PROOF
<1> DEFINE n == Cardinality(S)
           UpTo(x) == {y \in S : y <= x}
           rank == [x \in S |-> Cardinality(UpTo(x))]
           from == [i \in 1 .. n |-> CHOOSE x \in S : rank[x] = i]
           order == InOrder(S)
<1>1. n \in Nat /\ \A x \in S : x \in Nat
  BY FS_CardinalityType
<1>2. \A x \in S : IsFiniteSet(UpTo(x)) /\ rank[x] \in Nat /\ rank[x] <= n /\ rank[x] # 0
  <2> SUFFICES ASSUME NEW x \in S
               PROVE  IsFiniteSet(UpTo(x)) /\ rank[x] \in Nat /\ rank[x] <= n /\ rank[x] # 0
    OBVIOUS
  <2>1. UpTo(x) \in SUBSET S /\ x \in UpTo(x)
    OBVIOUS
  <2>2. IsFiniteSet(UpTo(x)) /\ Cardinality(UpTo(x)) <= n
    BY <2>1, FS_Subset
  <2> HIDE DEF UpTo
  <2>3. Cardinality(UpTo(x)) \in Nat /\ Cardinality(UpTo(x)) # 0
    BY <2>1, <2>2, FS_CardinalityType, FS_EmptySet
  <2> QED
    BY <2>2, <2>3
<1>3. ASSUME NEW x \in S, NEW y \in S, x < y
      PROVE  rank[x] < rank[y]
  <2>0. x \in Nat /\ y \in Nat
    BY <1>1
  <2>9. ~(y <= x) /\ y <= y /\ \A z \in S : z <= x => z <= y
    BY <1>1, <1>3, <2>0
  <2>1. UpTo(x) \in SUBSET UpTo(y) /\ y \in UpTo(y) /\ y \notin UpTo(x)
    BY <2>9
  <2>2. IsFiniteSet(UpTo(y)) /\ rank[x] \in Nat /\ rank[y] \in Nat
    BY <1>2
  <2> HIDE DEF UpTo
  <2>3. /\ Cardinality(UpTo(x)) <= Cardinality(UpTo(y))
        /\ Cardinality(UpTo(y)) # Cardinality(UpTo(x))
    BY <2>1, <2>2, FS_Subset
  <2> QED
    BY <2>2, <2>3
<1>4. rank \in Injection(S, 1 .. n)
  <2>1. rank \in [S -> 1 .. n]
    <3> HIDE DEF n
    <3> QED
      BY <1>1, <1>2
  <2>2. \A x, y \in S : rank[x] = rank[y] => x = y
    BY <1>2, <1>3
  <2> HIDE DEF rank, n
  <2> QED
    BY <2>1, <2>2 DEF Injection, IsInjective
<1>5. rank \in Surjection(S, 1 .. n)
  <2>1. IsFiniteSet(1 .. n) /\ Cardinality(1 .. n) = n
    BY <1>1, FS_Interval
  <2> HIDE DEF rank
  <2> QED
    BY <1>4, <2>1, FS_Injection
<1>6. \A i \in 1 .. n : from[i] \in S /\ rank[from[i]] = i
  <2> HIDE DEF rank, n
  <2> QED
    BY <1>5 DEF Surjection
<1>7. from \in [1 .. n -> S]
  BY <1>6
<1>8. \A i, j \in 1 .. n : i < j => from[i] < from[j]
  <2> SUFFICES ASSUME NEW i \in 1 .. n, NEW j \in 1 .. n, i < j, ~(from[i] < from[j])
               PROVE  FALSE
    OBVIOUS
  <2>1. from[i] \in S /\ from[j] \in S /\ rank[from[i]] = i /\ rank[from[j]] = j
    BY <1>6
  <2> HIDE DEF from, rank, n
  <2>2. from[j] \in Nat /\ from[i] \in Nat
    BY <1>1, <2>1
  <2>3. from[j] < from[i] \/ from[j] = from[i]
    BY <2>2
  <2>4. ~(rank[from[j]] < rank[from[i]]) /\ rank[from[j]] # rank[from[i]]
    BY <1>1, <2>1
  <2> QED
    BY <1>3, <2>1, <2>3, <2>4
<1>9. order \in [1 .. n -> S] /\ \A i, j \in 1 .. n : i < j => order[i] < order[j]
  <2> HIDE DEF from, n
  <2>1. \E k \in [1 .. n -> S] : \A i, j \in DOMAIN k : i < j => k[i] < k[j]
    BY <1>7, <1>8
  <2>2. order \in [1 .. n -> S] /\ \A i, j \in DOMAIN order : i < j => order[i] < order[j]
    BY <2>1 DEF InOrder, n
  <2> QED
    BY <2>2
<1>10. \A x \in S : \E i \in 1 .. n : order[i] = x
  <2> HIDE DEF order, n
  <2>1. \A i, j \in 1 .. n : order[i] = order[j] => i = j
    <3> SUFFICES ASSUME NEW i \in 1 .. n, NEW j \in 1 .. n, order[i] = order[j], i # j
                 PROVE  FALSE
      OBVIOUS
    <3>1. order[i] \in S /\ order[j] \in S /\ (i < j \/ j < i)
      BY <1>1, <1>9
    <3>2. order[i] \in Nat
      BY <1>1, <3>1
    <3> QED
      BY <1>9, <3>1, <3>2
  <2>2. order \in Injection(1 .. n, S)
    BY <1>9, <2>1 DEF Injection, IsInjective
  <2>3. Cardinality(1 .. n) = Cardinality(S)
    BY <1>1, FS_Interval DEF n
  <2>4. order \in Surjection(1 .. n, S)
    BY <2>2, <2>3, FS_Injection
  <2> QED
    BY <2>4 DEF Surjection
<1> QED
  BY <1>9, <1>10 DEF order, n

----------------------------------------------------------------------------
(* The precompression table.                                               *)

LEMMA FunctionIsSeq ==
    ASSUME NEW S, NEW n \in Nat, NEW f \in [1 .. n -> S]
    PROVE  f \in Seq(S) /\ Len(f) = n /\ DOMAIN f = 1 .. n
BY SeqDef, LenProperties

\* The index that findPrecompressionEntry (cache.cpp:926) returns is one of the
\* table, or -1.
LEMMA FindType ==
    ASSUME NEW S, NEW table \in Seq(S), NEW data
    PROVE  findPrecompressionEntry(table, data) \in -1 .. Len(table) - 1
PROOF
<1> DEFINE value == [i \in DOMAIN table |-> Similarity(table[i], data)]
           Values == {Similarity(table[i], data) : i \in DOMAIN table}
           best == Max(Values)
           First == {i \in DOMAIN table : Similarity(table[i], data) = best}
<1>1. Len(table) \in Nat /\ DOMAIN table = 1 .. Len(table)
  BY LenProperties
<1>2. CASE table = << >>
  BY <1>1, <1>2 DEF findPrecompressionEntry
<1>3. CASE table # << >>
  <2>1. Values \in SUBSET Int /\ Values # {}
    <3>1. 1 \in DOMAIN table
      BY <1>1, <1>3, EmptySeq
    <3> QED
      BY <3>1, SimilarityType
  <2>2. IsFiniteSet(Values)
    <3>1. value \in Surjection(DOMAIN table, Values)
      BY DEF Surjection
    <3>2. IsFiniteSet(DOMAIN table)
      BY <1>1, FS_Interval
    <3> QED
      BY <3>1, <3>2, FS_Surjection
  <2>3. best \in Values
    <3> HIDE DEF Values
    <3> QED
      BY <2>1, <2>2, MaxExists
  <2>4. First \in SUBSET Nat /\ First # {}
    <3>1. \E i \in DOMAIN table : Similarity(table[i], data) = best
      BY <2>3
    <3>2. \A i \in DOMAIN table : i \in Nat
      BY <1>1
    <3> HIDE DEF best
    <3> QED
      BY <3>1, <3>2
  <2>5. Min(First) \in First
    <3> HIDE DEF First
    <3> QED
      BY <2>4, MinExists
  <2>6. Min(First) \in 1 .. Len(table)
    BY <1>1, <2>5
  <2>7. findPrecompressionEntry(table, data) \in {-1, Min(First) - 1}
    BY DEF findPrecompressionEntry
  <2> QED
    BY <1>1, <2>6, <2>7
<1> QED
  BY <1>2, <1>3

\* The leading entries of a sequence.
LEMMA LeadingProperties ==
    ASSUME NEW S, NEW seq \in Seq(S)
    PROVE  LET n == IF Entries <= Len(seq) THEN Entries ELSE Len(seq)
           IN  /\ Leading(seq) \in Seq(S) /\ Len(Leading(seq)) = n
               /\ DOMAIN Leading(seq) = 1 .. n
               /\ \A i \in 1 .. n : Leading(seq)[i] = seq[i]
PROOF
<1> DEFINE n == IF Entries <= Len(seq) THEN Entries ELSE Len(seq)
           m == Min({Entries, Len(seq)})
<1>1. Len(seq) \in Nat /\ Entries \in Nat \ {0} /\ DOMAIN seq = 1 .. Len(seq)
  BY LenProperties, FrequencyAssumption
<1>2. m = n
  <2>1. m \in {Entries, Len(seq)} /\ \A x \in {Entries, Len(seq)} : m <= x
    <3>1. {Entries, Len(seq)} \in SUBSET Nat /\ {Entries, Len(seq)} # {}
      BY <1>1
    <3> QED
      BY <3>1, MinExists
  <2> HIDE DEF m
  <2>2. m <= Entries /\ m <= Len(seq) /\ (m = Entries \/ m = Len(seq))
    BY <2>1
  <2> QED
    BY <1>1, <2>2
<1>3. n \in Nat /\ n <= Len(seq)
  BY <1>1
<1> HIDE DEF n
<1>4. \A i \in 1 .. n : seq[i] \in S
  BY <1>1, <1>3, ElementOfSeq
<1>5. /\ SubSeq(seq, 1, n) \in Seq(S)
      /\ Len(SubSeq(seq, 1, n)) = IF 1 <= n THEN n - 1 + 1 ELSE 0
      /\ \A i \in 1 .. n - 1 + 1 : SubSeq(seq, 1, n)[i] = seq[1 + i - 1]
  BY <1>3, <1>4, SubSeqProperties
<1>6. Leading(seq) = SubSeq(seq, 1, n)
  BY <1>2 DEF Leading
<1>7. /\ Leading(seq) \in Seq(S) /\ Len(Leading(seq)) = n
      /\ \A i \in 1 .. n : Leading(seq)[i] = seq[i]
  BY <1>3, <1>5, <1>6
<1>8. DOMAIN Leading(seq) = 1 .. n
  BY <1>7, LenProperties
<1> QED
  BY <1>7, <1>8 DEF n

Distinct(seq) == \A i, j \in DOMAIN seq : seq[i] = seq[j] => i = j

\* An update aborts only if two new entries are equal.
LEMMA DistinctIsNotDuplicated ==
    ASSUME NEW old, NEW new, Distinct(new)
    PROVE  ~IsDuplicated(old, new)
PROOF
<1> SUFFICES ASSUME NEW i \in DOMAIN old
             PROVE  ~(Cardinality({k \in DOMAIN new : new[k] = old[i]}) > 1)
  BY DEF IsDuplicated
<1> DEFINE K == {k \in DOMAIN new : new[k] = old[i]}
<1>1. K = {} \/ \E k : K = {k}
  BY DEF Distinct
<1>2. Cardinality(K) \in {0, 1}
  <2> HIDE DEF K
  <2> QED
    BY <1>1, FS_EmptySet, FS_Singleton
<1> QED
  BY <1>2

----------------------------------------------------------------------------
(* The infinite frequency table.                                           *)

\* A frequency table has one entry for each data it holds.
OnePerData(table) ==
    \A i, j \in DOMAIN table : table[i].data = table[j].data => i = j

LEMMA CountedEntry ==
    ASSUME NEW entry \in Entry
    PROVE  /\ [entry EXCEPT !.freq = @ + 1] \in Entry
           /\ [entry EXCEPT !.freq = @ + 1].data = entry.data
PROOF
<1>1. entry.freq + 1 \in Nat
  BY DEF Entry
<1> QED
  BY <1>1 DEF Entry

LEMMA AgedEntry ==
    ASSUME NEW entry \in Entry
    PROVE  /\ Age(entry) \in Entry
           /\ Age(entry).data = entry.data
           /\ Age(entry).freq = entry.freq
           /\ Age(entry).freqComp = entry.freq
           /\ Age(entry).sameCounter = IF IsUnchanged(entry) THEN entry.sameCounter + 1 ELSE 0
PROOF
<1>1. entry.sameCounter + 1 \in Nat
  BY DEF Entry
<1>2. CASE IsUnchanged(entry)
  BY <1>1, <1>2 DEF Entry, Age, IsUnchanged
<1>3. CASE ~IsUnchanged(entry)
  BY <1>3 DEF Entry, Age
<1> QED
  BY <1>2, <1>3

\* updateFrequencyTable (cache.cpp:321) counts, and adds data once.
LEMMA CountInfiniteProperties ==
    ASSUME NEW table \in Seq(Entry), OnePerData(table), NEW data \in Data
    PROVE  LET after == CountInfinite(table, data)
           IN  after \in Seq(Entry) /\ OnePerData(after)
PROOF
<1> DEFINE n == Len(table)
           new == [data |-> data, freq |-> 1, freqComp |-> 0, sameCounter |-> 0]
           after == CountInfinite(table, data)
<1>1. n \in Nat /\ DOMAIN table = 1 .. n
  BY LenProperties
<1>2. \A i \in 1 .. n : table[i] \in Entry
  BY ElementOfSeq
<1> HIDE DEF n
<1>3. CASE \E i \in DOMAIN table : table[i].data = data
  <2>1. after = [i \in 1 .. n |-> IF table[i].data = data
                                  THEN [table[i] EXCEPT !.freq = @ + 1]
                                  ELSE table[i]]
    BY <1>1, <1>3 DEF CountInfinite
  <2>2. \A i \in 1 .. n : [table[i] EXCEPT !.freq = @ + 1] \in Entry
                          /\ [table[i] EXCEPT !.freq = @ + 1].data = table[i].data
    BY <1>2, CountedEntry
  <2>3. after \in [1 .. n -> Entry] /\ \A i \in 1 .. n : after[i].data = table[i].data
    BY <1>2, <2>1, <2>2
  <2> HIDE DEF after
  <2>4. after \in Seq(Entry) /\ DOMAIN after = 1 .. n
    BY <1>1, <2>3, FunctionIsSeq
  <2>5. OnePerData(after)
    BY <1>1, <2>3, <2>4 DEF OnePerData
  <2> QED
    BY <2>4, <2>5 DEF after
<1>4. CASE ~ \E i \in DOMAIN table : table[i].data = data
  <2>1. after = Append(table, new) /\ new \in Entry /\ new.data = data
    BY <1>4 DEF CountInfinite, Entry
  <2> HIDE DEF after, new
  <2>2. /\ after \in Seq(Entry) /\ Len(after) = n + 1 /\ after[n + 1] = new
        /\ \A i \in 1 .. n : after[i] = table[i]
    BY <1>1, <2>1, AppendProperties DEF n
  <2>3. DOMAIN after = 1 .. n + 1
    BY <2>2, LenProperties
  <2>4. \A i \in 1 .. n : after[i].data # after[n + 1].data
    BY <1>1, <1>4, <2>1, <2>2
  <2>5. \A i \in DOMAIN after : i \in 1 .. n \/ i = n + 1
    BY <1>1, <2>3
  <2>6. OnePerData(after)
    BY <1>1, <2>2, <2>4, <2>5 DEF OnePerData
  <2> QED
    BY <2>2, <2>6 DEF after
<1> QED
  BY <1>3, <1>4

\* std::sort (cache.cpp:539) permutes the entries and orders them by frequency.
LEMMA SortedProperties ==
    ASSUME NEW table \in Seq(Entry), OnePerData(table), NEW t \in Sorted(table)
    PROVE  /\ t \in Seq(Entry) /\ Len(t) = Len(table) /\ OnePerData(t)
           /\ \A i, j \in 1 .. Len(t) : i < j => t[i].freq >= t[j].freq
           /\ \A i \in 1 .. Len(t) : \E j \in 1 .. Len(table) : t[i] = table[j]
           /\ \A j \in 1 .. Len(table) : \E i \in 1 .. Len(t) : t[i] = table[j]
PROOF
<1> DEFINE n == Len(table)
<1>1. n \in Nat /\ DOMAIN table = 1 .. n
  BY LenProperties
<1>2. \A i \in 1 .. n : table[i] \in Entry
  BY ElementOfSeq
<1> HIDE DEF n
<1>3. PICK p \in Bijection(1 .. n, 1 .. n) : t = [i \in 1 .. n |-> table[p[i]]]
  BY <1>1 DEF Sorted
<1>4. /\ p \in [1 .. n -> 1 .. n]
      /\ \A i, j \in 1 .. n : p[i] = p[j] => i = j
      /\ \A j \in 1 .. n : \E i \in 1 .. n : p[i] = j
  BY <1>3 DEF Bijection, Injection, Surjection, IsInjective
<1>5. t \in [1 .. n -> Entry]
  BY <1>2, <1>3, <1>4
<1>6. t \in Seq(Entry) /\ Len(t) = n /\ DOMAIN t = 1 .. n
  BY <1>1, <1>5, FunctionIsSeq
<1>7. \A i, j \in DOMAIN t : i < j => t[i].freq >= t[j].freq
  BY DEF Sorted
<1>8. OnePerData(t)
  BY <1>1, <1>3, <1>4, <1>6 DEF OnePerData
<1> QED
  BY <1>3, <1>4, <1>6, <1>7, <1>8 DEF n

\* The entries that an update keeps, in their order (cache.cpp:563).
LEMMA DecayProperties ==
    ASSUME NEW table \in Seq(Entry), OnePerData(table)
    PROVE  LET kept == Decay(table)
           IN  /\ kept \in Seq(Entry) /\ OnePerData(kept)
               /\ Len(kept) = Cardinality((1 .. Len(table)) \ Erased(table))
               /\ (\A i, j \in 1 .. Len(table) : i < j => table[i].freq >= table[j].freq)
                    => \A i, j \in 1 .. Len(kept) : i < j => kept[i].freq >= kept[j].freq
               /\ \A i \in 1 .. Len(kept) : \E j \in 1 .. Len(table) : kept[i] = Age(table[j])
               /\ \A j \in 1 .. Len(table) \ Erased(table) :
                     \E i \in 1 .. Len(kept) : kept[i] = Age(table[j])
PROOF
<1> DEFINE n == Len(table)
           S == (1 .. n) \ Erased(table)
           order == InOrder(S)
           m == Cardinality(S)
           kept == Decay(table)
<1>1. n \in Nat /\ DOMAIN table = 1 .. n
  BY LenProperties
<1>2. \A i \in 1 .. n : table[i] \in Entry
  BY ElementOfSeq
<1>3. \A i \in 1 .. n : /\ Age(table[i]) \in Entry
                        /\ Age(table[i]).data = table[i].data
                        /\ Age(table[i]).freq = table[i].freq
  BY <1>2, AgedEntry
<1>4. S \in SUBSET Nat /\ S \in SUBSET (1 .. n) /\ IsFiniteSet(S) /\ m \in Nat
  <2>1. S \in SUBSET Nat /\ S \in SUBSET (1 .. n)
    BY <1>1
  <2>2. IsFiniteSet(1 .. n)
    BY <1>1, FS_Interval
  <2>3. IsFiniteSet(S)
    BY <2>1, <2>2, FS_Subset
  <2> QED
    BY <2>1, <2>3, FS_CardinalityType
<1>5. /\ order \in [1 .. m -> S]
      /\ \A i, j \in 1 .. m : i < j => order[i] < order[j]
      /\ \A x \in S : \E i \in 1 .. m : order[i] = x
  <2> HIDE DEF S
  <2> QED
    BY <1>4, InOrderProperties
<1>6. kept = [i \in DOMAIN order |-> Age(table[order[i]])]
  BY <1>1 DEF Decay
<1> HIDE DEF S, order, m, kept, n
<1>7. /\ kept \in [1 .. m -> Entry]
      /\ \A i \in 1 .. m :
            kept[i] = Age(table[order[i]]) /\ order[i] \in 1 .. n /\ order[i] \in S
  BY <1>3, <1>4, <1>5, <1>6
<1>8. kept \in Seq(Entry) /\ Len(kept) = m /\ DOMAIN kept = 1 .. m
  BY <1>4, <1>7, FunctionIsSeq
<1>9. \A i, j \in 1 .. m : order[i] = order[j] => i = j
  <2> SUFFICES ASSUME NEW i \in 1 .. m, NEW j \in 1 .. m, order[i] = order[j], i # j
               PROVE  FALSE
    OBVIOUS
  <2>1. order[i] \in Nat /\ (i < j \/ j < i)
    BY <1>1, <1>4, <1>7
  <2> QED
    BY <1>5, <2>1
<1>10. OnePerData(kept)
  <2> SUFFICES ASSUME NEW i \in 1 .. m, NEW j \in 1 .. m, kept[i].data = kept[j].data
               PROVE  i = j
    BY <1>8 DEF OnePerData
  <2>1. table[order[i]].data = table[order[j]].data
    BY <1>3, <1>7
  <2>2. order[i] = order[j]
    BY <1>1, <1>7, <2>1 DEF OnePerData
  <2> QED
    BY <1>9, <2>2
<1>11. ASSUME \A i, j \in 1 .. n : i < j => table[i].freq >= table[j].freq,
              NEW i \in 1 .. m, NEW j \in 1 .. m, i < j
       PROVE  kept[i].freq >= kept[j].freq
  <2>1. order[i] < order[j]
    BY <1>5, <1>11
  <2> QED
    BY <1>3, <1>7, <1>11, <2>1
<1>12. \A j \in S : \E i \in 1 .. m : kept[i] = Age(table[j])
  BY <1>5, <1>7
<1> QED
  BY <1>7, <1>8, <1>10, <1>11, <1>12 DEF n, m, kept, S

\* An update that erases leaves the entries of a whole precompression table: at
\* the first erased entry, fewer than Len(table) - Entries ones behind it are gone.
LEMMA DecayLeavesEnough ==
    ASSUME NEW table \in Seq(Entry), OnePerData(table), Erased(table) # {}
    PROVE  Len(Decay(table)) >= Entries
PROOF
<1> DEFINE n == Len(table)
           E == Erased(table)
           x == Min(E)
           K == {k \in DOMAIN table : k > x /\ IsStagnant(table[k])}
<1>1. n \in Nat /\ DOMAIN table = 1 .. n /\ Entries \in Nat
  BY LenProperties, FrequencyAssumption
<1>2. E \in SUBSET (1 .. n) /\ E # {}
  BY <1>1 DEF Erased
<1>3. IsFiniteSet(1 .. n) /\ Cardinality(1 .. n) = n
  BY <1>1, FS_Interval
<1>4. x \in E /\ \A y \in E : x <= y
  <2>1. E \in SUBSET Nat
    BY <1>1, <1>2
  <2> HIDE DEF E
  <2> QED
    BY <1>2, <2>1, MinExists
<1>5. Cardinality(K) < n - Entries
  BY <1>4 DEF Erased
<1>6. K \in SUBSET (1 .. n)
  BY <1>1
<1>7. E \in SUBSET (K \cup {x})
  <2> SUFFICES ASSUME NEW y \in E, y # x
               PROVE  y \in K
    OBVIOUS
  <2>1. y \in 1 .. n /\ x \in 1 .. n /\ x <= y /\ IsStagnant(table[y])
    BY <1>2, <1>4 DEF Erased
  <2>2. y > x
    BY <1>1, <2>1
  <2> QED
    BY <1>1, <2>1, <2>2
<1>8. Len(Decay(table)) = Cardinality((1 .. n) \ E)
  BY DecayProperties
<1> HIDE DEF n, E, x, K
<1>9. IsFiniteSet(K) /\ Cardinality(K) \in Nat
  BY <1>3, <1>6, FS_Subset, FS_CardinalityType
<1>10. Cardinality(E) <= Cardinality(K) + 1 /\ Cardinality(E) \in Nat
  <2>1. /\ IsFiniteSet(K \cup {x})
        /\ Cardinality(K \cup {x}) \in {Cardinality(K), Cardinality(K) + 1}
    BY <1>9, FS_AddElement
  <2>2. /\ IsFiniteSet(E) /\ Cardinality(E) <= Cardinality(K \cup {x})
        /\ Cardinality(E) \in Nat
    BY <1>7, <2>1, FS_Subset, FS_CardinalityType
  <2> QED
    BY <1>9, <2>1, <2>2
<1>11. Cardinality((1 .. n) \ E) = n - Cardinality(E)
  <2>1. (1 .. n) \cap E = E
    BY <1>2
  <2> QED
    BY <1>3, <2>1, FS_Difference
<1> QED
  BY <1>1, <1>5, <1>8, <1>9, <1>10, <1>11

----------------------------------------------------------------------------
(* The finite frequency table.                                             *)

\* No two entries are similar.
Dissimilar(seq) ==
    \A i, j \in DOMAIN seq : IsSimilar(seq[i], seq[j]) => i = j

LEMMA SimilarIsEquivalence ==
    ASSUME NEW a, NEW b, NEW c, IsSimilar(a, b)
    PROVE  /\ IsSimilar(a, a) /\ IsSimilar(b, a)
           /\ IsSimilar(a, c) <=> IsSimilar(b, c)
           /\ IsSimilar(c, a) <=> IsSimilar(c, b)
BY DEF IsSimilar

\* The scan of updateFrequencyTable at an index.
Visit(data, scan, i) ==
    IF IsSimilar(scan.lines[i], data)
    THEN [lines |-> Append(RemoveAt(scan.lines, i), data), found |-> TRUE]
    ELSE scan

Scan(lines, found) == [lines |-> lines, found |-> found]

ScanOf(n) == [lines : {l \in Seq(Data) : Len(l) = n}, found : BOOLEAN]

LEMMA VisitType ==
    ASSUME NEW data \in Data, NEW n \in Nat, NEW scan \in ScanOf(n), NEW i \in 1 .. n
    PROVE  Visit(data, scan, i) \in ScanOf(n)
PROOF
<1> DEFINE l == scan.lines
<1>1. l \in Seq(Data) /\ Len(l) = n /\ i \in 1 .. Len(l)
  BY DEF ScanOf
<1> HIDE DEF l
<1>2. RemoveAt(l, i) \in Seq(Data) /\ Len(RemoveAt(l, i)) = n - 1
  BY <1>1, RemoveAtProperties
<1>3. Append(RemoveAt(l, i), data) \in Seq(Data) /\ Len(Append(RemoveAt(l, i), data)) = n
  BY <1>2, AppendProperties
<1> QED
  BY <1>3 DEF Visit, ScanOf, l

\* The scan as a function of the indices visited.
IsScan(f, lines, data) ==
    f = [s \in SUBSET DOMAIN lines |->
           IF s = {} THEN Scan(lines, FALSE)
           ELSE LET x == Max(s)
                IN  Visit(data, f[s \ {x}], x)]

LEMMA ScanExists ==
    ASSUME NEW lines \in Seq(Data), NEW data \in Data
    PROVE  \E f : IsScan(f, lines, data)
PROOF
<1> DEFINE n == Len(lines)
           S == DOMAIN lines
           V == ScanOf(n)
           base == Scan(lines, FALSE)
           pick == [s \in SUBSET S |-> Max(s)]
           step == [a \in S \X V |-> Visit(data, a[2], a[1])]
<1>1. n \in Nat /\ S = 1 .. n
  BY LenProperties
<1>2. IsFiniteSet(S)
  BY <1>1, FS_Interval
<1>3. base \in V
  BY DEF Scan, ScanOf
<1>4. \A s \in SUBSET S : s # {} => pick[s] \in s /\ pick[s] = Max(s)
  <2> SUFFICES ASSUME NEW s \in SUBSET S, s # {}
               PROVE  Max(s) \in s
    OBVIOUS
  <2>1. s \in SUBSET Int
    BY <1>1
  <2>2. IsFiniteSet(s)
    BY <1>2, FS_Subset
  <2> QED
    BY <2>1, <2>2, MaxExists
<1>5. step \in [S \X V -> V]
  BY <1>1, VisitType
<1> HIDE DEF base, pick, step, V, S
<1>6. PICK g : IsFold(g, S, V, base, pick, step)
  <2>1. \A s \in SUBSET S : s # {} => pick[s] \in s
    BY <1>4
  <2> QED
    BY <1>2, <1>3, <1>5, <2>1, FoldExists
<1>7. g = [s \in SUBSET S |-> g[s]]
  BY <1>6 DEF IsFold
<1>8. ASSUME NEW s \in SUBSET S
      PROVE  g[s] = IF s = {} THEN base
                    ELSE LET x == Max(s) IN Visit(data, g[s \ {x}], x)
  <2>1. CASE s = {}
    BY <1>6, <2>1 DEF IsFold
  <2>2. CASE s # {}
    <3> DEFINE x == Max(s)
    <3>1. pick[s] = x /\ x \in S /\ s \ {x} \in SUBSET S
      BY <1>4, <2>2
    <3> HIDE DEF x
    <3>2. g[s \ {x}] \in V
      BY <1>6, <3>1 DEF IsFold
    <3>3. step[<<x, g[s \ {x}]>>] = Visit(data, g[s \ {x}], x)
      BY <3>1, <3>2 DEF step
    <3>4. g[s] = step[<<x, g[s \ {x}]>>]
      BY <1>6, <2>2, <3>1 DEF IsFold
    <3> QED
      BY <2>2, <3>3, <3>4 DEF x
  <2> QED
    BY <2>1, <2>2
<1>9. IsScan(g, lines, data)
  BY <1>7, <1>8 DEF IsScan, S, base
<1> QED
  BY <1>9

\* CountFinite is that scan.
LEMMA CountFiniteScans ==
    ASSUME NEW lines \in Seq(Data), NEW data \in Data
    PROVE  \E f : /\ IsScan(f, lines, data)
                  /\ CountFinite(lines, data) =
                       IF f[DOMAIN lines].found THEN f[DOMAIN lines].lines
                       ELSE Append(IF Len(lines) >= Entries THEN Tail(lines) ELSE lines, data)
PROOF
<1> DEFINE index == [i \in DOMAIN lines |-> i]
           Folds(f) == f = [s \in SUBSET DOMAIN index |->
                               IF s = {} THEN Scan(lines, FALSE)
                               ELSE LET x == Max(s)
                                    IN  Visit(data, f[s \ {x}], index[x])]
           iter == CHOOSE f : Folds(f)
<1>1. ASSUME NEW f
      PROVE  Folds(f) <=> IsScan(f, lines, data)
  <2> DEFINE Value(s, e) == IF s = {} THEN Scan(lines, FALSE)
                            ELSE Visit(data, f[s \ {Max(s)}], e)
  <2>1. DOMAIN index = DOMAIN lines
    OBVIOUS
  <2>2. ASSUME NEW s \in SUBSET DOMAIN lines
        PROVE  Value(s, index[Max(s)]) = Value(s, Max(s))
    <3>1. CASE s = {}
      BY <3>1
    <3>2. CASE s # {}
      <4>1. DOMAIN lines = 1 .. Len(lines) /\ Len(lines) \in Nat
        BY LenProperties
      <4>5. IsFiniteSet(DOMAIN lines) /\ s \in SUBSET Int
        BY <4>1, FS_Interval
      <4>2. IsFiniteSet(s) /\ s \in SUBSET Int
        BY <4>5, FS_Subset
      <4>3. Max(s) \in s
        BY <3>2, <4>2, MaxExists
      <4>4. index[Max(s)] = Max(s)
        BY <4>3
      <4> HIDE DEF index
      <4> QED
        BY <4>4
    <3> QED
      BY <3>1, <3>2
  <2>3. [s \in SUBSET DOMAIN index |-> Value(s, index[Max(s)])]
          = [s \in SUBSET DOMAIN lines |-> Value(s, Max(s))]
    <3> HIDE DEF Value, index
    <3> QED
      BY <2>1, <2>2
  <2> QED
    BY <2>3 DEF IsScan
<1>2. IsScan(iter, lines, data)
  <2>1. \E f : Folds(f)
    BY <1>1, ScanExists
  <2> HIDE DEF Folds
  <2>2. Folds(iter)
    BY <2>1
  <2> QED
    BY <1>1, <2>2
<1>3. FoldLeftDomain(LAMBDA scan, i : Visit(data, scan, i), Scan(lines, FALSE), lines)
        = iter[DOMAIN index]
  BY DEF FoldLeftDomain, FoldLeft, MapThenFoldSet
<1>4. CountFinite(lines, data) =
         IF iter[DOMAIN index].found THEN iter[DOMAIN index].lines
         ELSE Append(IF Len(lines) >= Entries THEN Tail(lines) ELSE lines, data)
  <2> HIDE DEF iter, index
  <2> QED
    BY <1>3 DEF CountFinite, Visit, Scan
<1>5. DOMAIN index = DOMAIN lines
  OBVIOUS
<1> HIDE DEF iter
<1> QED
  BY <1>2, <1>4, <1>5

LEMMA ScanStep ==
    ASSUME NEW lines \in Seq(Data), NEW data \in Data, NEW f, IsScan(f, lines, data)
    PROVE  /\ f[1 .. 0] = Scan(lines, FALSE)
           /\ \A k \in 0 .. Len(lines) - 1 :
                 f[1 .. k + 1] = Visit(data, f[1 .. k], k + 1)
PROOF
<1>1. Len(lines) \in Nat /\ DOMAIN lines = 1 .. Len(lines)
  BY LenProperties
<1>2. f[1 .. 0] = Scan(lines, FALSE)
  BY DEF IsScan
<1>3. ASSUME NEW k \in 0 .. Len(lines) - 1
      PROVE  f[1 .. k + 1] = Visit(data, f[1 .. k], k + 1)
  <2> DEFINE s == 1 .. k + 1
  <2>1. s \in SUBSET DOMAIN lines /\ s # {} /\ s \in SUBSET Int /\ k + 1 \in s
    BY <1>1
  <2>2. IsFiniteSet(s)
    BY <1>1, FS_Interval
  <2>3. Max(s) \in s /\ \A x \in s : x <= Max(s)
    <3> HIDE DEF s
    <3> QED
      BY <2>1, <2>2, MaxExists
  <2>4. Max(s) = k + 1
    <3> DEFINE m == Max(s)
    <3>1. m \in 1 .. k + 1 /\ k + 1 <= m
      BY <2>1, <2>3
    <3> HIDE DEF m
    <3>2. m = k + 1
      BY <1>1, <3>1
    <3> QED
      BY <3>2 DEF m
  <2>5. s \ {k + 1} = 1 .. k
    BY <1>1
  <2>6. f[s] = Visit(data, f[s \ {Max(s)}], Max(s))
    <3> HIDE DEF s
    <3> QED
      BY <2>1 DEF IsScan
  <2> QED
    BY <2>4, <2>5, <2>6
<1> QED
  BY <1>2, <1>3

\* Data that is similar to no entry leaves the scan alone.
LEMMA CountFiniteOfNew ==
    ASSUME NEW lines \in Seq(Data), NEW data \in Data,
           \A i \in DOMAIN lines : ~IsSimilar(lines[i], data)
    PROVE  CountFinite(lines, data)
             = Append(IF Len(lines) >= Entries THEN Tail(lines) ELSE lines, data)
PROOF
<1> DEFINE n == Len(lines)
<1>1. n \in Nat /\ DOMAIN lines = 1 .. n
  BY LenProperties
<1>2. PICK f : /\ IsScan(f, lines, data)
               /\ CountFinite(lines, data) =
                    IF f[DOMAIN lines].found THEN f[DOMAIN lines].lines
                    ELSE Append(IF Len(lines) >= Entries THEN Tail(lines) ELSE lines, data)
  BY CountFiniteScans
<1> DEFINE G == {k \in Nat : k <= n => f[1 .. k] = Scan(lines, FALSE)}
<1>3. /\ f[1 .. 0] = Scan(lines, FALSE)
      /\ \A k \in 0 .. n - 1 : f[1 .. k + 1] = Visit(data, f[1 .. k], k + 1)
  BY <1>2, ScanStep
<1> HIDE DEF n
<1>4. ASSUME NEW k \in Nat, k + 1 <= n
      PROVE  Visit(data, Scan(lines, FALSE), k + 1) = Scan(lines, FALSE)
  BY <1>1, <1>4 DEF Visit, Scan
<1>5. \A k \in G : k + 1 \in G
  <2>1. ASSUME NEW k \in G, k + 1 <= n
        PROVE  f[1 .. k + 1] = Scan(lines, FALSE)
    <3>1. k \in Nat /\ (k <= n => f[1 .. k] = Scan(lines, FALSE))
      OBVIOUS
    <3>2. k <= n /\ k \in 0 .. n - 1
      BY <1>1, <2>1, <3>1
    <3> QED
      BY <1>3, <1>4, <2>1, <3>1, <3>2
  <2>2. \A k \in G : k \in Nat /\ k + 1 \in Nat
    OBVIOUS
  <2> QED
    BY <2>1, <2>2
<1>6. 0 \in G
  BY <1>3
<1>7. n \in G
  <2>1. G \in SUBSET Nat
    OBVIOUS
  <2> HIDE DEF G
  <2>2. G = Nat
    BY <1>5, <1>6, <2>1, SetOfNaturals
  <2> QED
    BY <1>1, <2>2
<1>8. f[DOMAIN lines] = Scan(lines, FALSE)
  <2>1. n <= n
    BY <1>1
  <2> QED
    BY <1>1, <1>7, <2>1
<1> QED
  BY <1>2, <1>8 DEF Scan

\* Similar data is moved to the back: the entry that the scan meets is the only
\* one, and the data that it pushed it replaces by itself.
LEMMA CountFiniteOfSimilar ==
    ASSUME NEW lines \in Seq(Data), Dissimilar(lines), NEW data \in Data,
           NEW p \in DOMAIN lines, IsSimilar(lines[p], data)
    PROVE  CountFinite(lines, data) = Append(RemoveAt(lines, p), data)
PROOF
<1> DEFINE n == Len(lines)
           rest == RemoveAt(lines, p)
           moved == Append(rest, data)
           After(k) == IF k < p THEN Scan(lines, FALSE) ELSE Scan(moved, TRUE)
<1>1. n \in Nat /\ DOMAIN lines = 1 .. n /\ p \in 1 .. n
  BY LenProperties
<1>2. /\ rest \in Seq(Data) /\ Len(rest) = n - 1
      /\ \A j \in 1 .. n - 1 : rest[j] = IF j < p THEN lines[j] ELSE lines[j + 1]
  BY <1>1, RemoveAtProperties
<1> HIDE DEF n, rest
<1>3. /\ moved \in Seq(Data) /\ Len(moved) = n /\ moved[n] = data
      /\ \A j \in 1 .. n - 1 : moved[j] = IF j < p THEN lines[j] ELSE lines[j + 1]
  <2>1. /\ moved \in Seq(Data) /\ Len(moved) = Len(rest) + 1 /\ moved[Len(rest) + 1] = data
        /\ \A j \in 1 .. Len(rest) : moved[j] = rest[j]
    BY <1>2, AppendProperties
  <2> HIDE DEF moved
  <2> QED
    BY <1>1, <1>2, <2>1
<1> HIDE DEF moved
<1>4. ASSUME NEW i \in 1 .. n, i # p
      PROVE  ~IsSimilar(lines[i], data)
  BY <1>1, <1>4, SimilarIsEquivalence DEF Dissimilar
<1>5. Append(RemoveAt(moved, n), data) = moved
  <2>1. n \in 1 .. Len(moved)
    BY <1>1, <1>3
  <2>6. /\ RemoveAt(moved, n) \in Seq(Data)
        /\ Len(RemoveAt(moved, n)) = Len(moved) - 1
        /\ \A j \in 1 .. Len(moved) - 1 :
              RemoveAt(moved, n)[j] = IF j < n THEN moved[j] ELSE moved[j + 1]
    BY <1>3, <2>1, RemoveAtProperties
  <2>2. /\ RemoveAt(moved, n) \in Seq(Data) /\ Len(RemoveAt(moved, n)) = n - 1
        /\ \A j \in 1 .. n - 1 : RemoveAt(moved, n)[j] = moved[j]
    BY <1>1, <1>3, <2>6
  <2> DEFINE again == Append(RemoveAt(moved, n), data)
  <2>3. /\ again \in Seq(Data) /\ Len(again) = n /\ again[n] = data
        /\ \A j \in 1 .. n - 1 : again[j] = moved[j]
    BY <1>1, <2>2, AppendProperties
  <2> HIDE DEF again
  <2>4. \A j \in 1 .. n : again[j] = moved[j]
    BY <1>1, <1>3, <2>3
  <2>5. again = moved
    BY <1>3, <2>3, <2>4, SeqEqual
  <2> QED
    BY <2>5 DEF again
<1>6. ASSUME NEW k \in 0 .. n - 1
      PROVE  Visit(data, After(k), k + 1) = After(k + 1)
  <2>1. CASE k + 1 < p
    <3>1. ~IsSimilar(lines[k + 1], data)
      BY <1>1, <1>4, <2>1
    <3> QED
      BY <1>1, <2>1, <3>1 DEF Visit, Scan
  <2>2. CASE k + 1 = p
    <3>1. k < p /\ ~(k + 1 < p)
      BY <1>1, <2>2
    <3> QED
      BY <1>1, <2>2, <3>1 DEF Visit, Scan, moved, rest
  <2>3. CASE p < k + 1
    <3>1. ~(k < p) /\ ~(k + 1 < p)
      BY <1>1, <2>3
    <3>2. CASE k + 1 = n
      <4>1. IsSimilar(moved[k + 1], data)
        BY <1>3, <3>2 DEF IsSimilar
      <4> QED
        BY <1>5, <3>1, <3>2, <4>1 DEF Visit, Scan
    <3>3. CASE k + 1 # n
      <4>1. k + 1 \in 1 .. n - 1 /\ k + 2 \in 1 .. n /\ k + 2 # p
        BY <1>1, <2>3, <3>3
      <4>2. moved[k + 1] = lines[k + 2]
        BY <1>1, <1>3, <2>3, <4>1
      <4>3. ~IsSimilar(moved[k + 1], data)
        BY <1>4, <4>1, <4>2
      <4> QED
        BY <3>1, <4>3 DEF Visit, Scan
    <3> QED
      BY <3>2, <3>3
  <2>4. k + 1 < p \/ k + 1 = p \/ p < k + 1
    BY <1>1
  <2> QED
    BY <2>1, <2>2, <2>3, <2>4
<1>13. After(0) = Scan(lines, FALSE) /\ After(n) = Scan(moved, TRUE)
  <2>1. 0 < p /\ ~(n < p)
    BY <1>1
  <2> QED
    BY <2>1
<1>7. PICK f : /\ IsScan(f, lines, data)
               /\ CountFinite(lines, data) =
                    IF f[DOMAIN lines].found THEN f[DOMAIN lines].lines
                    ELSE Append(IF Len(lines) >= Entries THEN Tail(lines) ELSE lines, data)
  BY CountFiniteScans
<1> DEFINE G == {k \in Nat : k <= n => f[1 .. k] = After(k)}
<1>8. /\ f[1 .. 0] = Scan(lines, FALSE)
      /\ \A k \in 0 .. n - 1 : f[1 .. k + 1] = Visit(data, f[1 .. k], k + 1)
  BY <1>7, ScanStep DEF n
<1> HIDE DEF After
<1>9. 0 \in G
  BY <1>8, <1>13
<1>10. \A k \in G : k + 1 \in G
  BY <1>1, <1>6, <1>8
<1>11. n \in G
  <2>1. G \in SUBSET Nat
    OBVIOUS
  <2> HIDE DEF G
  <2>2. G = Nat
    BY <1>9, <1>10, <2>1, SetOfNaturals
  <2> QED
    BY <1>1, <2>2
<1>12. f[DOMAIN lines] = Scan(moved, TRUE)
  <2>1. n <= n
    BY <1>1
  <2>2. f[1 .. n] = After(n)
    BY <1>11, <2>1
  <2> QED
    BY <1>1, <1>13, <2>2
<1> QED
  BY <1>7, <1>12 DEF Scan, moved, rest

LEMMA MovedToBack ==
    ASSUME NEW seq \in Seq(Data), Dissimilar(seq), NEW data \in Data,
           NEW p \in DOMAIN seq, IsSimilar(seq[p], data)
    PROVE  LET after == Append(RemoveAt(seq, p), data)
           IN  /\ after \in Seq(Data) /\ Len(after) = Len(seq) /\ Dissimilar(after)
               /\ after[Len(seq)] = data
               /\ \A j \in 1 .. Len(seq) - 1 :
                     after[j] = IF j < p THEN seq[j] ELSE seq[j + 1]
PROOF
<1> DEFINE n == Len(seq)
           rest == RemoveAt(seq, p)
           after == Append(rest, data)
<1>1. n \in Nat /\ DOMAIN seq = 1 .. n /\ p \in 1 .. n
  BY LenProperties
<1>2. /\ rest \in Seq(Data) /\ Len(rest) = n - 1
      /\ \A j \in 1 .. n - 1 : rest[j] = IF j < p THEN seq[j] ELSE seq[j + 1]
  BY <1>1, RemoveAtProperties
<1> HIDE DEF n, rest
<1>3. /\ after \in Seq(Data) /\ Len(after) = Len(rest) + 1 /\ after[Len(rest) + 1] = data
      /\ \A j \in 1 .. Len(rest) : after[j] = rest[j]
  BY <1>2, AppendProperties
<1> HIDE DEF after
<1>4. /\ Len(after) = n /\ after[n] = data
      /\ \A j \in 1 .. n - 1 : after[j] = IF j < p THEN seq[j] ELSE seq[j + 1]
  BY <1>1, <1>2, <1>3
<1>5. DOMAIN after = 1 .. n
  BY <1>3, <1>4, LenProperties
<1> DEFINE from(j) == IF j = n THEN p ELSE IF j < p THEN j ELSE j + 1
<1>6. \A j \in 1 .. n : from(j) \in 1 .. n /\ IsSimilar(after[j], seq[from(j)])
  <2> SUFFICES ASSUME NEW j \in 1 .. n
               PROVE  from(j) \in 1 .. n /\ IsSimilar(after[j], seq[from(j)])
    OBVIOUS
  <2>1. CASE j = n
    BY <1>1, <1>4, <2>1, SimilarIsEquivalence
  <2>2. CASE j # n
    <3>1. j \in 1 .. n - 1 /\ from(j) \in 1 .. n /\ after[j] = seq[from(j)]
      BY <1>1, <1>4, <2>2
    <3> QED
      BY <3>1 DEF IsSimilar
  <2> QED
    BY <2>1, <2>2
<1>7. \A i, j \in 1 .. n : from(i) = from(j) => i = j
  BY <1>1
<1> HIDE DEF from
<1>8. Dissimilar(after)
  <2> SUFFICES ASSUME NEW i \in 1 .. n, NEW j \in 1 .. n, IsSimilar(after[i], after[j])
               PROVE  i = j
    BY <1>5 DEF Dissimilar
  <2>1. IsSimilar(seq[from(i)], seq[from(j)])
    BY <1>6, SimilarIsEquivalence
  <2>2. from(i) = from(j)
    BY <1>1, <1>6, <2>1 DEF Dissimilar
  <2> QED
    BY <1>7, <2>2
<1> QED
  BY <1>3, <1>4, <1>8 DEF n, rest, after

LEMMA AddedToBack ==
    ASSUME NEW seq \in Seq(Data), Dissimilar(seq), NEW data \in Data,
           \A i \in DOMAIN seq : ~IsSimilar(seq[i], data)
    PROVE  LET after == Append(seq, data)
           IN  /\ after \in Seq(Data) /\ Len(after) = Len(seq) + 1 /\ Dissimilar(after)
               /\ after[Len(seq) + 1] = data
               /\ \A j \in 1 .. Len(seq) : after[j] = seq[j]
PROOF
<1> DEFINE n == Len(seq)
           after == Append(seq, data)
<1>1. n \in Nat /\ DOMAIN seq = 1 .. n
  BY LenProperties
<1>2. /\ after \in Seq(Data) /\ Len(after) = n + 1 /\ after[n + 1] = data
      /\ \A j \in 1 .. n : after[j] = seq[j]
  BY AppendProperties
<1> HIDE DEF n, after
<1>3. DOMAIN after = 1 .. n + 1
  BY <1>2, LenProperties
<1>4. Dissimilar(after)
  <2> SUFFICES ASSUME NEW i \in 1 .. n + 1, NEW j \in 1 .. n + 1,
                      IsSimilar(after[i], after[j])
               PROVE  i = j
    BY <1>3 DEF Dissimilar
  <2>1. ASSUME NEW k \in 1 .. n
        PROVE  ~IsSimilar(after[k], after[n + 1]) /\ ~IsSimilar(after[n + 1], after[k])
    BY <1>1, <1>2, SimilarIsEquivalence
  <2>2. CASE i \in 1 .. n /\ j \in 1 .. n
    BY <1>1, <1>2, <2>2 DEF Dissimilar
  <2>3. CASE i = n + 1 /\ j = n + 1
    BY <2>3
  <2>4. CASE i \in 1 .. n /\ j = n + 1
    BY <2>1, <2>4
  <2>5. CASE i = n + 1 /\ j \in 1 .. n
    BY <2>1, <2>5
  <2> QED
    BY <1>1, <2>2, <2>3, <2>4, <2>5
<1> QED
  BY <1>2, <1>4 DEF n, after

\* The table without its oldest entry, if it is full.
Room(lines) == IF Len(lines) >= Entries THEN Tail(lines) ELSE lines

LEMMA RoomProperties ==
    ASSUME NEW lines \in Seq(Data), Len(lines) <= Entries
    PROVE  LET gone == IF Len(lines) = Entries THEN 1 ELSE 0
           IN  /\ Room(lines) \in Seq(Data) /\ Len(Room(lines)) = Len(lines) - gone
               /\ DOMAIN Room(lines) = 1 .. Len(lines) - gone
               /\ \A j \in 1 .. Len(lines) - gone : Room(lines)[j] = lines[j + gone]
PROOF
<1> DEFINE n == Len(lines)
<1>1. n \in Nat /\ Entries \in Nat \ {0} /\ DOMAIN lines = 1 .. n /\ n <= Entries
  BY FrequencyAssumption, LenProperties
<1>2. CASE n = Entries
  <2>1. lines # << >>
    BY <1>1, <1>2, EmptySeq
  <2>2. Tail(lines) \in Seq(Data) /\ Len(Tail(lines)) = n - 1
        /\ \A j \in 1 .. n - 1 : Tail(lines)[j] = lines[j + 1]
    BY <2>1, HeadTailProperties
  <2>3. Room(lines) = Tail(lines)
    BY <1>1, <1>2 DEF Room
  <2>4. DOMAIN Tail(lines) = 1 .. n - 1
    BY <2>2, LenProperties
  <2> QED
    BY <1>1, <1>2, <2>2, <2>3, <2>4
<1>3. CASE n # Entries
  <2> HIDE DEF n
  <2>1. n - 0 = n /\ ~(n >= Entries) /\ \A j \in 1 .. n : j + 0 = j
    BY <1>1, <1>3
  <2> USE DEF n
  <2>2. Room(lines) = lines
    BY <2>1 DEF Room
  <2> QED
    BY <1>1, <1>3, <2>1, <2>2
<1> QED
  BY <1>2, <1>3

\* updateFrequencyTable (cache.cpp:397) keeps the entries dissimilar and no more
\* than it may.
LEMMA CountFiniteProperties ==
    ASSUME NEW lines \in Seq(Data), Dissimilar(lines), Len(lines) <= Entries,
           NEW data \in Data
    PROVE  LET after == CountFinite(lines, data)
           IN  after \in Seq(Data) /\ Dissimilar(after) /\ Len(after) <= Entries
PROOF
<1>1. Len(lines) \in Nat /\ Entries \in Nat \ {0} /\ DOMAIN lines = 1 .. Len(lines)
  BY FrequencyAssumption, LenProperties
<1>2. ASSUME NEW p \in DOMAIN lines, IsSimilar(lines[p], data)
      PROVE  /\ CountFinite(lines, data) \in Seq(Data)
             /\ Dissimilar(CountFinite(lines, data))
             /\ Len(CountFinite(lines, data)) <= Entries
  <2> DEFINE after == Append(RemoveAt(lines, p), data)
  <2>1. CountFinite(lines, data) = after
    BY <1>2, CountFiniteOfSimilar
  <2>2. after \in Seq(Data) /\ Len(after) = Len(lines) /\ Dissimilar(after)
    BY <1>2, MovedToBack
  <2> QED
    BY <2>1, <2>2
<1>3. ASSUME \A i \in DOMAIN lines : ~IsSimilar(lines[i], data)
      PROVE  /\ CountFinite(lines, data) \in Seq(Data)
             /\ Dissimilar(CountFinite(lines, data))
             /\ Len(CountFinite(lines, data)) <= Entries
  <2> DEFINE gone == IF Len(lines) = Entries THEN 1 ELSE 0
             rest == Room(lines)
  <2>1. CountFinite(lines, data) = Append(rest, data)
    BY <1>3, CountFiniteOfNew DEF Room
  <2>2. /\ rest \in Seq(Data) /\ Len(rest) = Len(lines) - gone
        /\ DOMAIN rest = 1 .. Len(lines) - gone
        /\ \A j \in 1 .. Len(lines) - gone : rest[j] = lines[j + gone]
    BY RoomProperties
  <2>4. gone \in {0, 1} /\ Len(lines) - gone + 1 <= Entries
    <3> DEFINE n == Len(lines)
    <3>1. n \in Nat /\ Entries \in Nat \ {0} /\ n <= Entries
      BY <1>1
    <3> HIDE DEF n
    <3>2. CASE n = Entries
      BY <3>1, <3>2 DEF n
    <3>3. CASE n # Entries
      <4>1. n + 1 <= Entries /\ n - 0 + 1 = n + 1
        BY <3>1, <3>3
      <4> QED
        BY <3>3, <4>1 DEF n
    <3> QED
      BY <3>2, <3>3
  <2> HIDE DEF rest, gone
  <2>3. \A j \in 1 .. Len(lines) - gone : j + gone \in DOMAIN lines
    BY <1>1, <2>4
  <2>5. \A i, j \in 1 .. Len(lines) - gone : i + gone = j + gone => i = j
    BY <1>1, <2>4
  <2>6. Dissimilar(rest)
    BY <2>2, <2>3, <2>5 DEF Dissimilar
  <2>7. \A i \in DOMAIN rest : ~IsSimilar(rest[i], data)
    BY <1>3, <2>2, <2>3
  <2>8. /\ Append(rest, data) \in Seq(Data) /\ Dissimilar(Append(rest, data))
        /\ Len(Append(rest, data)) = Len(rest) + 1
    BY <2>2, <2>6, <2>7, AddedToBack
  <2> QED
    BY <2>1, <2>2, <2>4, <2>8
<1> QED
  BY <1>2, <1>3

----------------------------------------------------------------------------
(* The data of one line, and the deques.                                   *)

\* What holds of a line, given the precompression table.  Where hits may change
\* data that was chosen by similarity, its mapping and datax may be old.
GoodLine(line, table) ==
    /\ line \in DataLine
    /\ line.mapping < Len(table)
    /\ ByFrequency /\ options.hitUpdate = "n" /\ line.mapping > -1
         => line.mapping = findPrecompressionEntry(table, line.data)
    /\ (ByFrequency => options.hitUpdate = "n") /\ line.mapping > -1
         => \A j \in XorBytes :
               line.datax[j] = Xor(line.data[j], table[line.mapping + 1][j])

GoodSet(set, table) ==
    /\ set \in Seq(DataLine) /\ Len(set) <= Assoc
    /\ \A i \in 1 .. Len(set) : GoodLine(set[i], table)

\* A hit moves the line to the back and changes it there.
LEMMA ReplacedAt ==
    ASSUME NEW set \in Seq(DataLine), NEW tag, IsCached(set, tag), NEW line \in DataLine
    PROVE  LET after == ReplaceAt(updateLRU(set, tag), Len(set), line)
               w == FirstWay(set, tag)
           IN  /\ after \in Seq(DataLine) /\ Len(after) = Len(set)
               /\ w \in 1 .. Len(set) /\ set[w].tag = tag
               /\ after[Len(set)] = line
               /\ \A j \in 1 .. Len(set) - 1 :
                     after[j] = set[IF j < w THEN j ELSE j + 1]
PROOF
<1> DEFINE n == Len(set)
           w == FirstWay(set, tag)
           rest == RemoveAt(set, w)
           moved == Append(rest, set[w])
           after == [moved EXCEPT ![n] = line]
<1>1. n \in Nat /\ DOMAIN set = 1 .. n
  BY LenProperties
<1>2. w \in 1 .. n /\ set[w].tag = tag
  <2> DEFINE W == {i \in DOMAIN set : set[i].tag = tag}
  <2>1. W \in SUBSET Nat /\ W # {}
    BY <1>1 DEF IsCached
  <2>2. Min(W) \in W
    <3> HIDE DEF W
    <3> QED
      BY <2>1, MinExists
  <2> QED
    BY <1>1, <2>2 DEF FirstWay
<1> HIDE DEF w
<1>3. /\ rest \in Seq(DataLine) /\ Len(rest) = n - 1
      /\ \A j \in 1 .. n - 1 : rest[j] = IF j < w THEN set[j] ELSE set[j + 1]
  BY <1>2, RemoveAtProperties
<1>4. set[w] \in DataLine
  BY <1>2, ElementOfSeq
<1> HIDE DEF n, rest
<1>5. /\ moved \in Seq(DataLine) /\ Len(moved) = n
      /\ \A j \in 1 .. n - 1 : moved[j] = rest[j]
  BY <1>1, <1>3, <1>4, AppendProperties
<1> HIDE DEF moved
<1>6. /\ after \in Seq(DataLine) /\ Len(after) = n
      /\ \A j \in 1 .. n : after[j] = IF j = n THEN line ELSE moved[j]
  <2>1. n \in 1 .. Len(moved)
    BY <1>1, <1>2, <1>5
  <2> QED
    BY <1>5, <2>1, ExceptSeq
<1>7. ReplaceAt(updateLRU(set, tag), n, line) = after
  BY DEF ReplaceAt, updateLRU, moved, rest, w
<1> HIDE DEF after
<1>8. after[n] = line
  BY <1>1, <1>2, <1>6
<1>9. ASSUME NEW j \in 1 .. n - 1
      PROVE  after[j] = set[IF j < w THEN j ELSE j + 1]
  <2>1. j \in 1 .. n /\ j # n
    BY <1>1
  <2> QED
    BY <1>3, <1>5, <1>6, <2>1
<1> QED
  BY <1>2, <1>6, <1>7, <1>8, <1>9 DEF n, w

\* A miss pushes the line and pops the front of a full set.
LEMMA InsertedAt ==
    ASSUME NEW set \in Seq(DataLine), Len(set) <= Assoc, NEW line \in DataLine
    PROVE  LET after == Append(IF Len(set) = Assoc THEN Tail(set) ELSE set, line)
               gone == IF Len(set) = Assoc THEN 1 ELSE 0
           IN  /\ after \in Seq(DataLine) /\ Len(after) = Len(set) + 1 - gone
               /\ Len(after) <= Assoc /\ Len(set) \in Nat /\ gone <= Len(set)
               /\ after[Len(after)] = line
               /\ \A j \in 1 .. Len(set) - gone : after[j] = set[j + gone]
PROOF
<1> DEFINE n == Len(set)
           gone == IF Len(set) = Assoc THEN 1 ELSE 0
           rest == IF Len(set) = Assoc THEN Tail(set) ELSE set
           after == Append(rest, line)
<1>1. /\ n \in Nat /\ Assoc \in Nat \ {0} /\ n <= Assoc /\ gone \in 0 .. 1
      /\ n + 1 - gone <= Assoc /\ gone <= n
  BY AssocAssumption, LenProperties
<1>2. /\ rest \in Seq(DataLine) /\ Len(rest) = n - gone
      /\ \A j \in 1 .. n - gone : rest[j] = set[j + gone]
  <2>1. CASE n = Assoc
    <3>1. set # << >>
      BY <1>1, <2>1, EmptySeq
    <3>2. Tail(set) \in Seq(DataLine) /\ Len(Tail(set)) = n - 1
          /\ \A j \in 1 .. n - 1 : Tail(set)[j] = set[j + 1]
      BY <3>1, HeadTailProperties
    <3>3. rest = Tail(set) /\ gone = 1
      BY <2>1
    <3> QED
      BY <3>2, <3>3
  <2>2. CASE n # Assoc
    <3>1. rest = set /\ gone = 0 /\ n - gone = n
      BY <1>1, <2>2
    <3>2. \A j \in 1 .. n : j + 0 = j
      BY <1>1
    <3> QED
      BY <3>1, <3>2
  <2> QED
    BY <2>1, <2>2
<1> HIDE DEF rest, n, gone
<1>3. /\ after \in Seq(DataLine) /\ Len(after) = Len(rest) + 1
      /\ after[Len(rest) + 1] = line
      /\ \A j \in 1 .. Len(rest) : after[j] = rest[j]
  BY <1>2, AppendProperties
<1> HIDE DEF after
<1>4. Len(after) = n + 1 - gone /\ Len(after) <= Assoc /\ after[Len(after)] = line
  BY <1>1, <1>2, <1>3
<1> QED
  BY <1>1, <1>2, <1>3, <1>4 DEF after, rest, n, gone

\* Every line of it was there or is the changed one.
LEMMA Replaced ==
    ASSUME NEW set \in Seq(DataLine), NEW tag, IsCached(set, tag), NEW line \in DataLine
    PROVE  LET after == ReplaceAt(updateLRU(set, tag), Len(set), line)
           IN  /\ after \in Seq(DataLine) /\ Len(after) = Len(set)
               /\ \A i \in 1 .. Len(after) :
                     after[i] = line \/ \E k \in 1 .. Len(set) : after[i] = set[k]
PROOF
<1> DEFINE n == Len(set)
           w == FirstWay(set, tag)
           after == ReplaceAt(updateLRU(set, tag), n, line)
<1>1. /\ after \in Seq(DataLine) /\ Len(after) = n /\ w \in 1 .. n
      /\ after[n] = line
      /\ \A j \in 1 .. n - 1 : after[j] = set[IF j < w THEN j ELSE j + 1]
  BY ReplacedAt
<1>2. n \in Nat
  BY LenProperties
<1> HIDE DEF n, w, after
<1>3. \A j \in 1 .. n : j = n \/ (j \in 1 .. n - 1 /\ j + 1 \in 1 .. n)
  BY <1>2
<1>4. \A j \in 1 .. n : after[j] = line \/ \E k \in 1 .. n : after[j] = set[k]
  BY <1>1, <1>3
<1> QED
  BY <1>1, <1>4 DEF n, after

\* Every line of it was there or is the new one.
LEMMA Inserted ==
    ASSUME NEW set \in Seq(DataLine), Len(set) <= Assoc, NEW line \in DataLine
    PROVE  LET after == Append(IF Len(set) = Assoc THEN Tail(set) ELSE set, line)
           IN  /\ after \in Seq(DataLine) /\ Len(after) <= Assoc
               /\ \A i \in 1 .. Len(after) :
                     after[i] = line \/ \E k \in 1 .. Len(set) : after[i] = set[k]
PROOF
<1> DEFINE n == Len(set)
           gone == IF Len(set) = Assoc THEN 1 ELSE 0
           after == Append(IF Len(set) = Assoc THEN Tail(set) ELSE set, line)
<1>1. /\ after \in Seq(DataLine) /\ Len(after) = n + 1 - gone
      /\ Len(after) <= Assoc /\ n \in Nat /\ gone <= n
      /\ after[Len(after)] = line
      /\ \A j \in 1 .. n - gone : after[j] = set[j + gone]
  BY InsertedAt
<1>2. gone \in 0 .. 1
  OBVIOUS
<1> HIDE DEF n, gone, after
<1>3. \A i \in 1 .. Len(after) :
         i = Len(after) \/ (i \in 1 .. n - gone /\ i + gone \in 1 .. n)
  BY <1>1, <1>2
<1>4. \A i \in 1 .. Len(after) : after[i] = line \/ \E k \in 1 .. n : after[i] = set[k]
  BY <1>1, <1>3
<1> QED
  BY <1>1, <1>4 DEF n, after

LEMMA GoodReplaced ==
    ASSUME NEW table, NEW set, GoodSet(set, table), NEW tag, IsCached(set, tag),
           NEW line, GoodLine(line, table)
    PROVE  GoodSet(ReplaceAt(updateLRU(set, tag), Len(set), line), table)
PROOF
<1> DEFINE after == ReplaceAt(updateLRU(set, tag), Len(set), line)
<1>1. set \in Seq(DataLine) /\ Len(set) <= Assoc /\ line \in DataLine
      /\ \A i \in 1 .. Len(set) : GoodLine(set[i], table)
  BY DEF GoodSet, GoodLine
<1>2. /\ after \in Seq(DataLine) /\ Len(after) = Len(set)
      /\ \A i \in 1 .. Len(after) :
            after[i] = line \/ \E k \in 1 .. Len(set) : after[i] = set[k]
  BY <1>1, Replaced
<1> HIDE DEF after
<1>3. \A i \in 1 .. Len(after) : GoodLine(after[i], table)
  BY <1>1, <1>2
<1>4. GoodSet(after, table)
  BY <1>1, <1>2, <1>3 DEF GoodSet
<1> QED
  BY <1>4 DEF after

LEMMA GoodInserted ==
    ASSUME NEW table, NEW set, GoodSet(set, table), NEW line, GoodLine(line, table)
    PROVE  GoodSet(Append(IF Len(set) = Assoc THEN Tail(set) ELSE set, line), table)
PROOF
<1> DEFINE after == Append(IF Len(set) = Assoc THEN Tail(set) ELSE set, line)
<1>1. set \in Seq(DataLine) /\ Len(set) <= Assoc /\ line \in DataLine
      /\ \A i \in 1 .. Len(set) : GoodLine(set[i], table)
  BY DEF GoodSet, GoodLine
<1>2. /\ after \in Seq(DataLine) /\ Len(after) <= Assoc
      /\ \A i \in 1 .. Len(after) :
            after[i] = line \/ \E k \in 1 .. Len(set) : after[i] = set[k]
  BY <1>1, Inserted
<1> HIDE DEF after
<1>3. \A i \in 1 .. Len(after) : GoodLine(after[i], table)
  BY <1>1, <1>2
<1>4. GoodSet(after, table)
  BY <1>2, <1>3 DEF GoodSet
<1> QED
  BY <1>4 DEF after

----------------------------------------------------------------------------
(* The lines that an access or an update leaves.                           *)

\* A line without an entry owes nothing to the table.
LEMMA UnmappedIsGood ==
    ASSUME NEW S, NEW table \in Seq(S), NEW line \in DataLine, line.mapping = -1
    PROVE  GoodLine(line, table)
PROOF
<1>1. Len(table) \in Nat
  BY LenProperties
<1>2. line.mapping < Len(table) /\ ~(line.mapping > -1)
  BY <1>1
<1> QED
  BY <1>2 DEF GoodLine

LEMMA PlainLineType ==
    ASSUME NEW tag \in Tags, NEW data \in Data
    PROVE  PlainLine(tag, data) \in DataLine /\ PlainLine(tag, data).mapping = -1
BY DEF PlainLine, DataLine

LEMMA XorType ==
    ASSUME NEW a \in Data, NEW b \in Data, NEW j \in Positions
    PROVE  Xor(a[j], b[j]) \in {0, 1}
PROOF
<1>1. a[j] \in {0, 1} /\ b[j] \in {0, 1}
  BY DEF Data
<1> QED
  BY <1>1 DEF Xor

\* precompressDatax (cache.cpp:833) touches nothing but datax.
LEMMA PrecompressDataxProperties ==
    ASSUME NEW table \in Seq(Data), NEW line \in DataLine, line.mapping > -1,
           line.mapping < Len(table)
    PROVE  LET after == precompressDatax(line, table)
           IN  /\ after \in DataLine
               /\ after.tag = line.tag /\ after.mapping = line.mapping
               /\ after.data = line.data
               /\ \A j \in XorBytes :
                     after.datax[j] = Xor(line.data[j], table[line.mapping + 1][j])
PROOF
<1> DEFINE m == line.mapping
           x == [j \in Positions |->
                   IF j \in XorBytes
                   THEN Xor(line.data[j], table[m + 1][j])
                   ELSE line.datax[j]]
<1>1. m \in Nat /\ line.data \in Data /\ line.datax \in Data /\ Len(table) \in Nat
  BY LenProperties DEF DataLine
<1>2. m + 1 \in 1 .. Len(table)
  BY <1>1
<1>3. table[m + 1] \in Data
  BY <1>2, ElementOfSeq
<1>4. XorBytes \in SUBSET Positions
  BY DEF XorBytes, Significant
<1> HIDE DEF m
<1>5. \A j \in Positions : line.datax[j] \in {0, 1}
  BY <1>1 DEF Data
<1>6. x \in Data
  BY <1>1, <1>3, <1>5, XorType DEF Data
<1>7. \A j \in XorBytes : x[j] = Xor(line.data[j], table[m + 1][j])
  BY <1>4
<1> HIDE DEF x
<1>8. precompressDatax(line, table) = [line EXCEPT !.datax = x]
  BY DEF precompressDatax, x, m
<1> QED
  BY <1>6, <1>7, <1>8 DEF DataLine, m

\* A line after its mapping changed and precompressCache (cache.cpp:864) ran.
PrecompressedLine(line, table) ==
    IF line.mapping > -1 THEN precompressDatax(line, table) ELSE line

\* Under "frequency" the mapping must be the table's own answer.
LEMMA PrecompressedLineIsGood ==
    ASSUME NEW table \in Seq(Data), NEW line \in DataLine, line.mapping < Len(table),
           ByFrequency /\ options.hitUpdate = "n" /\ line.mapping > -1
             => line.mapping = findPrecompressionEntry(table, line.data)
    PROVE  GoodLine(PrecompressedLine(line, table), table)
PROOF
<1>1. CASE line.mapping > -1
  <2> DEFINE after == precompressDatax(line, table)
  <2>1. /\ after \in DataLine
        /\ after.mapping = line.mapping /\ after.data = line.data
        /\ \A j \in XorBytes :
              after.datax[j] = Xor(line.data[j], table[line.mapping + 1][j])
    BY <1>1, PrecompressDataxProperties
  <2>2. PrecompressedLine(line, table) = after
    BY <1>1 DEF PrecompressedLine
  <2> HIDE DEF after
  <2> QED
    BY <2>1, <2>2 DEF GoodLine
<1>2. CASE ~(line.mapping > -1)
  <2>1. line.mapping = -1
    BY <1>2 DEF DataLine
  <2> QED
    BY <1>2, <2>1, UnmappedIsGood DEF PrecompressedLine
<1> QED
  BY <1>1, <1>2

LEMMA MappedType ==
    ASSUME NEW line \in DataLine, NEW m \in Nat \cup {-1}
    PROVE  LET after == [line EXCEPT !.mapping = m]
           IN  /\ after \in DataLine /\ after.mapping = m
               /\ after.tag = line.tag /\ after.data = line.data
               /\ after.datax = line.datax
BY DEF DataLine

\* What insertLine (cache.cpp:206) pushes.
LEMMA NewLineIsGood ==
    ASSUME precompressionTable \in Seq(Data), NEW tag \in Tags, NEW data \in Data
    PROVE  GoodLine(NewLine(tag, data), precompressionTable)
PROOF
<1> DEFINE m == findPrecompressionEntry(precompressionTable, data)
           line == [PlainLine(tag, data) EXCEPT !.mapping = m]
<1>1. m \in -1 .. Len(precompressionTable) - 1 /\ Len(precompressionTable) \in Nat
  BY FindType, LenProperties
<1> HIDE DEF m
<1>2. m \in Nat \cup {-1} /\ m < Len(precompressionTable)
  BY <1>1
<1>3. line \in DataLine /\ line.mapping = m /\ line.data = data
  BY <1>2, PlainLineType, MappedType DEF PlainLine
<1>4. CASE ByFrequency /\ m > -1
  <2>1. NewLine(tag, data) = PrecompressedLine(line, precompressionTable)
    BY <1>3, <1>4 DEF NewLine, PrecompressedLine, m
  <2> HIDE DEF line
  <2>2. GoodLine(PrecompressedLine(line, precompressionTable), precompressionTable)
    BY <1>2, <1>3, PrecompressedLineIsGood DEF m
  <2> QED
    BY <2>1, <2>2
<1>5. CASE ~(ByFrequency /\ m > -1)
  <2>1. NewLine(tag, data) = PlainLine(tag, data)
    BY <1>5 DEF NewLine, m
  <2> QED
    BY <2>1, PlainLineType, UnmappedIsGood
<1> QED
  BY <1>4, <1>5

\* A hit changes data and datax, never tag and mapping.
LEMMA ChangedType ==
    ASSUME NEW line \in DataLine, NEW data \in Data
    PROVE  LET after == [line EXCEPT !.data = data]
           IN  after \in DataLine /\ after.mapping = line.mapping
BY DEF DataLine

\* The options are fixed: what is good stays good.
LEMMA GoodSetKept ==
    ASSUME NEW table, NEW set, options' = options
    PROVE  GoodSet(set, table)' <=> GoodSet(set, table)
BY DEF GoodSet, GoodLine, ByFrequency, XorBytes

LEMMA GoodCacheKept ==
    ASSUME options' = options, NEW table, precompressionTable' = table,
           NEW sets, cache' = sets, \A s \in Sets : GoodSet(sets[s], table)
    PROVE  (\A s \in Sets : GoodSet(cache[s], precompressionTable))'
PROOF
<1> SUFFICES ASSUME NEW s \in Sets
             PROVE  GoodSet(cache[s], precompressionTable)'
  OBVIOUS
<1>1. PICK set : set = sets[s]
  OBVIOUS
<1>2. GoodSet(set, table)'
  BY <1>1, GoodSetKept
<1>3. cache'[s] = set /\ precompressionTable' = table
  BY <1>1
<1> QED
  BY <1>2, <1>3

\* The line that a hit finds.
LEMMA ResidentIsGood ==
    ASSUME NEW table, NEW set, GoodSet(set, table), NEW tag, IsCached(set, tag)
    PROVE  GoodLine(set[FirstWay(set, tag)], table)
PROOF
<1> DEFINE W == {i \in DOMAIN set : set[i].tag = tag}
<1>1. DOMAIN set = 1 .. Len(set) /\ Len(set) \in Nat
      /\ \A i \in 1 .. Len(set) : GoodLine(set[i], table)
  BY LenProperties DEF GoodSet
<1>2. W \in SUBSET Nat /\ W # {}
  BY <1>1 DEF IsCached
<1>3. Min(W) \in W
  <2> HIDE DEF W
  <2> QED
    BY <1>2, MinExists
<1>4. FirstWay(set, tag) = Min(W)
  BY DEF FirstWay
<1>5. Min(W) \in 1 .. Len(set)
  BY <1>1, <1>3
<1> HIDE DEF W
<1> QED
  BY <1>1, <1>4, <1>5

\* Under hit_update "y" of "frequency", data is all that changes.
LEMMA FrequencyHitIsGood ==
    ASSUME NEW table, NEW line, GoodLine(line, table), NEW data \in Data,
           options.hitUpdate = "y", ByFrequency
    PROVE  GoodLine([line EXCEPT !.data = data], table)
PROOF
<1> DEFINE after == [line EXCEPT !.data = data]
<1>1. line \in DataLine /\ line.mapping < Len(table)
  BY DEF GoodLine
<1>2. after \in DataLine /\ after.mapping = line.mapping
  BY <1>1, ChangedType
<1> HIDE DEF after
<1>3. GoodLine(after, table)
  BY <1>1, <1>2 DEF GoodLine
<1> QED
  BY <1>3 DEF after

\* Under hit_update "y" of "kmeans", a mapped line is xored on its own.
LEMMA KmeansHitIsGood ==
    ASSUME NEW table \in Seq(Data), NEW line, GoodLine(line, table), NEW data \in Data,
           ~ByFrequency, line.mapping > -1
    PROVE  GoodLine([line EXCEPT !.data = data,
                                 !.datax = [j \in Positions |->
                                   Xor(data[j], table[line.mapping + 1][j])]],
                    table)
PROOF
<1> DEFINE m == line.mapping
           x == [j \in Positions |-> Xor(data[j], table[m + 1][j])]
           after == [line EXCEPT !.data = data, !.datax = x]
<1>1. line \in DataLine /\ m < Len(table)
  BY DEF GoodLine
<1>2. m \in Nat /\ Len(table) \in Nat
  BY <1>1, LenProperties DEF DataLine
<1> HIDE DEF m
<1>3. m + 1 \in 1 .. Len(table)
  BY <1>1, <1>2
<1>4. table[m + 1] \in Data
  BY <1>3, ElementOfSeq
<1>5. x \in Data
  BY <1>4, XorType DEF Data
<1>6. \A j \in XorBytes : x[j] = Xor(data[j], table[m + 1][j])
  BY DEF XorBytes, Significant
<1> HIDE DEF x
<1>7. after \in DataLine /\ after.mapping = m /\ after.data = data /\ after.datax = x
  BY <1>1, <1>5 DEF DataLine, m
<1> HIDE DEF after
<1>8. GoodLine(after, table)
  BY <1>1, <1>6, <1>7 DEF GoodLine
<1> QED
  BY <1>8 DEF after, x, m

LEMMA UnknownHitIsGood ==
    ASSUME NEW table \in Seq(Data), NEW line, GoodLine(line, table), NEW data \in Data,
           NEW x \in Data, line.mapping = -1
    PROVE  GoodLine([line EXCEPT !.data = data, !.datax = x], table)
PROOF
<1>1. line \in DataLine
  BY DEF GoodLine
<1>2. /\ [line EXCEPT !.data = data, !.datax = x] \in DataLine
      /\ [line EXCEPT !.data = data, !.datax = x].mapping = -1
  BY <1>1 DEF DataLine
<1> QED
  BY <1>2, UnmappedIsGood

\* An update maps every line of a set to an entry of the table, and under
\* "frequency" to the one that the table answers for it.
LEMMA InstalledIsGood ==
    ASSUME NEW table \in Seq(Data), NEW set \in Seq(DataLine), Len(set) <= Assoc,
           NEW label,
           \A i \in 1 .. Len(set) : label[i] \in -1 .. Len(table) - 1,
           \A i \in 1 .. Len(set) :
              ByFrequency => label[i] = findPrecompressionEntry(table, set[i].data)
    PROVE  GoodSet([i \in DOMAIN set |->
                      PrecompressedLine([set[i] EXCEPT !.mapping = label[i]], table)],
                   table)
PROOF
<1> DEFINE n == Len(set)
           after == [i \in DOMAIN set |->
                      PrecompressedLine([set[i] EXCEPT !.mapping = label[i]], table)]
<1>1. n \in Nat /\ DOMAIN set = 1 .. n /\ Len(table) \in Nat
  BY LenProperties
<1>2. ASSUME NEW i \in 1 .. n
      PROVE  GoodLine(after[i], table)
  <2> DEFINE line == [set[i] EXCEPT !.mapping = label[i]]
  <2>1. set[i] \in DataLine
    BY <1>1, <1>2, ElementOfSeq
  <2>2. label[i] \in Nat \cup {-1} /\ label[i] < Len(table)
    BY <1>1, <1>2
  <2>3. line \in DataLine /\ line.mapping = label[i] /\ line.data = set[i].data
    BY <2>1, <2>2, MappedType
  <2>4. after[i] = PrecompressedLine(line, table)
    BY <1>1, <1>2
  <2> HIDE DEF line, after
  <2>5. GoodLine(PrecompressedLine(line, table), table)
    BY <1>2, <2>2, <2>3, PrecompressedLineIsGood
  <2> QED
    BY <2>4, <2>5
<1> HIDE DEF n
<1>3. \A i \in 1 .. n : after[i] \in DataLine
  BY <1>2 DEF GoodLine
<1>4. after \in [1 .. n -> DataLine]
  <2>1. DOMAIN after = 1 .. n /\ after = [i \in 1 .. n |-> after[i]]
    BY <1>1
  <2> HIDE DEF after
  <2> QED
    BY <1>3, <2>1
<1> HIDE DEF after
<1>5. after \in Seq(DataLine) /\ Len(after) = n
  BY <1>1, <1>4, FunctionIsSeq
<1>6. GoodSet(after, table)
  BY <1>2, <1>5 DEF GoodSet, n
<1> QED
  BY <1>6 DEF after

----------------------------------------------------------------------------
(* The inductive invariant.                                                *)

\* What the frequency tables guarantee: no data twice.
FrequencyInv ==
    /\ infiniteFrequentLines \in Seq(Entry) /\ OnePerData(infiniteFrequentLines)
    /\ frequentLines \in Seq(Data) /\ Dissimilar(frequentLines)
    /\ Len(frequentLines) <= Entries

LinesInv ==
    /\ precompressionTable \in Seq(Data)
    /\ cache \in [Sets -> Seq(DataLine)]
    /\ \A s \in Sets : GoodSet(cache[s], precompressionTable)

DataInv ==
    /\ options \in Options
    /\ mayUpdate \in BOOLEAN /\ aborted \in BOOLEAN
    /\ FrequencyNeverAborts
    /\ FrequencyInv
    /\ LinesInv

LEMMA OneSetChanges ==
    ASSUME LinesInv, UNCHANGED <<options, precompressionTable>>, NEW set \in Sets,
           NEW after, GoodSet(after, precompressionTable),
           cache' = [cache EXCEPT ![set] = after]
    PROVE  LinesInv'
PROOF
<1>1. PICK table, sets : table = precompressionTable /\ sets = [cache EXCEPT ![set] = after]
  OBVIOUS
<1>2. after \in Seq(DataLine)
  BY DEF GoodSet
<1>3. \A s \in Sets : GoodSet(sets[s], table)
  BY <1>1 DEF LinesInv
<1>4. (\A s \in Sets : GoodSet(cache[s], precompressionTable))'
  BY <1>1, <1>3, GoodCacheKept
<1>5. cache' \in [Sets -> Seq(DataLine)]
  BY <1>2 DEF LinesInv
<1> QED
  BY <1>4, <1>5 DEF LinesInv

\* All lines may change with the table.
LEMMA AllSetsChange ==
    ASSUME UNCHANGED options, NEW table \in Seq(Data), precompressionTable' = table,
           NEW sets, cache' = sets, DOMAIN sets = Sets,
           sets = [s \in Sets |-> sets[s]],
           \A s \in Sets : GoodSet(sets[s], table)
    PROVE  LinesInv'
PROOF
<1>1. (\A s \in Sets : GoodSet(cache[s], precompressionTable))'
  BY GoodCacheKept
<1>2. \A s \in Sets : sets[s] \in Seq(DataLine)
  BY DEF GoodSet
<1>3. cache' \in [Sets -> Seq(DataLine)]
  BY <1>2
<1> QED
  BY <1>1, <1>3 DEF LinesInv

\* An access counts its data.
LEMMA AccessCounts ==
    ASSUME DataInv, NEW data \in Data, Access(data)
    PROVE  /\ FrequencyInv' /\ mayUpdate' \in BOOLEAN /\ UNCHANGED aborted
           /\ UNCHANGED <<options, precompressionTable>>
PROOF
<1>1. /\ infiniteFrequentLines \in Seq(Entry) /\ OnePerData(infiniteFrequentLines)
      /\ frequentLines \in Seq(Data) /\ Dissimilar(frequentLines)
      /\ Len(frequentLines) <= Entries
  BY DEF DataInv, FrequencyInv
<1>2. PICK infinite, finite : /\ infinite = CountInfinite(infiniteFrequentLines, data)
                              /\ finite = CountFinite(frequentLines, data)
  OBVIOUS
<1>3. infinite \in Seq(Entry) /\ OnePerData(infinite)
  BY <1>1, <1>2, CountInfiniteProperties
<1>4. finite \in Seq(Data) /\ Dissimilar(finite) /\ Len(finite) <= Entries
  BY <1>1, <1>2, CountFiniteProperties
<1>5. infiniteFrequentLines' \in {infinite, infiniteFrequentLines}
      /\ frequentLines' \in {finite, frequentLines}
  BY <1>2 DEF Access, updateFrequencyTable
<1>6. infiniteFrequentLines' \in Seq(Entry) /\ OnePerData(infiniteFrequentLines')
  BY <1>1, <1>3, <1>5
<1>7. /\ frequentLines' \in Seq(Data) /\ Dissimilar(frequentLines')
      /\ Len(frequentLines') <= Entries
  BY <1>1, <1>4, <1>5
<1>8. FrequencyInv'
  BY <1>6, <1>7 DEF FrequencyInv
<1> QED
  BY <1>8 DEF Access

LEMMA MissPreservesInv ==
    ASSUME DataInv, NEW set \in Sets, NEW tag \in Tags, NEW data \in Data,
           Miss(set, tag, data)
    PROVE  DataInv'
PROOF
<1>1. FrequencyInv' /\ mayUpdate' \in BOOLEAN /\ UNCHANGED aborted
      /\ UNCHANGED <<options, precompressionTable>>
  BY AccessCounts DEF Miss
<1>2. precompressionTable \in Seq(Data) /\ GoodSet(cache[set], precompressionTable)
  BY DEF DataInv, LinesInv
<1>3. GoodLine(NewLine(tag, data), precompressionTable)
  BY <1>2, NewLineIsGood
<1>4. PICK before, line, table : before = cache[set] /\ line = NewLine(tag, data)
                                 /\ table = precompressionTable
  OBVIOUS
<1>5. PICK after : after = Append(IF Len(before) = Assoc THEN Tail(before) ELSE before, line)
  OBVIOUS
<1>6. GoodSet(after, precompressionTable)
  BY <1>2, <1>3, <1>4, <1>5, GoodInserted
<1>7. cache' = [cache EXCEPT ![set] = after]
  BY <1>4, <1>5 DEF Miss
<1>8. LinesInv'
  BY <1>1, <1>6, <1>7, OneSetChanges DEF DataInv
<1>9. FrequencyNeverAborts'
  BY <1>1 DEF DataInv, FrequencyNeverAborts, ByFrequency
<1> QED
  BY <1>1, <1>8, <1>9 DEF DataInv

\* The steps of a hit that put a good line at the back.
LEMMA ReplacePreservesInv ==
    ASSUME DataInv, NEW set \in Sets, NEW tag, IsCached(cache[set], tag),
           NEW data \in Data, Access(data),
           NEW line, GoodLine(line, precompressionTable), Replace(set, tag, line)
    PROVE  DataInv'
PROOF
<1>1. FrequencyInv' /\ mayUpdate' \in BOOLEAN /\ UNCHANGED aborted
      /\ UNCHANGED <<options, precompressionTable>>
  BY AccessCounts
<1>2. GoodSet(cache[set], precompressionTable)
  BY DEF DataInv, LinesInv
<1>3. PICK before, table : before = cache[set] /\ table = precompressionTable
  OBVIOUS
<1>4. PICK after : after = ReplaceAt(updateLRU(before, tag), Len(before), line)
  OBVIOUS
<1>5. GoodSet(after, precompressionTable)
  BY <1>2, <1>3, <1>4, GoodReplaced
<1>6. cache' = [cache EXCEPT ![set] = after]
  BY <1>3, <1>4 DEF Replace
<1>7. LinesInv'
  BY <1>1, <1>5, <1>6, OneSetChanges DEF DataInv
<1>8. FrequencyNeverAborts'
  BY <1>1 DEF DataInv, FrequencyNeverAborts, ByFrequency
<1> QED
  BY <1>1, <1>7, <1>8 DEF DataInv

LEMMA UnchangedPreservesInv ==
    ASSUME DataInv,
           UNCHANGED <<options, cache, tables, precompressionTable, mayUpdate>>,
           aborted' \in BOOLEAN, ByFrequency => ~aborted'
    PROVE  DataInv'
PROOF
<1>1. PICK table, sets : table = precompressionTable /\ sets = cache
  OBVIOUS
<1>2. \A s \in Sets : GoodSet(sets[s], table)
  BY <1>1 DEF DataInv, LinesInv
<1>3. (\A s \in Sets : GoodSet(cache[s], precompressionTable))'
  BY <1>1, <1>2, GoodCacheKept
<1>4. LinesInv'
  BY <1>3 DEF DataInv, LinesInv
<1>5. FrequencyInv'
  BY DEF DataInv, FrequencyInv, tables
<1> QED
  BY <1>4, <1>5 DEF DataInv, FrequencyNeverAborts, ByFrequency

\* Under "kmeans" the process may die.
LEMMA DyingPreservesInv ==
    ASSUME DataInv, ~ByFrequency, Die
    PROVE  DataInv'
BY UnchangedPreservesInv DEF Die

LEMMA HitPreservesInv ==
    ASSUME DataInv, NEW set \in Sets, NEW tag \in Tags, NEW data \in Data,
           Hit(set, tag, data)
    PROVE  DataInv'
PROOF
<1>1. IsCached(cache[set], tag)
  BY DEF Hit
<1>2. /\ precompressionTable \in Seq(Data) /\ GoodSet(cache[set], precompressionTable)
      /\ options \in Options
  BY DEF DataInv, LinesInv
<1>3. PICK line, plain, table : /\ line = cache[set][FirstWay(cache[set], tag)]
                                /\ plain = PlainLine(tag, data)
                                /\ table = precompressionTable
  OBVIOUS
<1>4. GoodLine(line, precompressionTable)
  BY <1>1, <1>2, <1>3, ResidentIsGood
<1>5. GoodLine(plain, precompressionTable)
  BY <1>2, <1>3, PlainLineType, UnmappedIsGood
<1>6. CASE HitReset(set, tag, data)
  <2>1. Access(data) /\ Replace(set, tag, plain)
    BY <1>3, <1>6 DEF HitReset
  <2> QED
    BY <1>1, <1>5, <2>1, ReplacePreservesInv
<1>7. CASE HitFrequency(set, tag, line, data)
  <2>1. Access(data) /\ options.hitUpdate = "y" /\ ByFrequency
    BY <1>7 DEF HitFrequency
  <2>2. PICK new : new = [line EXCEPT !.data = data]
    OBVIOUS
  <2>3. GoodLine(new, precompressionTable)
    BY <1>4, <2>1, <2>2, FrequencyHitIsGood
  <2>4. Replace(set, tag, new) \/ Replace(set, tag, plain)
    BY <1>3, <1>7, <2>2 DEF HitFrequency
  <2> QED
    BY <1>1, <1>5, <2>1, <2>3, <2>4, ReplacePreservesInv
<1>8. CASE HitKmeans(set, tag, line, data)
  <2>1. ~ByFrequency
    BY <1>8 DEF HitKmeans
  <2>2. CASE Access(data) /\ Replace(set, tag, line)
    BY <1>1, <1>4, <2>2, ReplacePreservesInv
  <2>3. CASE /\ line.mapping > -1 /\ Access(data)
             /\ Replace(set, tag,
                  [line EXCEPT !.data = data,
                               !.datax = [j \in Positions |->
                                 Xor(data[j], precompressionTable[line.mapping + 1][j])]])
    <3>1. PICK new : new = [line EXCEPT !.data = data,
                               !.datax = [j \in Positions |->
                                 Xor(data[j], precompressionTable[line.mapping + 1][j])]]
      OBVIOUS
    <3>2. GoodLine(new, precompressionTable)
      BY <1>2, <1>4, <2>1, <2>3, <3>1, KmeansHitIsGood
    <3>3. Replace(set, tag, new)
      BY <2>3, <3>1
    <3> QED
      BY <1>1, <2>3, <3>2, <3>3, ReplacePreservesInv
  <2>4. CASE /\ line.mapping = -1 /\ Access(data)
             /\ \E unknown \in Data :
                  Replace(set, tag, [line EXCEPT !.data = data, !.datax = unknown])
    <3>1. PICK unknown \in Data :
                  Replace(set, tag, [line EXCEPT !.data = data, !.datax = unknown])
      BY <2>4
    <3>2. PICK new : new = [line EXCEPT !.data = data, !.datax = unknown]
      OBVIOUS
    <3>3. GoodLine(new, precompressionTable)
      BY <1>2, <1>4, <2>4, <3>2, UnknownHitIsGood
    <3>4. Replace(set, tag, new)
      BY <3>1, <3>2
    <3> QED
      BY <1>1, <2>4, <3>3, <3>4, ReplacePreservesInv
  <2>5. CASE Die
    BY <2>1, <2>5, DyingPreservesInv
  <2> QED
    BY <1>8, <2>2, <2>3, <2>4, <2>5 DEF HitKmeans
<1> QED
  BY <1>3, <1>6, <1>7, <1>8 DEF Hit

\* The table of an update, from the frequency entries kept.
LEMMA TableOfEntries ==
    ASSUME NEW kept \in Seq(Entry), OnePerData(kept)
    PROVE  LET table == Leading([i \in DOMAIN kept |-> kept[i].data])
               n     == IF Entries <= Len(kept) THEN Entries ELSE Len(kept)
           IN  /\ table \in Seq(Data) /\ DOMAIN table = 1 .. n /\ Distinct(table)
               /\ \A i \in 1 .. n : table[i] = kept[i].data
PROOF
<1> DEFINE n == IF Entries <= Len(kept) THEN Entries ELSE Len(kept)
           all == [i \in DOMAIN kept |-> kept[i].data]
           table == Leading(all)
<1>1. DOMAIN kept = 1 .. Len(kept) /\ Len(kept) \in Nat /\ Entries \in Nat \ {0}
  BY LenProperties, FrequencyAssumption
<1>2. \A i \in 1 .. Len(kept) : kept[i].data \in Data
  <2>1. \A i \in 1 .. Len(kept) : kept[i] \in Entry
    BY ElementOfSeq
  <2> QED
    BY <2>1 DEF Entry
<1>3. all \in [1 .. Len(kept) -> Data] /\ \A i \in 1 .. Len(kept) : all[i] = kept[i].data
  BY <1>1, <1>2
<1> HIDE DEF all
<1>4. all \in Seq(Data) /\ Len(all) = Len(kept)
  BY <1>1, <1>3, FunctionIsSeq
<1>5. table \in Seq(Data) /\ DOMAIN table = 1 .. n /\ \A i \in 1 .. n : table[i] = all[i]
  BY <1>4, LeadingProperties
<1>6. \A i \in 1 .. n : i \in 1 .. Len(kept)
  BY <1>1
<1> HIDE DEF table, n
<1>7. \A i \in 1 .. n : table[i] = kept[i].data
  BY <1>3, <1>5, <1>6
<1>8. Distinct(table)
  BY <1>1, <1>5, <1>6, <1>7 DEF Distinct, OnePerData
<1> QED
  BY <1>5, <1>7, <1>8 DEF table, n, all

\* The table of an update, from the finite frequency table.
LEMMA TableOfLines ==
    ASSUME NEW lines \in Seq(Data), Dissimilar(lines)
    PROVE  /\ Leading(lines) \in Seq(Data)
           /\ Distinct(Leading(lines)) /\ Dissimilar(Leading(lines))
PROOF
<1> DEFINE n == IF Entries <= Len(lines) THEN Entries ELSE Len(lines)
<1>1. /\ Leading(lines) \in Seq(Data) /\ DOMAIN Leading(lines) = 1 .. n
      /\ \A i \in 1 .. n : Leading(lines)[i] = lines[i]
  BY LeadingProperties
<1>2. \A i \in 1 .. n : i \in DOMAIN lines
  <2>1. DOMAIN lines = 1 .. Len(lines) /\ Len(lines) \in Nat /\ Entries \in Nat
    BY LenProperties, FrequencyAssumption
  <2> QED
    BY <2>1
<1> HIDE DEF n
<1>3. Dissimilar(Leading(lines))
  BY <1>1, <1>2 DEF Dissimilar
<1>4. Distinct(Leading(lines))
  BY <1>3 DEF Dissimilar, IsSimilar, Distinct
<1> QED
  BY <1>1, <1>3, <1>4

\* The lines of a set once an update is through with them.
InstalledSet(set, label, table) ==
    [i \in DOMAIN set |->
       PrecompressedLine([set[i] EXCEPT !.mapping = label[i]], table)]

\* The lines with new mappings.
MappedSets(sets, label) ==
    [s \in Sets |-> [i \in DOMAIN sets[s] |->
                       [sets[s][i] EXCEPT !.mapping = label[s][i]]]]

\* precompressCache (cache.cpp:864), set by set.
LEMMA PrecompressCacheProperties ==
    ASSUME NEW sets, NEW label, NEW table
    PROVE  precompressCache(MappedSets(sets, label), table)
             = [s \in Sets |-> InstalledSet(sets[s], label[s], table)]
PROOF
<1> DEFINE line(s, i) == [sets[s][i] EXCEPT !.mapping = label[s][i]]
           mapped == [s \in Sets |-> [i \in DOMAIN sets[s] |-> line(s, i)]]
<1>1. ASSUME NEW s \in Sets
      PROVE  [i \in DOMAIN mapped[s] |->
                IF mapped[s][i].mapping > -1 THEN precompressDatax(mapped[s][i], table)
                ELSE mapped[s][i]]
               = [i \in DOMAIN sets[s] |-> PrecompressedLine(line(s, i), table)]
  <2>1. /\ DOMAIN mapped[s] = DOMAIN sets[s]
        /\ \A i \in DOMAIN sets[s] : mapped[s][i] = line(s, i)
    OBVIOUS
  <2> HIDE DEF mapped, line
  <2> QED
    BY <2>1 DEF PrecompressedLine
<1> QED
  BY <1>1 DEF precompressCache, InstalledSet, MappedSets

LEMMA InstallPreservesLines ==
    ASSUME LinesInv, NEW table \in Seq(Data), NEW label,
           \A s \in Sets : \A i \in 1 .. Len(cache[s]) :
              label[s][i] \in -1 .. Len(table) - 1,
           \A s \in Sets : \A i \in 1 .. Len(cache[s]) :
              ByFrequency => label[s][i] = findPrecompressionEntry(table, cache[s][i].data),
           Install(table, MappedSets(cache, label))
    PROVE  LinesInv'
PROOF
<1>1. PICK before : before = cache
  OBVIOUS
<1>2. PICK after : after = [s \in Sets |-> InstalledSet(before[s], label[s], table)]
  OBVIOUS
<1>3. PICK mapped : mapped = MappedSets(before, label)
  OBVIOUS
<1>4. precompressCache(mapped, table) = after
  BY <1>2, <1>3, PrecompressCacheProperties
<1>5. Install(table, mapped)
  BY <1>1, <1>3
<1>6. cache' = after /\ precompressionTable' = table /\ UNCHANGED options
  BY <1>4, <1>5 DEF Install
<1>7. ASSUME NEW s \in Sets
      PROVE  GoodSet(after[s], table)
  <2>1. PICK set, l : set = before[s] /\ l = label[s]
    OBVIOUS
  <2>2. set \in Seq(DataLine) /\ Len(set) <= Assoc
    BY <1>1, <1>7, <2>1 DEF LinesInv, GoodSet
  <2>3. \A i \in 1 .. Len(set) : l[i] \in -1 .. Len(table) - 1
    BY <1>1, <1>7, <2>1
  <2>4. \A i \in 1 .. Len(set) :
           ByFrequency => l[i] = findPrecompressionEntry(table, set[i].data)
    BY <1>1, <1>7, <2>1
  <2>5. GoodSet(InstalledSet(set, l, table), table)
    BY <2>2, <2>3, <2>4, InstalledIsGood DEF InstalledSet
  <2> QED
    BY <1>2, <2>1, <2>5
<1>8. DOMAIN after = Sets /\ after = [s \in Sets |-> after[s]]
  BY <1>2
<1> QED
  BY <1>6, <1>7, <1>8, AllSetsChange

\* Under "frequency" the labels are the table's answers.
LEMMA RemappedPreservesLines ==
    ASSUME LinesInv, NEW table \in Seq(Data), Install(table, Remapped(cache, table))
    PROVE  LinesInv'
PROOF
<1>1. PICK label : label = [s \in Sets |-> [i \in DOMAIN cache[s] |->
                              findPrecompressionEntry(table, cache[s][i].data)]]
  OBVIOUS
<1>2. \A s \in Sets : DOMAIN cache[s] = 1 .. Len(cache[s])
  <2>1. \A s \in Sets : cache[s] \in Seq(DataLine)
    BY DEF LinesInv
  <2> QED
    BY <2>1, LenProperties
<1>3. \A s \in Sets : \A i \in DOMAIN cache[s] :
         label[s][i] = findPrecompressionEntry(table, cache[s][i].data)
  BY <1>1
<1>4. \A s \in Sets : \A i \in 1 .. Len(cache[s]) :
         label[s][i] \in -1 .. Len(table) - 1
  BY <1>2, <1>3, FindType
<1>5. Remapped(cache, table) = MappedSets(cache, label)
  BY <1>3 DEF Remapped, MappedSets
<1>6. Install(table, MappedSets(cache, label))
  BY <1>5
<1>7. \A s \in Sets : \A i \in 1 .. Len(cache[s]) :
              ByFrequency => label[s][i] = findPrecompressionEntry(table, cache[s][i].data)
  BY <1>2, <1>3
<1> QED
  BY <1>4, <1>6, <1>7, InstallPreservesLines

\* What an update makes of the infinite frequency table, sorted before.
UpdatedTable(sorted, kept, table) ==
    /\ kept = Decay(sorted)
    /\ kept \in Seq(Entry) /\ OnePerData(kept)
    /\ \A i, j \in 1 .. Len(kept) : i < j => kept[i].freq >= kept[j].freq
    /\ table \in Seq(Data)
    /\ DOMAIN table = 1 .. (IF Entries <= Len(kept) THEN Entries ELSE Len(kept))
    /\ \A i \in DOMAIN table : table[i] = kept[i].data

LEMMA UpdateInfiniteInstalls ==
    ASSUME DataInv, UpdateInfinite
    PROVE  \E sorted \in Sorted(infiniteFrequentLines) : \E kept, table :
              /\ UpdatedTable(sorted, kept, table)
              /\ infiniteFrequentLines' = kept /\ UNCHANGED frequentLines
              /\ Install(table, Remapped(cache, table))
PROOF
<1>1. infiniteFrequentLines \in Seq(Entry) /\ OnePerData(infiniteFrequentLines)
  BY DEF DataInv, FrequencyInv
<1>2. PICK sorted \in Sorted(infiniteFrequentLines) :
         LET kept == Decay(sorted)
             table == Leading([i \in DOMAIN kept |-> kept[i].data])
         IN  IF IsDuplicated(precompressionTable, table) THEN Die
             ELSE /\ infiniteFrequentLines' = kept
                  /\ UNCHANGED frequentLines
                  /\ Install(table, Remapped(cache, table))
  BY DEF UpdateInfinite
<1>3. PICK before : before = infiniteFrequentLines
  OBVIOUS
<1>4. /\ sorted \in Seq(Entry) /\ OnePerData(sorted)
      /\ \A i, j \in 1 .. Len(sorted) : i < j => sorted[i].freq >= sorted[j].freq
  BY <1>1, <1>2, <1>3, SortedProperties
<1>5. PICK kept : kept = Decay(sorted)
  OBVIOUS
<1>6. /\ kept \in Seq(Entry) /\ OnePerData(kept)
      /\ \A i, j \in 1 .. Len(kept) : i < j => kept[i].freq >= kept[j].freq
  BY <1>4, <1>5, DecayProperties
<1>7. PICK table : table = Leading([i \in DOMAIN kept |-> kept[i].data])
  OBVIOUS
<1>8. /\ table \in Seq(Data) /\ Distinct(table)
      /\ DOMAIN table = 1 .. (IF Entries <= Len(kept) THEN Entries ELSE Len(kept))
      /\ \A i \in DOMAIN table : table[i] = kept[i].data
  BY <1>6, <1>7, TableOfEntries
<1>9. ~IsDuplicated(precompressionTable, table)
  <2>1. PICK old : old = precompressionTable
    OBVIOUS
  <2> QED
    BY <1>8, <2>1, DistinctIsNotDuplicated
<1>10. /\ infiniteFrequentLines' = kept /\ UNCHANGED frequentLines
       /\ Install(table, Remapped(cache, table))
  BY <1>2, <1>5, <1>7, <1>9
<1>11. UpdatedTable(sorted, kept, table)
  BY <1>5, <1>6, <1>8 DEF UpdatedTable
<1> QED
  BY <1>10, <1>11

LEMMA UpdateFiniteInstalls ==
    ASSUME DataInv, UpdateFinite
    PROVE  \E table \in Seq(Data) :
              UNCHANGED tables /\ Install(table, Remapped(cache, table))
PROOF
<1>1. PICK table : table = Leading(frequentLines)
  OBVIOUS
<1>2. table \in Seq(Data) /\ Distinct(table)
  BY <1>1, TableOfLines DEF DataInv, FrequencyInv
<1>3. ~IsDuplicated(precompressionTable, table)
  <2>1. PICK old : old = precompressionTable
    OBVIOUS
  <2> QED
    BY <1>2, <2>1, DistinctIsNotDuplicated
<1> QED
  BY <1>1, <1>2, <1>3 DEF UpdateFinite

\* The number of clusters is one of lines and entries.
LEMMA ClustersType ==
    ASSUME LinesInv
    PROVE  Min({Entries, Cardinality(Filled(cache))}) \in Nat
PROOF
<1>1. IsFiniteSet(Sets) /\ IsFiniteSet(1 .. Assoc)
  BY PrecompressionAssumption, AssocAssumption, FS_Interval
<1>2. IsFiniteSet(Sets \X (1 .. Assoc))
  BY <1>1, FS_Product
<1>3. Filled(cache) \in SUBSET (Sets \X (1 .. Assoc))
  BY DEF Filled
<1>4. Cardinality(Filled(cache)) \in Nat
  BY <1>2, <1>3, FS_Subset, FS_CardinalityType
<1>5. {Entries, Cardinality(Filled(cache))} \in SUBSET Nat
  BY <1>4, FrequencyAssumption
<1>6. Min({Entries, Cardinality(Filled(cache))}) \in {Entries, Cardinality(Filled(cache))}
  BY <1>5, MinExists
<1> QED
  BY <1>5, <1>6

LEMMA UpdateKmeansInstalls ==
    ASSUME DataInv, UpdateKmeans, ~Die
    PROVE  \E table \in Seq(Data) : \E label :
              /\ \A s \in Sets : \A i \in 1 .. Len(cache[s]) :
                    label[s][i] \in -1 .. Len(table) - 1
              /\ UNCHANGED tables /\ Install(table, MappedSets(cache, label))
PROOF
<1>1. PICK n : n = Min({Entries, Cardinality(Filled(cache))})
  OBVIOUS
<1>2. n \in Nat
  BY <1>1, ClustersType DEF DataInv
<1>3. PICK table \in [1 .. n -> Data],
           label \in [Sets -> [1 .. Assoc -> 0 .. n - 1]] :
         UNCHANGED tables /\ Install(table, MappedSets(cache, label))
  BY <1>1 DEF UpdateKmeans, MappedSets
<1>4. table \in Seq(Data) /\ Len(table) = n
  BY <1>2, <1>3, FunctionIsSeq
<1>5. ASSUME NEW s \in Sets, NEW i \in 1 .. Len(cache[s])
      PROVE  label[s][i] \in -1 .. Len(table) - 1
  <2>1. Len(cache[s]) \in Nat /\ Len(cache[s]) <= Assoc /\ Assoc \in Nat
    <3>1. cache[s] \in Seq(DataLine) /\ Len(cache[s]) <= Assoc
      BY DEF DataInv, LinesInv, GoodSet
    <3> QED
      BY <3>1, LenProperties, AssocAssumption
  <2>2. i \in 1 .. Assoc
    BY <2>1
  <2>3. label[s][i] \in 0 .. n - 1
    BY <1>3, <2>2
  <2> QED
    BY <1>2, <1>4, <2>3
<1> QED
  BY <1>3, <1>4, <1>5

LEMMA UpdatePreservesInv ==
    ASSUME DataInv, updatePrecompressTable
    PROVE  DataInv'
PROOF
<1>1. LinesInv /\ precompressionTable \in Seq(Data)
  BY DEF DataInv, LinesInv
<1>2. ASSUME NEW table, NEW mapped, Install(table, mapped), LinesInv', FrequencyInv'
      PROVE  DataInv'
  BY <1>2 DEF DataInv, Install, FrequencyNeverAborts, ByFrequency
<1>3. CASE UpdateInfinite
  <2>1. PICK sorted, kept, table : /\ UpdatedTable(sorted, kept, table)
              /\ infiniteFrequentLines' = kept /\ UNCHANGED frequentLines
              /\ Install(table, Remapped(cache, table))
    BY <1>3, UpdateInfiniteInstalls
  <2>2. FrequencyInv'
    BY <2>1 DEF DataInv, FrequencyInv, UpdatedTable
  <2>3. LinesInv'
    BY <1>1, <2>1, RemappedPreservesLines DEF UpdatedTable
  <2> QED
    BY <1>2, <2>1, <2>2, <2>3
<1>4. ASSUME UNCHANGED tables
      PROVE  FrequencyInv'
  BY <1>4 DEF DataInv, FrequencyInv, tables
<1>5. CASE UpdateFinite
  <2>1. PICK table \in Seq(Data) :
              UNCHANGED tables /\ Install(table, Remapped(cache, table))
    BY <1>5, UpdateFiniteInstalls
  <2>2. LinesInv'
    BY <1>1, <2>1, RemappedPreservesLines
  <2> QED
    BY <1>2, <1>4, <2>1, <2>2
<1>6. CASE UpdateNeither
  <2>1. PICK table \in Seq(Data) : table = precompressionTable
    BY <1>1
  <2>2. UNCHANGED tables /\ Install(table, Remapped(cache, table))
    BY <1>6, <2>1 DEF UpdateNeither
  <2>3. LinesInv'
    BY <1>1, <2>2, RemappedPreservesLines
  <2> QED
    BY <1>2, <1>4, <2>2, <2>3
<1>7. CASE UpdateKmeans /\ ~Die
  <2>0. PICK table \in Seq(Data) : \E label :
              /\ \A s \in Sets : \A i \in 1 .. Len(cache[s]) :
                    label[s][i] \in -1 .. Len(table) - 1
              /\ UNCHANGED tables /\ Install(table, MappedSets(cache, label))
    BY <1>7, UpdateKmeansInstalls
  <2>1. PICK label :
              /\ \A s \in Sets : \A i \in 1 .. Len(cache[s]) :
                    label[s][i] \in -1 .. Len(table) - 1
              /\ UNCHANGED tables /\ Install(table, MappedSets(cache, label))
    BY <2>0
  <2>2. ~ByFrequency
    BY <1>7 DEF UpdateKmeans
  <2>3. LinesInv'
    BY <1>1, <2>1, <2>2, InstallPreservesLines
  <2> QED
    BY <1>2, <1>4, <2>1, <2>3
<1>8. CASE UpdateKmeans /\ Die
  <2>1. ~ByFrequency
    BY <1>8 DEF UpdateKmeans
  <2> QED
    BY <1>8, <2>1, DyingPreservesInv
<1> QED
  BY <1>3, <1>5, <1>6, <1>7, <1>8 DEF updatePrecompressTable

LEMMA InitEstablishesInv ==
    ASSUME Init
    PROVE  DataInv
PROOF
<1>1. \A S : << >> \in Seq(S) /\ Len(<< >>) = 0 /\ DOMAIN << >> = {}
  BY EmptySeq
<1>2. Assoc \in Nat /\ Entries \in Nat
  BY AssocAssumption, FrequencyAssumption
<1>3. FrequencyInv
  BY <1>1, <1>2 DEF Init, FrequencyInv, OnePerData, Dissimilar
<1>4. ASSUME NEW s \in Sets
      PROVE  GoodSet(cache[s], precompressionTable)
  <2>1. cache[s] = << >>
    BY DEF Init
  <2> QED
    BY <1>1, <1>2, <2>1 DEF GoodSet
<1>5. LinesInv
  BY <1>1, <1>4 DEF Init, LinesInv
<1> QED
  BY <1>3, <1>5 DEF Init, DataInv, FrequencyNeverAborts

LEMMA NextPreservesInv ==
    ASSUME DataInv, [Next]_vars
    PROVE  DataInv'
PROOF
<1>1. ASSUME NEW set \in Sets, NEW tag \in Tags, NEW data \in TraceData(options),
             memAccess(set, tag, data)
      PROVE  DataInv'
  <2>1. data \in Data
    BY PrecompressionAssumption DEF DataInv
  <2> QED
    BY <1>1, <2>1, HitPreservesInv, MissPreservesInv DEF memAccess
<1>2. CASE updatePrecompressTable
  BY <1>2, UpdatePreservesInv
<1>3. CASE UNCHANGED vars
  BY <1>3, UnchangedPreservesInv DEF vars, tables, DataInv, FrequencyNeverAborts
<1> QED
  BY <1>1, <1>2, <1>3 DEF Next

\* The invariant holds in every state, whatever the sizes and the command line.
THEOREM DataInvariant == Spec => []DataInv
PROOF
<1>1. Init => DataInv
  BY InitEstablishesInv
<1>2. DataInv /\ [Next]_vars => DataInv'
  BY NextPreservesInv
<1> QED
  BY <1>1, <1>2, PTL DEF Spec

\* The fields have their types, whatever lines and tables do to each other.
THEOREM TypeCorrect == Spec => []TypeOK
PROOF
<1>1. DataInv => TypeOK
  BY DEF DataInv, FrequencyInv, LinesInv, TypeOK
<1> QED
  BY <1>1, DataInvariant, PTL

\* The abort of updatePrecompressTable (cache.cpp:683) is unreachable under
\* "frequency": the tables that the entries come from hold no data twice.
THEOREM FrequencyIsSafe == Spec => []FrequencyNeverAborts
PROOF
<1>1. DataInv => FrequencyNeverAborts
  BY DEF DataInv
<1> QED
  BY <1>1, DataInvariant, PTL

LEMMA ResidentLinesAreGood ==
    ASSUME LinesInv, NEW line \in LinesOf(cache)
    PROVE  GoodLine(line, precompressionTable)
PROOF
<1>1. PICK s \in Sets : line \in Range(cache[s])
  BY DEF LinesOf
<1>2. cache[s] \in Seq(DataLine) /\ \A i \in 1 .. Len(cache[s]) :
                                      GoodLine(cache[s][i], precompressionTable)
  BY <1>1 DEF LinesInv, GoodSet
<1>3. DOMAIN cache[s] = 1 .. Len(cache[s])
  BY <1>2, LenProperties
<1> QED
  BY <1>1, <1>2, <1>3 DEF Range

\* A mapped line is mapped to the first of the entries most similar to its data,
\* in the table as it is now, through every update and every access.
THEOREM MappingsAreMostSimilar == Spec => []MappingIsMostSimilar
PROOF
<1>1. DataInv => MappingIsMostSimilar
  BY ResidentLinesAreGood DEF DataInv, MappingIsMostSimilar, GoodLine
<1> QED
  BY <1>1, DataInvariant, PTL

\* datax is data xored with the entry, as both are now: no update and no hit
\* leaves a mapped line behind.
THEOREM MappedDataxStaysCurrent == Spec => []MappedDataxIsCurrent
PROOF
<1>1. DataInv => MappedDataxIsCurrent
  BY ResidentLinesAreGood DEF DataInv, MappedDataxIsCurrent, GoodLine, IsPrecompressed
<1> QED
  BY <1>1, DataInvariant, PTL

----------------------------------------------------------------------------
(* Action properties.                                                      *)

\* Where the lines of a cache with one new set come from.
LEMMA LinesAfterAccess ==
    ASSUME NEW sets \in [Sets -> Seq(DataLine)], NEW set \in Sets,
           NEW after \in Seq(DataLine), NEW line,
           \A i \in 1 .. Len(after) :
              after[i] = line \/ \E k \in 1 .. Len(sets[set]) : after[i] = sets[set][k]
    PROVE  LinesOf([sets EXCEPT ![set] = after]) \subseteq LinesOf(sets) \cup {line}
PROOF
<1> DEFINE new == [sets EXCEPT ![set] = after]
<1>1. /\ DOMAIN after = 1 .. Len(after)
      /\ DOMAIN sets[set] = 1 .. Len(sets[set])
  BY LenProperties
<1>2. new[set] = after /\ \A s \in Sets : s # set => new[s] = sets[s]
  OBVIOUS
<1> HIDE DEF new
<1>3. ASSUME NEW s \in Sets, NEW l \in Range(new[s])
      PROVE  l \in LinesOf(sets) \cup {line}
  <2>1. CASE s = set
    BY <1>1, <1>2, <1>3, <2>1 DEF Range, LinesOf
  <2>2. CASE s # set
    BY <1>2, <1>3, <2>2 DEF LinesOf
  <2> QED
    BY <2>1, <2>2
<1>4. LinesOf(new) \subseteq LinesOf(sets) \cup {line}
  BY <1>3 DEF LinesOf
<1> QED
  BY <1>4 DEF new

LEMMA NewLineIsNotStale ==
    ASSUME NEW tag, NEW data
    PROVE  ~IsStale(NewLine(tag, data)) /\ ~IsStale(PlainLine(tag, data))
PROOF
<1> DEFINE m == findPrecompressionEntry(precompressionTable, data)
<1>1. ~IsStale(PlainLine(tag, data))
  BY DEF IsStale, PlainLine
<1>2. CASE ByFrequency /\ m > -1
  <2> DEFINE line == [PlainLine(tag, data) EXCEPT !.mapping = m]
  <2>1. NewLine(tag, data) = precompressDatax(line, precompressionTable)
    BY <1>2 DEF NewLine
  <2>2. line.mapping = m
    BY DEF PlainLine
  <2>3. precompressDatax(line, precompressionTable).mapping = m
    BY <2>2 DEF precompressDatax, PlainLine
  <2>4. m # -1
    BY <1>2
  <2> QED
    BY <1>1, <2>1, <2>3, <2>4 DEF IsStale
<1>3. CASE ~(ByFrequency /\ m > -1)
  BY <1>1, <1>3 DEF NewLine
<1> QED
  BY <1>2, <1>3

\* A fresh line is in order, and with hit_update "n" so is a line that was hit:
\* an update takes away the entry of a line without a trace in datax, and no
\* access ever does.
THEOREM AccessesLeaveNothingStale == Spec => StaleOnlyAfterUpdates
PROOF
<1> DEFINE Stale(c) == {line \in LinesOf(c) : IsStale(line)}
<1>1. ASSUME DataInv, [Next]_vars, options.hitUpdate = "n", ~(mayUpdate /\ ~mayUpdate')
      PROVE  Stale(cache') \subseteq Stale(cache)
  <2>1. cache \in [Sets -> Seq(DataLine)] /\ precompressionTable \in Seq(Data)
    BY <1>1 DEF DataInv, LinesInv
  <2>2. ASSUME NEW line, ~IsStale(line), LinesOf(cache') \subseteq LinesOf(cache) \cup {line}
        PROVE  Stale(cache') \subseteq Stale(cache)
    BY <2>2
  <2>3. PICK before : before = cache
    OBVIOUS
  <2>4. ASSUME NEW set \in Sets, NEW tag \in Tags, NEW data \in TraceData(options),
               memAccess(set, tag, data)
        PROVE  Stale(cache') \subseteq Stale(cache)
    <3>0. data \in Data
      BY <1>1, PrecompressionAssumption DEF DataInv
    <3>1. CASE Miss(set, tag, data)
      <4>1. PICK line : line = NewLine(tag, data)
        OBVIOUS
      <4>2. PICK after : after = Append(IF Len(before[set]) = Assoc THEN Tail(before[set])
                                        ELSE before[set], line)
        OBVIOUS
      <4>3. line \in DataLine /\ ~IsStale(line)
        BY <2>1, <3>0, <4>1, NewLineIsGood, NewLineIsNotStale DEF GoodLine
      <4>4. before[set] \in Seq(DataLine) /\ Len(before[set]) <= Assoc
        BY <1>1, <2>1, <2>3 DEF DataInv, LinesInv, GoodSet
      <4>5. /\ after \in Seq(DataLine)
            /\ \A i \in 1 .. Len(after) :
                  after[i] = line \/ \E k \in 1 .. Len(before[set]) : after[i] = before[set][k]
        BY <4>2, <4>3, <4>4, Inserted
      <4>6. cache' = [before EXCEPT ![set] = after]
        BY <2>3, <3>1, <4>1, <4>2 DEF Miss
      <4>7. LinesOf([before EXCEPT ![set] = after]) \subseteq LinesOf(before) \cup {line}
        BY <2>1, <2>3, <4>5, LinesAfterAccess
      <4>8. LinesOf(cache') \subseteq LinesOf(cache) \cup {line}
        BY <2>3, <4>6, <4>7
      <4> QED
        BY <2>2, <4>3, <4>8
    <3>2. CASE Hit(set, tag, data)
      <4>1. HitReset(set, tag, data) /\ IsCached(cache[set], tag)
        BY <1>1, <3>2 DEF Hit, HitReset, HitFrequency, HitKmeans
      <4>2. PICK line : line = PlainLine(tag, data)
        OBVIOUS
      <4>3. PICK after : after = ReplaceAt(updateLRU(before[set], tag), Len(before[set]), line)
        OBVIOUS
      <4>4. line \in DataLine /\ ~IsStale(line)
        BY <3>0, <4>2, PlainLineType, NewLineIsNotStale
      <4>10. PICK old : old = before[set]
        OBVIOUS
      <4>5. old \in Seq(DataLine) /\ IsCached(old, tag)
        BY <2>1, <2>3, <4>1, <4>10
      <4>11. after = ReplaceAt(updateLRU(old, tag), Len(old), line)
        BY <4>3, <4>10
      <4>12. /\ after \in Seq(DataLine)
             /\ \A i \in 1 .. Len(after) :
                   after[i] = line \/ \E k \in 1 .. Len(old) : after[i] = old[k]
        BY <4>4, <4>5, <4>11, Replaced
      <4>6. /\ after \in Seq(DataLine)
            /\ \A i \in 1 .. Len(after) :
                  after[i] = line \/ \E k \in 1 .. Len(before[set]) : after[i] = before[set][k]
        BY <4>10, <4>12
      <4>7. cache' = [before EXCEPT ![set] = after]
        BY <2>3, <4>1, <4>2, <4>3 DEF HitReset, Replace
      <4>8. LinesOf([before EXCEPT ![set] = after]) \subseteq LinesOf(before) \cup {line}
        BY <2>1, <2>3, <4>6, LinesAfterAccess
      <4>9. LinesOf(cache') \subseteq LinesOf(cache) \cup {line}
        BY <2>3, <4>7, <4>8
      <4> QED
        BY <2>2, <4>4, <4>9
    <3> QED
      BY <2>4, <3>1, <3>2 DEF memAccess
  <2>5. CASE updatePrecompressTable
    <3>1. mayUpdate /\ (UNCHANGED cache \/ mayUpdate' = FALSE)
      BY <2>5 DEF updatePrecompressTable, UpdateInfinite, UpdateFinite, UpdateNeither,
                  UpdateKmeans, Die, Install
    <3> QED
      BY <1>1, <3>1
  <2>6. CASE UNCHANGED vars
    BY <2>6 DEF vars
  <2> QED
    BY <1>1, <2>4, <2>5, <2>6 DEF Next
<1>2. DataInv /\ [Next]_vars
        => [options.hitUpdate = "n" /\ ~(mayUpdate /\ ~mayUpdate')
              => Stale(cache') \subseteq Stale(cache)]_vars
  BY <1>1
<1> QED
  BY <1>2, DataInvariant, PTL DEF Spec, StaleOnlyAfterUpdates

\* The entries of a new table are the most frequent data: the sort before the
\* erasures orders them, the erasures keep the order, and no data has two entries.
THEOREM TablesHoldMostFrequent == Spec => TableHoldsMostFrequent
PROOF
<1>1. ASSUME DataInv, [Next]_vars, ByFrequency, options.infiniteFreq = "y",
             mayUpdate /\ ~mayUpdate',
             NEW a \in Range(infiniteFrequentLines'),
             NEW b \in Range(infiniteFrequentLines'),
             a.data \in Range(precompressionTable'),
             b.data \notin Range(precompressionTable')
      PROVE  a.freq >= b.freq
  <2>1. updatePrecompressTable
    <3>1. ASSUME NEW set, NEW tag, NEW data, memAccess(set, tag, data)
          PROVE  mayUpdate' = TRUE \/ mayUpdate' = mayUpdate
      BY <3>1 DEF memAccess, Hit, Miss, HitReset, HitFrequency, HitKmeans, Access, Die
    <3> QED
      BY <1>1, <3>1 DEF Next, vars
  <2>2. UpdateInfinite
    BY <1>1, <2>1 DEF updatePrecompressTable, UpdateFinite, UpdateNeither, UpdateKmeans
  <2>3. PICK sorted, kept, table : /\ UpdatedTable(sorted, kept, table)
              /\ infiniteFrequentLines' = kept /\ precompressionTable' = table
    BY <1>1, <2>2, UpdateInfiniteInstalls DEF Install
  <2> DEFINE n == IF Entries <= Len(kept) THEN Entries ELSE Len(kept)
  <2>4. /\ kept \in Seq(Entry) /\ OnePerData(kept)
        /\ \A i, j \in 1 .. Len(kept) : i < j => kept[i].freq >= kept[j].freq
        /\ DOMAIN table = 1 .. n /\ \A i \in DOMAIN table : table[i] = kept[i].data
    BY <2>3 DEF UpdatedTable
  <2>5. DOMAIN kept = 1 .. Len(kept) /\ Len(kept) \in Nat /\ Entries \in Nat
    BY <2>4, LenProperties, FrequencyAssumption
  <2>6. n <= Len(kept) /\ n \in Nat
    BY <2>5
  <2> HIDE DEF n
  <2>7. PICK i \in 1 .. Len(kept) : a = kept[i]
    BY <2>3, <2>5 DEF Range
  <2>8. PICK j \in 1 .. Len(kept) : b = kept[j]
    BY <2>3, <2>5 DEF Range
  <2>9. PICK k \in 1 .. n : kept[k].data = a.data
    BY <1>1, <2>3, <2>4 DEF Range
  <2>10. i = k
    BY <2>4, <2>5, <2>6, <2>7, <2>9 DEF OnePerData
  <2>11. j \notin 1 .. n
    BY <1>1, <2>3, <2>4, <2>8 DEF Range
  <2>12. i < j
    BY <2>5, <2>6, <2>10, <2>11
  <2> QED
    BY <2>4, <2>7, <2>8, <2>12
<1>2. DataInv /\ [Next]_vars
        => [ByFrequency /\ options.infiniteFreq = "y" /\ mayUpdate /\ ~mayUpdate' =>
              \A a, b \in Range(infiniteFrequentLines') :
                 a.data \in Range(precompressionTable')
                   /\ b.data \notin Range(precompressionTable')
                 => a.freq >= b.freq]_vars
  BY <1>1
<1> QED
  BY <1>2, DataInvariant, PTL DEF Spec, TableHoldsMostFrequent

----------------------------------------------------------------------------
(* The entries of the precompression table.                                *)

\* No update method but "kmeans" puts data into the table twice; only the finite
\* frequency table keeps similar data apart.
TableInv ==
    ByFrequency => /\ Distinct(precompressionTable)
                   /\ options.infiniteFreq = "n" => Dissimilar(precompressionTable)
                   /\ options.infiniteFreq = "other" => precompressionTable = << >>

LEMMA UpdateReplacesTable ==
    ASSUME DataInv, TableInv, updatePrecompressTable
    PROVE  TableInv'
PROOF
<1>1. UNCHANGED options
  BY DEF updatePrecompressTable, UpdateInfinite, UpdateFinite, UpdateNeither,
         UpdateKmeans, Install, Die
<1>2. CASE UpdateInfinite
  <2>1. PICK sorted, kept, table : /\ UpdatedTable(sorted, kept, table)
                                   /\ Install(table, Remapped(cache, table))
    BY <1>2, UpdateInfiniteInstalls
  <2>2. Distinct(table)
    <3>1. \A i \in DOMAIN table : i \in DOMAIN kept
      <4>1. Len(kept) \in Nat /\ Entries \in Nat /\ DOMAIN kept = 1 .. Len(kept)
        BY <2>1, FrequencyAssumption, LenProperties DEF UpdatedTable
      <4> QED
        BY <2>1, <4>1 DEF UpdatedTable
    <3> QED
      BY <2>1, <3>1 DEF UpdatedTable, OnePerData, Distinct
  <2>3. precompressionTable' = table /\ options.infiniteFreq = "y"
    BY <1>2, <2>1 DEF Install, UpdateInfinite
  <2> QED
    BY <1>1, <2>2, <2>3 DEF TableInv, Distinct
<1>3. CASE UpdateFinite
  <2>1. PICK table : table = Leading(frequentLines)
    OBVIOUS
  <2>2. Distinct(table) /\ Dissimilar(table)
    BY <2>1, TableOfLines DEF DataInv, FrequencyInv
  <2>3. ~IsDuplicated(precompressionTable, table)
    <3>1. PICK old : old = precompressionTable
      OBVIOUS
    <3> QED
      BY <2>2, <3>1, DistinctIsNotDuplicated
  <2>4. precompressionTable' = table /\ options.infiniteFreq = "n"
    BY <1>3, <2>1, <2>3 DEF Install, UpdateFinite
  <2> QED
    BY <1>1, <2>2, <2>4 DEF TableInv, Distinct, Dissimilar, IsSimilar
<1>4. CASE UpdateNeither
  BY <1>1, <1>4 DEF UpdateNeither, Install, TableInv, ByFrequency, Distinct,
                    Dissimilar, IsSimilar
<1>5. CASE UpdateKmeans
  BY <1>1, <1>5 DEF UpdateKmeans, TableInv, ByFrequency
<1> QED
  BY <1>2, <1>3, <1>4, <1>5 DEF updatePrecompressTable

LEMMA NextPreservesTableInv ==
    ASSUME DataInv, TableInv, [Next]_vars
    PROVE  TableInv'
PROOF
<1>1. UNCHANGED <<options, precompressionTable>> => TableInv'
  BY DEF TableInv, ByFrequency, Distinct, Dissimilar, IsSimilar
<1>2. ASSUME NEW set, NEW tag, NEW data, memAccess(set, tag, data)
      PROVE  UNCHANGED <<options, precompressionTable>>
  <2>1. CASE Miss(set, tag, data)
    BY <2>1 DEF Miss, Access
  <2>2. CASE Hit(set, tag, data)
    BY <2>2 DEF Hit, HitReset, HitFrequency, HitKmeans, Access, Die
  <2> QED
    BY <1>2, <2>1, <2>2 DEF memAccess
<1>3. CASE UNCHANGED vars
  BY <1>1, <1>3 DEF vars
<1> QED
  BY <1>1, <1>2, <1>3, UpdateReplacesTable DEF Next

LEMMA InitTableInv ==
    ASSUME Init
    PROVE  TableInv
PROOF
<1>1. DOMAIN precompressionTable = {} /\ precompressionTable = << >>
  BY EmptySeq DEF Init
<1> QED
  BY <1>1 DEF TableInv, Distinct, Dissimilar

\* The entries of the table are chosen once each, through every update.
THEOREM TableInvariance == Spec => []TableInv
PROOF
<1>1. Init => TableInv
  BY InitTableInv
<1>2. DataInv /\ TableInv /\ [Next]_vars => TableInv'
  BY NextPreservesTableInv
<1> QED
  BY <1>1, <1>2, DataInvariant, PTL DEF Spec

\* Data that is in the table, and finds an entry, finds one that is similar to it
\* in every byte that is compared: an entry that is not has a smaller weight.
LEMMA EntryFindsSimilar ==
    ASSUME NEW table \in Seq(Data), NEW data \in Data,
           NEW k \in DOMAIN table, table[k] = data,
           findPrecompressionEntry(table, data) > -1
    PROVE  LET m == findPrecompressionEntry(table, data) + 1
           IN  m \in DOMAIN table /\ IsSimilar(table[m], data)
PROOF
<1> DEFINE value == [i \in DOMAIN table |-> Similarity(table[i], data)]
           Scores == {Similarity(table[i], data) : i \in DOMAIN table}
           best == Max(Scores)
           First == {i \in DOMAIN table : Similarity(table[i], data) = best}
           m == Min(First)
<1>1. Len(table) \in Nat /\ DOMAIN table = 1 .. Len(table)
  BY LenProperties
<1>2. IsFiniteSet(Scores) /\ Scores \in SUBSET Int /\ Scores # {}
  <2>1. value \in Surjection(DOMAIN table, Scores)
    BY DEF Surjection
  <2>2. IsFiniteSet(DOMAIN table)
    BY <1>1, FS_Interval
  <2> QED
    BY <2>1, <2>2, FS_Surjection, SimilarityType
<1>3. best \in Scores /\ \A x \in Scores : x <= best
  <2> HIDE DEF Scores
  <2> QED
    BY <1>2, MaxExists
<1>4. First \in SUBSET Nat /\ First # {}
  <2>1. \E i \in DOMAIN table : Similarity(table[i], data) = best
    BY <1>3
  <2>2. \A i \in DOMAIN table : i \in Nat
    BY <1>1
  <2> HIDE DEF best
  <2> QED
    BY <2>1, <2>2
<1>5. m \in First
  <2> HIDE DEF First
  <2> QED
    BY <1>4, MinExists
<1>6. m \in DOMAIN table /\ m \in Int /\ Similarity(table[m], data) = best
  BY <1>1, <1>5
<1>7. Similarity(table[k], data) <= best
  <2> HIDE DEF best
  <2> QED
    BY <1>3
<1> HIDE DEF Scores, First
<1>8. findPrecompressionEntry(table, data) = m - 1
  BY DEF findPrecompressionEntry, Scores, First
<1> HIDE DEF m, best
<1>9. findPrecompressionEntry(table, data) + 1 = m
  BY <1>6, <1>8
<1>10. IsSimilar(table[m], data)
  <2> DEFINE Same(i) == {j \in Significant : table[i][j] = data[j]}
  <2>1. Same(k) = Significant
    OBVIOUS
  <2>2. Significant \in SUBSET Positions /\ Same(m) \in SUBSET Significant
    BY DEF Significant
  <2>3. \A i : Similarity(table[i], data) = MapThenSumSet(Weight, Same(i))
    BY DEF Similarity
  <2>4. Same(m) = Significant => IsSimilar(table[m], data)
    BY DEF IsSimilar
  <2> HIDE DEF Same
  <2>5. PICK a, b : a = Similarity(table[m], data) /\ b = Similarity(table[k], data)
    OBVIOUS
  <2>6. a \in Nat /\ b \in Nat /\ b <= a
    BY <1>6, <1>7, <2>5, SimilarityType
  <2>7. Same(m) # Significant => a < b
    BY <2>1, <2>2, <2>3, <2>5, PartWeighsLess
  <2> QED
    BY <2>4, <2>6, <2>7
<1> QED
  BY <1>6, <1>9, <1>10

\* Precompressed with an entry that equals it, or is similar to it where only the
\* bytes compared are xored, the data of a line leaves nothing but zeroes.
LEMMA EntryClearsBytes ==
    ASSUME DataInv, TableInv, ByFrequency, options.hitUpdate = "n",
           options.infiniteFreq = "y" => XorBytes \subseteq Significant,
           NEW line \in LinesOf(cache), line.mapping > -1,
           line.data \in Range(precompressionTable)
    PROVE  \A j \in XorBytes : line.datax[j] = 0
PROOF
<1>1. PICK table : table = precompressionTable
  OBVIOUS
<1>2. GoodLine(line, table) /\ table \in Seq(Data)
  BY <1>1, ResidentLinesAreGood DEF DataInv, LinesInv
<1>3. PICK k \in DOMAIN table : table[k] = line.data
  BY <1>1 DEF Range
<1>4. line.data \in Data /\ line.mapping = findPrecompressionEntry(table, line.data)
  BY <1>2 DEF GoodLine, DataLine
<1>5. PICK m : m = line.mapping + 1
  OBVIOUS
<1>6. m \in DOMAIN table /\ IsSimilar(table[m], line.data)
  BY <1>2, <1>3, <1>4, <1>5, EntryFindsSimilar
<1>7. \A j \in XorBytes : line.datax[j] = Xor(line.data[j], table[m][j])
  BY <1>2, <1>5 DEF GoodLine
<1>8. \A j \in XorBytes : j \in Positions
  BY DEF XorBytes, Significant
<1>9. \A j \in XorBytes : table[m][j] = line.data[j]
  <2>1. CASE options.infiniteFreq = "y"
    BY <1>6, <2>1 DEF IsSimilar
  <2>2. CASE options.infiniteFreq = "n"
    <3>1. IsSimilar(table[m], table[k])
      BY <1>3, <1>6
    <3>2. m = k
      BY <1>1, <1>3, <1>6, <2>2, <3>1 DEF TableInv, Dissimilar
    <3> QED
      BY <1>3, <3>2
  <2>3. CASE options.infiniteFreq = "other"
    BY <1>1, <1>3, <2>3, EmptySeq DEF TableInv
  <2> QED
    BY <2>1, <2>2, <2>3, PrecompressionAssumption DEF DataInv, OptionRecord
<1>10. \A j \in XorBytes : Xor(line.data[j], line.data[j]) = 0
  BY <1>4, <1>8 DEF Data, Xor
<1> QED
  BY <1>7, <1>9, <1>10

----------------------------------------------------------------------------
(* The tags of a deque.                                                    *)

\* The line at place w has moved to the back.
HitMovesTags(before, w, after) ==
    /\ w \in 1 .. Len(before) /\ Len(after) = Len(before)
    /\ after[Len(before)].tag = before[w].tag
    /\ \A j \in 1 .. Len(before) - 1 :
          after[j].tag = before[IF j < w THEN j ELSE j + 1].tag

\* A line with the tag was pushed, and the front of a full set popped.
MissMovesTags(before, tag, after) ==
    LET gone == IF Len(before) = Assoc THEN 1 ELSE 0
    IN  /\ Len(after) = Len(before) + 1 - gone
        /\ after[Len(after)].tag = tag
        /\ \A j \in 1 .. Len(before) - gone : after[j].tag = before[j + gone].tag

LEMMA ReplaceMovesTags ==
    ASSUME DataInv, NEW set \in Sets, NEW tag, IsCached(cache[set], tag),
           NEW line \in DataLine, line.tag = tag, Replace(set, tag, line)
    PROVE  /\ \A s \in Sets \ {set} : cache'[s] = cache[s]
           /\ HitMovesTags(cache[set], FirstWay(cache[set], tag), cache'[set])
PROOF
<1>1. cache \in [Sets -> Seq(DataLine)]
  BY DEF DataInv, LinesInv
<1>2. PICK before : before = cache[set]
  OBVIOUS
<1>3. PICK after : after = ReplaceAt(updateLRU(before, tag), Len(before), line)
  OBVIOUS
<1>4. cache' = [cache EXCEPT ![set] = after]
  BY <1>2, <1>3 DEF Replace
<1>5. before \in Seq(DataLine) /\ IsCached(before, tag)
  BY <1>1, <1>2
<1>6. /\ Len(after) = Len(before) /\ FirstWay(before, tag) \in 1 .. Len(before)
      /\ before[FirstWay(before, tag)].tag = tag /\ after[Len(before)] = line
      /\ \A j \in 1 .. Len(before) - 1 :
            after[j] = before[IF j < FirstWay(before, tag) THEN j ELSE j + 1]
  BY <1>3, <1>5, ReplacedAt
<1>7. HitMovesTags(before, FirstWay(before, tag), after)
  BY <1>6 DEF HitMovesTags
<1> QED
  BY <1>1, <1>2, <1>4, <1>7

\* An access that the process survives moves the tags of one deque as it does in
\* Cache.
LEMMA AccessMovesTags ==
    ASSUME DataInv, NEW set \in Sets, NEW tag \in Tags, NEW data \in Data,
           memAccess(set, tag, data), ~aborted'
    PROVE  /\ \A s \in Sets \ {set} : cache'[s] = cache[s]
           /\ IsCached(cache[set], tag)
                => HitMovesTags(cache[set], FirstWay(cache[set], tag), cache'[set])
           /\ ~IsCached(cache[set], tag)
                => MissMovesTags(cache[set], tag, cache'[set])
PROOF
<1>1. /\ precompressionTable \in Seq(Data) /\ GoodSet(cache[set], precompressionTable)
      /\ cache \in [Sets -> Seq(DataLine)]
  BY DEF DataInv, LinesInv
<1>2. PICK before : before = cache[set]
  OBVIOUS
<1>3. before \in Seq(DataLine) /\ Len(before) <= Assoc
  BY <1>1, <1>2 DEF GoodSet
<1>4. CASE Miss(set, tag, data)
  <2>1. PICK line : line = NewLine(tag, data)
    OBVIOUS
  <2>2. line \in DataLine /\ line.tag = tag
    <3>1. GoodLine(line, precompressionTable)
      BY <1>1, <2>1, NewLineIsGood
    <3>2. line.tag = tag
      BY <2>1 DEF NewLine, PlainLine, precompressDatax
    <3> QED
      BY <3>1, <3>2 DEF GoodLine
  <2>3. PICK after : after = Append(IF Len(before) = Assoc THEN Tail(before) ELSE before, line)
    OBVIOUS
  <2>4. cache' = [cache EXCEPT ![set] = after] /\ ~IsCached(before, tag)
    BY <1>2, <1>4, <2>1, <2>3 DEF Miss
  <2>5. PICK gone : gone = IF Len(before) = Assoc THEN 1 ELSE 0
    OBVIOUS
  <2>6. /\ Len(after) = Len(before) + 1 - gone
        /\ after[Len(after)] = line
        /\ \A j \in 1 .. Len(before) - gone : after[j] = before[j + gone]
    BY <1>3, <2>2, <2>3, <2>5, InsertedAt
  <2>7. MissMovesTags(before, tag, after)
    BY <2>2, <2>5, <2>6 DEF MissMovesTags
  <2> QED
    BY <1>1, <1>2, <2>4, <2>7
<1>5. CASE Hit(set, tag, data)
  <2>1. IsCached(cache[set], tag)
    BY <1>5 DEF Hit
  <2>2. PICK line, plain : line = cache[set][FirstWay(cache[set], tag)]
                           /\ plain = PlainLine(tag, data)
    OBVIOUS
  <2>3. line \in DataLine /\ line.tag = tag
    <3>1. GoodLine(line, precompressionTable)
      BY <1>1, <2>1, <2>2, ResidentIsGood
    <3>2. before[FirstWay(before, tag)].tag = tag
      <4>1. IsCached(before, tag)
        BY <1>2, <2>1
      <4>2. PlainLine(tag, data) \in DataLine
        BY PlainLineType
      <4> QED
        BY <1>3, <4>1, <4>2, ReplacedAt
    <3> QED
      BY <1>2, <2>2, <3>1, <3>2 DEF GoodLine
  <2>4. plain \in DataLine /\ plain.tag = tag
    BY <2>2, PlainLineType DEF PlainLine
  <2>5. \E new \in DataLine : new.tag = tag /\ Replace(set, tag, new)
    <3>1. CASE HitReset(set, tag, data)
      BY <2>2, <2>4, <3>1 DEF HitReset
    <3>2. CASE HitFrequency(set, tag, line, data)
      <4>1. /\ [line EXCEPT !.data = data] \in DataLine
            /\ [line EXCEPT !.data = data].tag = tag
        BY <2>3 DEF DataLine
      <4> QED
        BY <2>2, <2>4, <3>2, <4>1 DEF HitFrequency
    <3>3. CASE HitKmeans(set, tag, line, data)
      <4>1. CASE Replace(set, tag, line)
        BY <2>3, <4>1
      <4>2. CASE line.mapping > -1
                 /\ Replace(set, tag,
                    [line EXCEPT !.data = data,
                                 !.datax = [j \in Positions |->
                                   Xor(data[j],
                                       precompressionTable[line.mapping + 1][j])]])
        <5>1. PICK new : new = [line EXCEPT !.data = data,
                                 !.datax = [j \in Positions |->
                                   Xor(data[j],
                                       precompressionTable[line.mapping + 1][j])]]
          OBVIOUS
        <5>2. GoodLine(new, precompressionTable)
          <6>1. GoodLine(line, precompressionTable) /\ ~ByFrequency
            BY <1>1, <2>1, <2>2, <3>3, ResidentIsGood DEF HitKmeans
          <6> QED
            BY <1>1, <4>2, <5>1, <6>1, KmeansHitIsGood
        <5>3. new \in DataLine /\ new.tag = tag
          BY <2>3, <5>1, <5>2 DEF GoodLine, DataLine
        <5> QED
          BY <4>2, <5>1, <5>3
      <4>3. CASE \E unknown \in Data :
                  Replace(set, tag, [line EXCEPT !.data = data, !.datax = unknown])
        <5>1. PICK unknown \in Data :
                  Replace(set, tag, [line EXCEPT !.data = data, !.datax = unknown])
          BY <4>3
        <5>2. /\ [line EXCEPT !.data = data, !.datax = unknown] \in DataLine
              /\ [line EXCEPT !.data = data, !.datax = unknown].tag = tag
          BY <2>3 DEF DataLine
        <5> QED
          BY <5>1, <5>2
      <4> QED
        BY <3>3, <4>1, <4>2, <4>3 DEF HitKmeans, Die
    <3> QED
      BY <1>5, <2>2, <3>1, <3>2, <3>3 DEF Hit
  <2>6. PICK new \in DataLine : new.tag = tag /\ Replace(set, tag, new)
    BY <2>5
  <2> QED
    BY <2>1, <2>6, ReplaceMovesTags
<1> QED
  BY <1>4, <1>5 DEF memAccess

\* An update moves nothing.
LEMMA UpdateKeepsTags ==
    ASSUME DataInv, updatePrecompressTable
    PROVE  \A s \in Sets :
              /\ Len(cache'[s]) = Len(cache[s])
              /\ \A i \in 1 .. Len(cache[s]) : cache'[s][i].tag = cache[s][i].tag
PROOF
<1>1. cache \in [Sets -> Seq(DataLine)]
  BY DEF DataInv, LinesInv
<1>2. ASSUME NEW table, NEW label, Install(table, MappedSets(cache, label)),
             NEW s \in Sets
      PROVE  /\ Len(cache'[s]) = Len(cache[s])
             /\ \A i \in 1 .. Len(cache[s]) : cache'[s][i].tag = cache[s][i].tag
  <2>1. PICK before, mapped : before = cache /\ mapped = MappedSets(before, label)
    OBVIOUS
  <2>2. precompressCache(mapped, table) = [t \in Sets |-> InstalledSet(before[t], label[t], table)]
    BY <2>1, PrecompressCacheProperties
  <2>3. cache' = precompressCache(mapped, table)
    BY <1>2, <2>1 DEF Install
  <2>4. cache'[s] = InstalledSet(before[s], label[s], table)
    BY <2>2, <2>3
  <2>5. PICK set, l : set = before[s] /\ l = label[s]
    OBVIOUS
  <2>6. set \in Seq(DataLine) /\ Len(set) \in Nat /\ DOMAIN set = 1 .. Len(set)
        /\ \A i \in 1 .. Len(set) : set[i] \in DataLine
    BY <1>1, <2>1, <2>5, LenProperties, ElementOfSeq
  <2>7. PICK after : after = InstalledSet(set, l, table)
    OBVIOUS
  <2>8. ASSUME NEW i \in 1 .. Len(set)
        PROVE  after[i].tag = set[i].tag
    <3>1. after[i] = PrecompressedLine([set[i] EXCEPT !.mapping = l[i]], table)
      BY <2>6, <2>7 DEF InstalledSet
    <3>2. PICK line : line = [set[i] EXCEPT !.mapping = l[i]]
      OBVIOUS
    <3>3. line.tag = set[i].tag /\ set[i] \in DataLine
      BY <2>6, <3>2 DEF DataLine
    <3>4. PrecompressedLine(line, table).tag = line.tag
      BY <3>2, <3>3 DEF PrecompressedLine, precompressDatax, DataLine
    <3> QED
      BY <3>1, <3>2, <3>3, <3>4
  <2>9. DOMAIN after = 1 .. Len(set) /\ after = [i \in 1 .. Len(set) |-> after[i]]
    BY <2>6, <2>7 DEF InstalledSet
  <2>10. Len(after) = Len(set)
    <3>1. after \in [1 .. Len(set) -> {after[i] : i \in 1 .. Len(set)}]
      BY <2>9
    <3> QED
      BY <2>6, <3>1, FunctionIsSeq
  <2> QED
    BY <2>1, <2>4, <2>5, <2>7, <2>8, <2>10
<1>3. ASSUME NEW table, Install(table, Remapped(cache, table))
      PROVE  \E label : Install(table, MappedSets(cache, label))
  <2>1. PICK label : label = [s \in Sets |-> [i \in DOMAIN cache[s] |->
                              findPrecompressionEntry(table, cache[s][i].data)]]
    OBVIOUS
  <2>2. Remapped(cache, table) = MappedSets(cache, label)
    BY <2>1 DEF Remapped, MappedSets
  <2> QED
    BY <1>3, <2>2
<1>4. CASE UpdateInfinite
  BY <1>2, <1>3, <1>4, UpdateInfiniteInstalls
<1>5. CASE UpdateFinite
  BY <1>2, <1>3, <1>5, UpdateFiniteInstalls
<1>6. CASE UpdateNeither
  BY <1>2, <1>3, <1>6 DEF UpdateNeither
<1>7. CASE UpdateKmeans /\ ~Die
  BY <1>2, <1>7, UpdateKmeansInstalls
<1>8. CASE Die
  BY <1>8 DEF Die
<1> QED
  BY <1>4, <1>5, <1>6, <1>7, <1>8 DEF updatePrecompressTable

----------------------------------------------------------------------------
(* What the history says of the frequency tables.                          *)

\* The history moves similar data to the back ...
LEMMA RecentOfSimilar ==
    ASSUME NEW seq \in Seq(Data), Dissimilar(seq), NEW data \in Data,
           NEW p \in DOMAIN seq, IsSimilar(seq[p], data)
    PROVE  RemoveFirstMatch(seq, LAMBDA d : IsSimilar(d, data)) = RemoveAt(seq, p)
PROOF
<1> DEFINE I == {i \in 1 .. Len(seq) : IsSimilar(seq[i], data)}
<1>1. DOMAIN seq = 1 .. Len(seq) /\ Len(seq) \in Nat
  BY LenProperties
<1>2. I = {p}
  BY <1>1, SimilarIsEquivalence DEF Dissimilar
<1>3. I \in SUBSET Nat /\ I # {}
  BY <1>1, <1>2
<1>4. Min(I) \in I
  <2> HIDE DEF I
  <2> QED
    BY <1>3, MinExists
<1>5. Min(I) = p
  BY <1>2, <1>4
<1>6. RemoveFirstMatch(seq, LAMBDA d : IsSimilar(d, data))
        = IF I # {} THEN RemoveAt(seq, Min(I)) ELSE seq
  BY DEF RemoveFirstMatch, SelectInSeq
<1> HIDE DEF I
<1> QED
  BY <1>3, <1>5, <1>6

\* ... and adds new data.
LEMMA RecentOfNew ==
    ASSUME NEW seq \in Seq(Data), NEW data \in Data,
           \A i \in DOMAIN seq : ~IsSimilar(seq[i], data)
    PROVE  RemoveFirstMatch(seq, LAMBDA d : IsSimilar(d, data)) = seq
PROOF
<1>1. DOMAIN seq = 1 .. Len(seq)
  BY LenProperties
<1> QED
  BY <1>1 DEF RemoveFirstMatch

\* The finite table is the end of the history.
IsEndOf(lines, seq) ==
    /\ lines \in Seq(Data)
    /\ Len(lines) = IF Len(seq) < Entries THEN Len(seq) ELSE Entries
    /\ \A j \in 1 .. Len(lines) : lines[j] = seq[Len(seq) - Len(lines) + j]

\* An access to similar data that the table still holds ...
LEMMA EndOfHeld ==
    ASSUME NEW seq \in Seq(Data), Dissimilar(seq), NEW lines, IsEndOf(lines, seq),
           NEW data \in Data, NEW p \in DOMAIN seq, IsSimilar(seq[p], data),
           p > Len(seq) - Len(lines)
    PROVE  IsEndOf(CountFinite(lines, data), Append(RemoveAt(seq, p), data))
PROOF
<1> DEFINE n == Len(seq)
           m == Len(lines)
           q == p - (n - m)
           after == Append(RemoveAt(seq, p), data)
           kept == Append(RemoveAt(lines, q), data)
<1>0. /\ lines \in Seq(Data) /\ (m = IF n < Entries THEN n ELSE Entries)
      /\ \A j \in 1 .. m : lines[j] = seq[n - m + j]
  BY DEF IsEndOf
<1>1. /\ DOMAIN seq = 1 .. n /\ DOMAIN lines = 1 .. m
      /\ n \in Nat /\ m \in Nat /\ p \in 1 .. n /\ Entries \in Nat \ {0}
  BY <1>0, LenProperties, FrequencyAssumption
<1>3. p > n - m
  OBVIOUS
<1>4. /\ after \in Seq(Data) /\ Len(after) = n /\ after[n] = data
      /\ \A j \in 1 .. n - 1 : after[j] = IF j < p THEN seq[j] ELSE seq[j + 1]
  BY MovedToBack
<1> HIDE DEF n, m, after
<1>2. m <= n
  BY <1>0, <1>1
<1>5. q \in 1 .. m /\ n - m + q = p /\ n - m \in Nat
  BY <1>1, <1>2, <1>3
<1>6. \A j \in 1 .. m : n - m + j \in 1 .. n
  BY <1>1, <1>2
<1>7. Dissimilar(lines)
  <2> SUFFICES ASSUME NEW i \in 1 .. m, NEW j \in 1 .. m, IsSimilar(lines[i], lines[j])
               PROVE  i = j
    BY <1>1 DEF Dissimilar
  <2>1. IsSimilar(seq[n - m + i], seq[n - m + j])
    BY <1>0
  <2>2. n - m + i = n - m + j
    BY <1>1, <1>6, <2>1 DEF Dissimilar
  <2> QED
    BY <1>1, <2>2
<1>8. IsSimilar(lines[q], data)
  BY <1>0, <1>5
<1> HIDE DEF q
<1>9. CountFinite(lines, data) = kept
  BY <1>0, <1>1, <1>5, <1>7, <1>8, CountFiniteOfSimilar
<1>10. /\ kept \in Seq(Data) /\ Len(kept) = m /\ kept[m] = data
       /\ \A j \in 1 .. m - 1 : kept[j] = IF j < q THEN lines[j] ELSE lines[j + 1]
  <2>1. q \in DOMAIN lines
    BY <1>1, <1>5
  <2>2. /\ kept \in Seq(Data) /\ Len(kept) = Len(lines) /\ kept[Len(lines)] = data
        /\ \A j \in 1 .. Len(lines) - 1 :
              kept[j] = IF j < q THEN lines[j] ELSE lines[j + 1]
    BY <1>0, <1>7, <1>8, <2>1, MovedToBack
  <2> QED
    BY <2>2 DEF m
<1> HIDE DEF kept
<1>11. ASSUME NEW j \in 1 .. m
       PROVE  kept[j] = after[n - m + j]
  <2>1. CASE j = m
    <3>1. n - m + j = n
      BY <1>1, <2>1
    <3> QED
      BY <1>4, <1>10, <2>1, <3>1
  <2>2. CASE j # m
    <3>1. j \in 1 .. m - 1 /\ j + 1 \in 1 .. m /\ n - m + j \in 1 .. n - 1
      BY <1>1, <1>5, <2>2
    <3>2. (j < q <=> n - m + j < p) /\ n - m + (j + 1) = n - m + j + 1
      BY <1>1, <1>5
    <3>3. lines[j] = seq[n - m + j] /\ lines[j + 1] = seq[n - m + j + 1]
      BY <1>0, <3>1, <3>2
    <3> QED
      BY <1>4, <1>10, <3>1, <3>2, <3>3
  <2> QED
    BY <2>1, <2>2
<1>12. IsEndOf(kept, after)
  BY <1>0, <1>4, <1>10, <1>11 DEF IsEndOf, n, m
<1> QED
  BY <1>9, <1>12 DEF after

\* ... or does not hold any more, or never saw.
LEMMA EndOfOther ==
    ASSUME NEW seq \in Seq(Data), Dissimilar(seq), NEW lines, IsEndOf(lines, seq),
           NEW data \in Data, NEW rest \in Seq(Data),
           \A i \in 1 .. Len(seq) : i > Len(seq) - Len(lines) => ~IsSimilar(seq[i], data),
           \/ rest = seq
           \/ \E p \in 1 .. Len(seq) : rest = RemoveAt(seq, p) /\ p <= Len(seq) - Len(lines)
    PROVE  IsEndOf(CountFinite(lines, data), Append(rest, data))
PROOF
<1> DEFINE n == Len(seq)
           m == Len(lines)
           r == Len(rest)
           gone == IF m = Entries THEN 1 ELSE 0
           room == Room(lines)
           after == Append(rest, data)
           kept == Append(room, data)
<1>0. /\ lines \in Seq(Data) /\ (m = IF n < Entries THEN n ELSE Entries)
      /\ \A j \in 1 .. m : lines[j] = seq[n - m + j]
  BY DEF IsEndOf
<1>1. /\ DOMAIN seq = 1 .. n /\ DOMAIN lines = 1 .. m
      /\ n \in Nat /\ m \in Nat /\ r \in Nat /\ Entries \in Nat \ {0}
  BY <1>0, LenProperties, FrequencyAssumption
<1>2. m <= n /\ m <= Entries
  <2> HIDE DEF n, m
  <2> QED
    BY <1>0, <1>1
<1>3. /\ room \in Seq(Data) /\ Len(room) = m - gone
      /\ \A j \in 1 .. m - gone : room[j] = lines[j + gone]
  BY <1>0, <1>1, <1>2, RoomProperties
<1>4. CountFinite(lines, data) = kept
  <2>1. ASSUME NEW i \in 1 .. m
        PROVE  ~IsSimilar(lines[i], data)
    <3>1. n - m + i \in 1 .. n /\ n - m + i > n - m
      <4> HIDE DEF n, m
      <4> QED
        BY <1>1, <1>2
    <3> QED
      BY <1>0, <3>1
  <2> QED
    BY <1>0, <1>1, <2>1, CountFiniteOfNew DEF Room
<1>5. /\ kept \in Seq(Data) /\ Len(kept) = Len(room) + 1 /\ kept[Len(room) + 1] = data
      /\ \A j \in 1 .. Len(room) : kept[j] = room[j]
  BY <1>3, AppendProperties
<1>6. /\ after \in Seq(Data) /\ Len(after) = r + 1 /\ after[r + 1] = data
      /\ \A j \in 1 .. r : after[j] = rest[j]
  BY AppendProperties
<1>7. /\ r \in {n - 1, n} /\ (r = n - 1 => n - m >= 1)
      /\ \A j \in 1 .. r : j > r - m => rest[j] = seq[j + (n - r)]
  <2>1. CASE rest = seq
    <3>1. \A j \in 1 .. n : j + (n - n) = j
      BY <1>1
    <3>2. r = n /\ n \in Nat
      BY <1>1, <2>1
    <3> HIDE DEF n, m, r
    <3>3. n # n - 1
      BY <3>2
    <3> QED
      BY <2>1, <3>1, <3>2, <3>3
  <2>2. ASSUME NEW p \in 1 .. n, rest = RemoveAt(seq, p), p <= n - m
        PROVE  <1>7!1 /\ <1>7!2
    <3>1. r = n - 1 /\ \A j \in 1 .. n - 1 : rest[j] = IF j < p THEN seq[j] ELSE seq[j + 1]
      BY <2>2, RemoveAtProperties
    <3> HIDE DEF n, m, r
    <3>2. n - r = 1 /\ n - m >= 1
      BY <1>1, <2>2, <3>1
    <3>3. \A j \in 1 .. r : j > r - m => ~(j < p)
      BY <1>1, <2>2, <3>1
    <3> QED
      BY <1>1, <3>1, <3>2, <3>3
  <2> QED
    BY <2>1, <2>2
<1> HIDE DEF n, m, r, kept, after, room
<1>8. /\ gone \in {0, 1} /\ gone <= m /\ m - gone + 1 \in 1 .. r + 1
      /\ (m - gone + 1 = IF r + 1 < Entries THEN r + 1 ELSE Entries)
  <2>1. CASE m = Entries
    <3>1. gone = 1 /\ m \in Nat /\ n \in Nat /\ m >= 1 /\ m <= n
      BY <1>0, <1>1, <1>2, <2>1
    <3>2. r \in {n - 1, n} /\ (r = n - 1 => n - m >= 1)
      BY <1>7
    <3>3. r \in Nat /\ r >= m
      BY <3>1, <3>2
    <3> HIDE DEF gone
    <3> QED
      BY <2>1, <3>1, <3>3
  <2>2. CASE m # Entries
    <3>1. m = n /\ n < Entries /\ gone = 0
      BY <1>0, <1>1, <2>2
    <3>2. r = n
      BY <1>1, <1>7, <3>1
    <3> QED
      BY <1>1, <3>1, <3>2
  <2> QED
    BY <2>1, <2>2
<1> HIDE DEF gone
<1>9. ASSUME NEW j \in 1 .. m - gone + 1
      PROVE  kept[j] = after[(r + 1) - (m - gone + 1) + j]
  <2>1. CASE j = m - gone + 1
    <3>1. (r + 1) - (m - gone + 1) + j = r + 1
      BY <1>1, <1>8, <2>1
    <3> QED
      BY <1>3, <1>5, <1>6, <2>1, <3>1
  <2>2. CASE j # m - gone + 1
    <3>1. j \in 1 .. m - gone /\ j + gone \in 1 .. m
      BY <1>1, <1>8, <2>2
    <3>2. kept[j] = seq[n - m + (j + gone)]
      BY <1>0, <1>3, <1>5, <3>1
    <3> DEFINE k == (r + 1) - (m - gone + 1) + j
    <3>3. k \in 1 .. r /\ k > r - m /\ k + (n - r) = n - m + (j + gone)
      BY <1>1, <1>2, <1>7, <1>8, <3>1
    <3> HIDE DEF k
    <3>4. after[k] = seq[k + (n - r)]
      BY <1>6, <1>7, <3>3
    <3> QED
      BY <3>2, <3>3, <3>4 DEF k
  <2> QED
    BY <2>1, <2>2
<1>10. Len(kept) = m - gone + 1
  BY <1>3, <1>5
<1>11. IsEndOf(kept, after)
  BY <1>5, <1>6, <1>8, <1>9, <1>10 DEF IsEndOf
<1> QED
  BY <1>4, <1>11 DEF after

\* Data of an access moves to the end of both.
LEMMA EndOfRecent ==
    ASSUME NEW seq \in Seq(Data), Dissimilar(seq), NEW lines, IsEndOf(lines, seq),
           NEW data \in Data
    PROVE  LET after == Append(RemoveFirstMatch(seq, LAMBDA d : IsSimilar(d, data)), data)
           IN  /\ after \in Seq(Data) /\ Dissimilar(after)
               /\ IsEndOf(CountFinite(lines, data), after)
PROOF
<1> DEFINE rest == RemoveFirstMatch(seq, LAMBDA d : IsSimilar(d, data))
           after == Append(rest, data)
<1>1. DOMAIN seq = 1 .. Len(seq) /\ Len(seq) \in Nat /\ Len(lines) \in Nat
  BY LenProperties DEF IsEndOf
<1>2. ASSUME NEW p \in DOMAIN seq, IsSimilar(seq[p], data)
      PROVE  /\ after \in Seq(Data) /\ Dissimilar(after)
             /\ IsEndOf(CountFinite(lines, data), after)
  <2>1. rest = RemoveAt(seq, p)
    BY <1>2, RecentOfSimilar
  <2> HIDE DEF rest
  <2>2. after \in Seq(Data) /\ Dissimilar(after)
    BY <1>2, <2>1, MovedToBack
  <2>3. CASE p > Len(seq) - Len(lines)
    BY <1>2, <2>1, <2>3, EndOfHeld, <2>2
  <2>4. CASE ~(p > Len(seq) - Len(lines))
    <3>1. rest \in Seq(Data)
      BY <1>1, <1>2, <2>1, RemoveAtProperties
    <3>2. \A i \in 1 .. Len(seq) : i > Len(seq) - Len(lines) => ~IsSimilar(seq[i], data)
      BY <1>1, <1>2, <2>4, SimilarIsEquivalence DEF Dissimilar
    <3>3. p \in 1 .. Len(seq) /\ p <= Len(seq) - Len(lines)
      BY <1>1, <1>2, <2>4
    <3> QED
      BY <2>1, <2>2, <3>1, <3>2, <3>3, EndOfOther
  <2> QED
    BY <2>3, <2>4
<1>3. ASSUME \A i \in DOMAIN seq : ~IsSimilar(seq[i], data)
      PROVE  /\ after \in Seq(Data) /\ Dissimilar(after)
             /\ IsEndOf(CountFinite(lines, data), after)
  <2>1. rest = seq
    BY <1>3, RecentOfNew
  <2> HIDE DEF rest
  <2>2. after \in Seq(Data) /\ Dissimilar(after)
    BY <1>3, <2>1, AddedToBack
  <2> QED
    BY <1>1, <1>3, <2>1, <2>2, EndOfOther
<1> QED
  BY <1>2, <1>3

\* The history only watches.
LEMMA HistoryStep ==
    ASSUME [HistoryNext]_historyVars
    PROVE  [Next]_vars
BY DEF HistoryNext, historyVars, Next, vars

\* The history variables of recency and idleness change no behaviour of
\* Precompression, so all of the above holds of HistorySpec.
THEOREM HistoryObserves == HistorySpec => Spec
PROOF
<1>1. HistoryInit => Init
  BY DEF HistoryInit
<1>2. [HistoryNext]_historyVars => [Next]_vars
  BY HistoryStep
<1> QED
  BY <1>1, <1>2, PTL DEF HistorySpec, Spec

RecentInv ==
    /\ recent \in Seq(Data) /\ Dissimilar(recent)
    /\ IsEndOf(frequentLines, recent)

LEMMA RecentInvInit ==
    ASSUME HistoryInit
    PROVE  RecentInv
PROOF
<1>1. \A S : << >> \in Seq(S) /\ Len(<< >>) = 0 /\ DOMAIN << >> = {}
  BY EmptySeq
<1>2. Entries \in Nat \ {0} /\ 1 .. 0 = {}
  BY FrequencyAssumption
<1>3. 0 < Entries
  BY <1>2
<1> QED
  BY <1>1, <1>2, <1>3 DEF HistoryInit, Init, RecentInv, Dissimilar, IsEndOf

LEMMA RecentInvNext ==
    ASSUME DataInv, RecentInv, [HistoryNext]_historyVars
    PROVE  RecentInv'
PROOF
<1>1. ASSUME UNCHANGED <<recent, frequentLines>>
      PROVE  RecentInv'
  BY <1>1 DEF RecentInv, Dissimilar, IsEndOf
<1>2. ASSUME NEW set \in Sets, NEW tag \in Tags, NEW data \in TraceData(options),
             memAccess(set, tag, data) /\ ObserveAccess(data)
      PROVE  RecentInv'
  <2>1. data \in Data
    BY PrecompressionAssumption DEF DataInv
  <2>2. CASE ~(ByFrequency /\ options.infiniteFreq = "n")
    BY <1>1, <1>2, <2>2 DEF memAccess, Hit, Miss, HitReset, HitFrequency, HitKmeans,
       Access, Die, tables, updateFrequencyTable, ObserveAccess
  <2>3. CASE ByFrequency /\ options.infiniteFreq = "n"
    <3>1. Access(data)
      BY <1>2, <2>3 DEF memAccess, Hit, Miss, HitReset, HitFrequency, HitKmeans
    <3>2. frequentLines' = CountFinite(frequentLines, data)
      BY <2>3, <3>1 DEF Access, updateFrequencyTable
    <3>3. PICK seq, lines : seq = recent /\ lines = frequentLines
      OBVIOUS
    <3>4. PICK after, kept :
             /\ after = Append(RemoveFirstMatch(seq, LAMBDA d : IsSimilar(d, data)), data)
             /\ kept = CountFinite(lines, data)
      OBVIOUS
    <3>5. seq \in Seq(Data) /\ Dissimilar(seq) /\ IsEndOf(lines, seq)
      BY <3>3 DEF RecentInv
    <3>6. after \in Seq(Data) /\ Dissimilar(after) /\ IsEndOf(kept, after)
      BY <2>1, <3>4, <3>5, EndOfRecent
    <3>7. recent' = after /\ frequentLines' = kept
      BY <1>2, <2>3, <3>2, <3>3, <3>4 DEF ObserveAccess
    <3> QED
      BY <3>6, <3>7 DEF RecentInv, Dissimilar, IsEndOf
  <2> QED
    BY <2>2, <2>3
<1>3. ASSUME updatePrecompressTable, ObserveUpdate
      PROVE  RecentInv'
  BY <1>1, <1>3 DEF updatePrecompressTable, UpdateInfinite, UpdateFinite, UpdateNeither,
                    UpdateKmeans, Die, tables, ObserveUpdate
<1>4. CASE UNCHANGED historyVars
  BY <1>1, <1>4 DEF historyVars
<1> QED
  BY <1>2, <1>3, <1>4 DEF HistoryNext

\* The finite table is the most recent data, although its update erases from the
\* deque and pushes to it while it walks over its indices.
THEOREM FiniteTableIsRecent == HistorySpec => []FrequentLinesAreRecent
PROOF
<1>1. HistoryInit => RecentInv
  BY RecentInvInit
<1>2. DataInv /\ RecentInv /\ [HistoryNext]_historyVars => RecentInv'
  BY RecentInvNext
<1>3. RecentInv => FrequentLinesAreRecent
  <2> SUFFICES ASSUME RecentInv
               PROVE  FrequentLinesAreRecent
    OBVIOUS
  <2> DEFINE depth == IF Len(recent) < Entries THEN Len(recent) ELSE Entries
             n == Len(recent)
  <2>1. /\ recent \in Seq(Data) /\ frequentLines \in Seq(Data) /\ Len(frequentLines) = depth
        /\ \A j \in 1 .. depth : frequentLines[j] = recent[n - depth + j]
    BY DEF RecentInv, IsEndOf
  <2>2. DOMAIN recent = 1 .. n /\ n \in Nat /\ depth \in Nat /\ depth <= n
    <3>1. DOMAIN recent = 1 .. n /\ n \in Nat /\ Entries \in Nat
      BY <2>1, LenProperties, FrequencyAssumption
    <3> QED
      BY <3>1
  <2>3. PICK seq, d : seq = recent /\ d = depth
    OBVIOUS
  <2> HIDE DEF depth
  <2>4. n - d + 1 \in Nat /\ n - (n - d + 1) + 1 = d /\ n = Len(seq)
        /\ \A j \in 1 .. d : (n - d + 1) + j - 1 = n - d + j
    BY <2>2, <2>3
  <2>5. PICK end : end = SubSeq(seq, n - d + 1, n)
    OBVIOUS
  <2>6. end \in Seq(Data) /\ Len(end) = d /\ \A j \in 1 .. d : end[j] = seq[n - d + j]
    <3>1. PICK a, b : a = n - d + 1 /\ b = n
      OBVIOUS
    <3>2. a \in Nat /\ b \in Nat /\ a \in Int /\ b \in Int /\ b - a + 1 = d /\ d \in Nat /\ a >= 1
      BY <2>2, <2>3, <2>4, <3>1
    <3>3. \A i \in a .. b : seq[i] \in Data
      <4>1. \A i \in a .. b : i \in 1 .. Len(seq)
        BY <2>2, <2>4, <3>1, <3>2
      <4> QED
        BY <2>1, <2>3, <4>1, ElementOfSeq
    <3>4. a <= b <=> d >= 1
      BY <3>2
    <3>5. /\ SubSeq(seq, a, b) \in Seq(Data)
          /\ Len(SubSeq(seq, a, b)) = IF a <= b THEN b - a + 1 ELSE 0
          /\ \A i \in 1 .. b - a + 1 : SubSeq(seq, a, b)[i] = seq[a + i - 1]
      BY <2>1, <2>3, <3>2, <3>3, SubSeqProperties
    <3> QED
      BY <2>4, <2>5, <3>1, <3>2, <3>4, <3>5
  <2>7. frequentLines = end
    <3>1. PICK lines : lines = frequentLines
      OBVIOUS
    <3>2. lines \in Seq(Data) /\ Len(lines) = Len(end)
          /\ \A j \in 1 .. Len(lines) : lines[j] = end[j]
      BY <2>1, <2>3, <2>6, <3>1
    <3>3. lines = end
      BY <2>6, <3>2, SeqEqual
    <3> QED
      BY <3>1, <3>3
  <2> QED
    BY <2>3, <2>5, <2>7 DEF FrequentLinesAreRecent, depth
<1> QED
  BY <1>1, <1>2, <1>3, DataInvariant, HistoryObserves, PTL DEF HistorySpec

----------------------------------------------------------------------------
(* What the counters of an entry stand for.                                *)

\* An entry whose frequency is as the last update noted it was idle for all the
\* updates that same_counter counts, and for the one that noted the frequency.
Noted(entry, waits) ==
    /\ entry.data \in DOMAIN waits
    /\ entry.freqComp <= entry.freq
    /\ IsUnchanged(entry) => waits[entry.data] >= entry.sameCounter + 1

\* Every entry survives an access, in good order.
KeptWhenCounted(table, after, now) ==
    /\ \A e \in Range(after) : Noted(e, now)
    /\ \A e \in Range(table) : \E a \in Range(after) : a.data = e.data

\* An access puts an end to the idleness of its data, and changes its frequency.
LEMMA NotedWhenCounted ==
    ASSUME NEW D, NEW waits \in [D -> Nat], NEW data \in D, data \in Data,
           NEW table \in Seq(Entry), \A e \in Range(table) : Noted(e, waits)
    PROVE  KeptWhenCounted(table, CountInfinite(table, data), [waits EXCEPT ![data] = 0])
PROOF
<1> DEFINE n == Len(table)
           new == [data |-> data, freq |-> 1, freqComp |-> 0, sameCounter |-> 0]
           after == CountInfinite(table, data)
           w == [waits EXCEPT ![data] = 0]
<1>1. n \in Nat /\ DOMAIN table = 1 .. n /\ \A i \in 1 .. n : table[i] \in Entry
  BY LenProperties, ElementOfSeq
<1>2. DOMAIN w = D /\ DOMAIN waits = D /\ \A d \in D : d # data => w[d] = waits[d]
  OBVIOUS
<1> HIDE DEF w, n
<1>3. \A i \in 1 .. n : Noted(table[i], waits)
  BY <1>1 DEF Range
<1>4. ASSUME NEW e \in Entry, Noted(e, waits), e.data # data
      PROVE  Noted(e, w)
  BY <1>2, <1>4 DEF Noted
<1>5. ASSUME NEW e \in Entry, Noted(e, waits)
      PROVE  Noted([e EXCEPT !.freq = @ + 1], w)
  <2>1. PICK c : c = [e EXCEPT !.freq = @ + 1]
    OBVIOUS
  <2>2. e.freq \in Nat /\ e.freqComp \in Nat
    BY DEF Entry
  <2>3. c.data = e.data /\ c.freq = e.freq + 1 /\ c.freqComp = e.freqComp
    BY <2>1 DEF Entry
  <2>4. c.freqComp <= c.freq /\ c.freq # c.freqComp
    BY <1>5, <2>2, <2>3 DEF Noted
  <2>5. Noted(c, w)
    BY <1>2, <1>5, <2>3, <2>4 DEF Noted, IsUnchanged
  <2> QED
    BY <2>1, <2>5
<1>6. CASE \E i \in DOMAIN table : table[i].data = data
  <2>1. after = [i \in 1 .. n |-> IF table[i].data = data
                                  THEN [table[i] EXCEPT !.freq = @ + 1]
                                  ELSE table[i]]
    BY <1>1, <1>6 DEF CountInfinite
  <2>2. \A i \in 1 .. n : [table[i] EXCEPT !.freq = @ + 1].data = table[i].data
    BY <1>1, CountedEntry
  <2>3. DOMAIN after = 1 .. n /\ \A i \in 1 .. n : after[i].data = table[i].data
    BY <2>1, <2>2
  <2>4. ASSUME NEW i \in 1 .. n
        PROVE  Noted(after[i], w)
    <3>1. CASE table[i].data = data
      <4>1. after[i] = [table[i] EXCEPT !.freq = @ + 1]
        BY <2>1, <3>1
      <4> HIDE DEF after
      <4> QED
        BY <1>1, <1>3, <1>5, <4>1
    <3>2. CASE table[i].data # data
      BY <1>1, <1>3, <1>4, <2>1, <3>2
    <3> QED
      BY <3>1, <3>2
  <2> HIDE DEF after
  <2> QED
    BY <1>1, <2>3, <2>4 DEF Range, KeptWhenCounted, after, w
<1>7. CASE ~ \E i \in DOMAIN table : table[i].data = data
  <2>1. after = Append(table, new)
    BY <1>7 DEF CountInfinite
  <2>2. new \in Entry /\ new.data = data /\ new.freq = 1 /\ new.freqComp = 0
    BY DEF Entry
  <2> HIDE DEF after, new
  <2>3. /\ after \in Seq(Entry) /\ Len(after) = n + 1 /\ after[n + 1] = new
        /\ \A i \in 1 .. n : after[i] = table[i]
    BY <1>1, <2>1, <2>2, AppendProperties DEF n
  <2>4. DOMAIN after = 1 .. n + 1
    BY <2>3, LenProperties
  <2>5. Noted(new, w)
    BY <1>2, <2>2 DEF Noted, IsUnchanged
  <2>6. \A i \in 1 .. n : Noted(after[i], w)
    BY <1>1, <1>3, <1>4, <1>7, <2>3
  <2>7. \A i \in 1 .. n + 1 : Noted(after[i], w)
    <3>1. \A i \in 1 .. n + 1 : i \in 1 .. n \/ i = n + 1
      BY <1>1
    <3> QED
      BY <2>3, <2>5, <2>6, <3>1
  <2>8. \A i \in 1 .. n : i \in 1 .. n + 1 /\ after[i].data = table[i].data
    BY <1>1, <2>3
  <2> QED
    BY <1>1, <2>4, <2>7, <2>8 DEF Range, KeptWhenCounted, after, w
<1> QED
  BY <1>6, <1>7

\* An update counts the idleness of an entry on.
LEMMA NotedWhenAged ==
    ASSUME NEW entry \in Entry, NEW D, NEW waits \in [D -> Nat], Noted(entry, waits),
           NEW later \in [D -> Nat], later[entry.data] = waits[entry.data] + 1
    PROVE  Noted(Age(entry), later)
PROOF
<1>1. entry.data \in D /\ waits[entry.data] \in Nat /\ entry.sameCounter \in Nat
      /\ entry.freq \in Nat
  BY DEF Entry, Noted
<1>2. PICK aged : aged = Age(entry)
  OBVIOUS
<1>3. /\ aged.data = entry.data /\ aged.freq = entry.freq /\ aged.freqComp = entry.freq
      /\ aged.sameCounter = IF IsUnchanged(entry) THEN entry.sameCounter + 1 ELSE 0
  BY <1>2, AgedEntry
<1>4. later[entry.data] >= aged.sameCounter + 1
  BY <1>1, <1>3 DEF Noted
<1>5. aged.freqComp <= aged.freq
  BY <1>1, <1>3
<1>6. Noted(aged, later)
  BY <1>1, <1>3, <1>4, <1>5 DEF Noted
<1> QED
  BY <1>2, <1>6

IdleInv ==
    /\ idle \in [TraceData(options) -> Nat]
    /\ ~(ByFrequency /\ options.infiniteFreq = "y") => infiniteFrequentLines = << >>
    /\ \A entry \in Range(infiniteFrequentLines) : Noted(entry, idle)

\* Every entry survives, or an update erased an idle one and left enough others.
KeptOrIdle(before, after, waits) ==
    \A entry \in Range(before) :
       \/ \E a \in Range(after) : a.data = entry.data
       \/ waits[entry.data] > FrequencyThreshold /\ Len(after) >= Entries

\* An update of a table with such entries.
LEMMA NotedWhenUpdated ==
    ASSUME NEW table \in Seq(Entry), OnePerData(table), NEW D, NEW waits \in [D -> Nat],
           \A e \in Range(table) : Noted(e, waits),
           NEW later \in [D -> Nat],
           \A e \in Range(table) : later[e.data] = waits[e.data] + 1,
           NEW sorted \in Sorted(table)
    PROVE  /\ \A e \in Range(Decay(sorted)) : Noted(e, later)
           /\ KeptOrIdle(table, Decay(sorted), waits)
PROOF
<1>1. /\ sorted \in Seq(Entry) /\ OnePerData(sorted) /\ Len(sorted) = Len(table)
      /\ \A i \in 1 .. Len(sorted) : \E j \in 1 .. Len(table) : sorted[i] = table[j]
      /\ \A j \in 1 .. Len(table) : \E i \in 1 .. Len(sorted) : sorted[i] = table[j]
  BY SortedProperties
<1>2. PICK kept : kept = Decay(sorted)
  OBVIOUS
<1>3. /\ kept \in Seq(Entry)
      /\ \A i \in 1 .. Len(kept) : \E j \in 1 .. Len(sorted) : kept[i] = Age(sorted[j])
      /\ \A j \in 1 .. Len(sorted) \ Erased(sorted) :
            \E i \in 1 .. Len(kept) : kept[i] = Age(sorted[j])
  BY <1>1, <1>2, DecayProperties
<1>4. /\ DOMAIN table = 1 .. Len(table) /\ DOMAIN sorted = 1 .. Len(sorted)
      /\ DOMAIN kept = 1 .. Len(kept) /\ Len(sorted) \in Nat /\ Entries \in Nat
      /\ FrequencyThreshold \in Int
  BY <1>1, <1>3, LenProperties, FrequencyAssumption
<1>5. \A j \in 1 .. Len(sorted) : sorted[j] \in Entry /\ sorted[j] \in Range(table)
  <2>1. \A j \in 1 .. Len(sorted) : sorted[j] \in Entry
    BY <1>1, ElementOfSeq
  <2> QED
    BY <1>1, <1>4, <2>1 DEF Range
<1>6. \A j \in 1 .. Len(sorted) : Noted(Age(sorted[j]), later)
  BY <1>5, NotedWhenAged
<1>7. \A e \in Range(kept) : Noted(e, later)
  BY <1>3, <1>4, <1>6 DEF Range
<1>8. ASSUME NEW entry \in Range(table)
      PROVE  \/ \E a \in Range(kept) : a.data = entry.data
             \/ waits[entry.data] > FrequencyThreshold /\ Len(kept) >= Entries
  <2>1. PICK j \in 1 .. Len(sorted) : sorted[j] = entry
    BY <1>1, <1>4 DEF Range
  <2>2. CASE j \notin Erased(sorted)
    <3>1. PICK i \in 1 .. Len(kept) : kept[i] = Age(sorted[j])
      BY <1>3, <2>2
    <3>2. kept[i].data = entry.data
      BY <1>5, <2>1, <3>1, AgedEntry
    <3> QED
      BY <1>4, <3>2 DEF Range
  <2>3. CASE j \in Erased(sorted)
    <3>1. IsStagnant(entry)
      BY <2>1, <2>3 DEF Erased
    <3>2. Len(kept) >= Entries
      BY <1>1, <1>2, <2>3, DecayLeavesEnough
    <3>3. IsUnchanged(entry) /\ entry.sameCounter + 1 > FrequencyThreshold
      BY <1>5, <2>1, <3>1, AgedEntry DEF IsStagnant
    <3>4. waits[entry.data] >= entry.sameCounter + 1 /\ waits[entry.data] \in Nat
          /\ entry.sameCounter \in Nat
      BY <1>5, <1>8, <2>1, <3>3 DEF Noted, Entry
    <3> QED
      BY <1>4, <3>2, <3>3, <3>4
  <2> QED
    BY <2>2, <2>3
<1> QED
  BY <1>2, <1>7, <1>8 DEF KeptOrIdle

LEMMA IdleInvInit ==
    ASSUME HistoryInit
    PROVE  IdleInv
PROOF
<1>1. Range(<< >>) = {}
  BY EmptySeq DEF Range
<1> QED
  BY <1>1 DEF HistoryInit, Init, IdleInv

\* The action of ErasedOnlyIfIdle.
ErasesOnlyIdle ==
    \A entry \in Range(infiniteFrequentLines) :
       \/ \E after \in Range(infiniteFrequentLines') : after.data = entry.data
       \/ /\ mayUpdate /\ ~mayUpdate'
          /\ idle[entry.data] > FrequencyThreshold
          /\ Len(infiniteFrequentLines') >= Entries

LEMMA IdleInvNext ==
    ASSUME DataInv, IdleInv, [HistoryNext]_historyVars
    PROVE  IdleInv' /\ ErasesOnlyIdle
PROOF
<1>1. ASSUME UNCHANGED <<options, infiniteFrequentLines, idle>>
      PROVE  IdleInv' /\ ErasesOnlyIdle
  BY <1>1 DEF IdleInv, ErasesOnlyIdle, ByFrequency
<1>2. ASSUME NEW waits \in [TraceData(options) -> Nat], idle' = waits,
             UNCHANGED <<options, infiniteFrequentLines>>,
             infiniteFrequentLines = << >>
      PROVE  IdleInv' /\ ErasesOnlyIdle
  <2>1. Range(<< >>) = {}
    BY EmptySeq DEF Range
  <2> QED
    BY <1>2, <2>1 DEF IdleInv, ErasesOnlyIdle
<1>3. PICK table, waits : table = infiniteFrequentLines /\ waits = idle
  OBVIOUS
<1>4. /\ table \in Seq(Entry) /\ OnePerData(table)
      /\ waits \in [TraceData(options) -> Nat]
      /\ \A e \in Range(table) : Noted(e, waits)
      /\ options \in Options
  BY <1>3 DEF DataInv, FrequencyInv, IdleInv
<1>5. PICK D : D = TraceData(options)
  OBVIOUS
<1>6. ASSUME NEW set \in Sets, NEW tag \in Tags, NEW data \in TraceData(options),
             memAccess(set, tag, data) /\ ObserveAccess(data)
      PROVE  IdleInv' /\ ErasesOnlyIdle
  <2>1. data \in Data
    BY <1>4, PrecompressionAssumption
  <2>2. PICK now : now = [waits EXCEPT ![data] = 0]
    OBVIOUS
  <2>3. now \in [TraceData(options) -> Nat] /\ idle' = now
    BY <1>3, <1>4, <1>6, <2>2 DEF ObserveAccess
  <2>4. CASE ~(ByFrequency /\ options.infiniteFreq = "y")
    <3>1. infiniteFrequentLines = << >>
      BY <2>4 DEF IdleInv
    <3>2. UNCHANGED <<options, infiniteFrequentLines>>
      BY <1>6, <2>4 DEF memAccess, Hit, Miss, HitReset, HitFrequency, HitKmeans,
         Access, Die, tables, updateFrequencyTable
    <3> QED
      BY <1>2, <2>3, <3>1, <3>2
  <2>5. CASE ByFrequency /\ options.infiniteFreq = "y"
    <3>1. Access(data)
      BY <1>6, <2>5 DEF memAccess, Hit, Miss, HitReset, HitFrequency, HitKmeans
    <3>2. PICK after : after = CountInfinite(table, data)
      OBVIOUS
    <3>3. infiniteFrequentLines' = after /\ UNCHANGED options
      BY <1>3, <2>5, <3>1, <3>2 DEF Access, updateFrequencyTable
    <3>4. /\ \A e \in Range(after) : Noted(e, now)
          /\ \A e \in Range(table) : \E a \in Range(after) : a.data = e.data
      <4>1. waits \in [D -> Nat] /\ data \in D
        BY <1>4, <1>5, <1>6
      <4>2. KeptWhenCounted(table, CountInfinite(table, data), [waits EXCEPT ![data] = 0])
        BY <1>4, <2>1, <4>1, NotedWhenCounted
      <4> QED
        BY <2>2, <3>2, <4>2 DEF KeptWhenCounted
    <3>5. IdleInv'
      BY <2>3, <2>5, <3>3, <3>4 DEF IdleInv, ByFrequency
    <3>6. ErasesOnlyIdle
      BY <1>3, <3>3, <3>4 DEF ErasesOnlyIdle
    <3> QED
      BY <3>5, <3>6
  <2> QED
    BY <2>4, <2>5
<1>7. ASSUME updatePrecompressTable, ObserveUpdate
      PROVE  IdleInv' /\ ErasesOnlyIdle
  <2>1. PICK later : later = [b \in TraceData(options) |->
                  IF \E entry \in Range(infiniteFrequentLines) : entry.data = b
                  THEN idle[b] + 1
                  ELSE 0]
    OBVIOUS
  <2>2. idle' = later
    BY <1>7, <2>1 DEF ObserveUpdate
  <2>3. /\ later \in [TraceData(options) -> Nat]
        /\ \A e \in Range(table) : later[e.data] = waits[e.data] + 1
    <3>1. \A b \in TraceData(options) : idle[b] \in Nat
      BY <1>3, <1>4
    <3>2. \A b \in TraceData(options) :
             (IF \E entry \in Range(infiniteFrequentLines) : entry.data = b
              THEN idle[b] + 1 ELSE 0) \in Nat
      BY <3>1
    <3>3. later \in [TraceData(options) -> Nat]
      BY <2>1, <3>2
    <3>4. \A e \in Range(table) : e.data \in TraceData(options)
      BY <1>4 DEF Noted
    <3> QED
      BY <1>3, <2>1, <3>3, <3>4
  <2>4. CASE UpdateInfinite
    <3>1. PICK sorted \in Sorted(infiniteFrequentLines) : \E kept, new :
              /\ UpdatedTable(sorted, kept, new)
              /\ infiniteFrequentLines' = kept /\ UNCHANGED frequentLines
              /\ Install(new, Remapped(cache, new))
      BY <2>4, UpdateInfiniteInstalls
    <3>2. infiniteFrequentLines' = Decay(sorted) /\ mayUpdate' = FALSE /\ UNCHANGED options
      BY <3>1 DEF UpdatedTable, Install
    <3>3. /\ \A e \in Range(Decay(sorted)) : Noted(e, later)
          /\ KeptOrIdle(table, Decay(sorted), waits)
      <4>1. waits \in [D -> Nat] /\ later \in [D -> Nat] /\ sorted \in Sorted(table)
        BY <1>3, <1>4, <1>5, <2>3, <3>1
      <4> QED
        BY <1>4, <2>3, <4>1, NotedWhenUpdated
    <3>4. ByFrequency /\ options.infiniteFreq = "y" /\ mayUpdate
      BY <1>7, <2>4 DEF UpdateInfinite, updatePrecompressTable
    <3>5. IdleInv'
      BY <2>2, <2>3, <3>2, <3>3, <3>4 DEF IdleInv, ByFrequency
    <3>6. ErasesOnlyIdle
      BY <1>3, <3>2, <3>3, <3>4 DEF ErasesOnlyIdle, KeptOrIdle
    <3> QED
      BY <3>5, <3>6
  <2>5. CASE ~UpdateInfinite
    <3>1. UpdateFinite \/ UpdateNeither \/ UpdateKmeans
      BY <1>7, <2>5 DEF updatePrecompressTable
    <3>2. ~(ByFrequency /\ options.infiniteFreq = "y")
      BY <3>1 DEF UpdateFinite, UpdateNeither, UpdateKmeans
    <3>3. infiniteFrequentLines = << >>
      BY <3>2 DEF IdleInv
    <3>4. UNCHANGED <<options, infiniteFrequentLines>>
      BY <3>1 DEF UpdateFinite, UpdateNeither, UpdateKmeans, Install, Die, tables
    <3> QED
      BY <1>2, <2>2, <2>3, <3>3, <3>4
  <2> QED
    BY <2>4, <2>5
<1>8. CASE UNCHANGED historyVars
  BY <1>1, <1>8 DEF historyVars
<1> QED
  BY <1>6, <1>7, <1>8 DEF HistoryNext

\* Only an update erases an entry, only one that was idle for more updates than
\* frequency_threshold, and never so many that the precompression table cannot be
\* filled: same_counter counts what it stands for, whatever other entries are
\* erased around it.
THEOREM ErasedEntriesWereIdle == HistorySpec => ErasedOnlyIfIdle
PROOF
<1>1. HistoryInit => IdleInv
  BY IdleInvInit
<1>2. DataInv /\ IdleInv /\ [HistoryNext]_historyVars => IdleInv'
  BY IdleInvNext
<1>3. DataInv /\ IdleInv /\ [HistoryNext]_historyVars => [ErasesOnlyIdle]_historyVars
  BY IdleInvNext
<1>4. ErasedOnlyIfIdle <=> [][ErasesOnlyIdle]_historyVars
  BY DEF ErasedOnlyIfIdle, ErasesOnlyIdle
<1> QED
  BY <1>1, <1>2, <1>3, <1>4, DataInvariant, HistoryObserves, PTL DEF HistorySpec
=============================================================================
