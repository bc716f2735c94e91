--------------------------- MODULE AccountingProofs ---------------------------
(***************************************************************************)
(* Proofs about Accounting, for every process table and every series of    *)
(* values: the sums of the folds, the sorting behind the percentiles, and the*)
(* paths of parents that decide who owns a process. Induction over sets and*)
(* numbers is by the smallest counterexample (WFMin of WellFoundedInduction).*)
(***************************************************************************)
EXTENDS Accounting, FiniteSetTheorems, WellFoundedInduction, TLAPS

\* A non-empty set of naturals has a smallest member.
LEMMA SmallestNat ==
  ASSUME NEW T \in SUBSET Nat, T # {}
  PROVE  \E m \in T : \A v \in T : m <= v
<1> DEFINE Less == {ss \in Nat \X Nat : ss[1] < ss[2]}
<1>1. IsWellFoundedOn(Less, Nat)
  BY NatLessThanWellFounded DEF OpToRel
<1>2. \A m, v \in Nat : v < m => <<v, m>> \in Less
  OBVIOUS
<1> HIDE DEF Less
<1>3. PICK m \in T : \A v \in T : ~ (<<v, m>> \in Less)
  BY <1>1, WFMin
<1>4. ASSUME NEW v \in T PROVE m <= v
  <2>1. ~ (v < m)
    BY <1>2, <1>3
  <2> QED BY <2>1
<1> QED BY <1>4

\* Strong induction over the subsets of a finite set.
LEMMA SubsetInduction ==
  ASSUME NEW S, IsFiniteSet(S), NEW P \in SUBSET SUBSET S,
         \A s \in SUBSET S : (\A t \in SUBSET s : t # s => t \in P) => s \in P
  PROVE  P = SUBSET S
<1> SUFFICES ASSUME NEW bad \in SUBSET S, bad \notin P PROVE FALSE
  OBVIOUS
<1> DEFINE Sizes == {Cardinality(s) : s \in (SUBSET S) \ P}
<1>1. \A s \in SUBSET S : IsFiniteSet(s) /\ Cardinality(s) \in Nat
  BY FS_Subset, FS_CardinalityType
<1>2. Sizes \in SUBSET Nat /\ Sizes # {}
  BY <1>1
<1>3. PICK m \in Sizes : \A v \in Sizes : m <= v
  BY <1>2, SmallestNat
<1>4. PICK s \in (SUBSET S) \ P : m = Cardinality(s)
  BY <1>3
<1>5. ASSUME NEW t \in SUBSET s, t # s PROVE t \in P
  <2>1. Cardinality(t) <= Cardinality(s) /\ Cardinality(t) # Cardinality(s)
    BY <1>1, <1>5, FS_Subset
  <2>2. ~ (Cardinality(s) <= Cardinality(t))
    BY <1>1, <2>1
  <2> QED BY <1>3, <1>4, <2>2
<1> QED BY <1>4, <1>5

-------------------------------------------------------------------------------
(* Sums.                                                                    *)

\* The member of a set the folds take out first.
First(s) == CHOOSE x \in s : TRUE

\* g has the sum of f over every subset of S.
Adds(g, f, S) ==
  g = [s \in SUBSET S |-> IF s = {} THEN 0 ELSE f[First(s)] + g[s \ {First(s)}]]

\* The sum of f over S.
Total(f, S) == (CHOOSE g : Adds(g, f, S))[S]

\* A non-empty set has a first member.
LEMMA FirstMember == ASSUME NEW s, s # {} PROVE First(s) \in s
BY DEF First

\* The sums over the subsets of a set are determined by the equation.
LEMMA AddsUnique ==
  ASSUME NEW S, IsFiniteSet(S), NEW f, NEW g, NEW h, Adds(g, f, S), Adds(h, f, S)
  PROVE  g = h
<1> DEFINE P == {s \in SUBSET S : g[s] = h[s]}
<1>1. ASSUME NEW s \in SUBSET S, \A t \in SUBSET s : t # s => t \in P
      PROVE  s \in P
  <2>1. CASE s = {}
    BY <2>1 DEF Adds
  <2>2. CASE s # {}
    <3>1. s \ {First(s)} \in P
      BY <1>1, <2>2, FirstMember
    <3>2. g[s] = f[First(s)] + g[s \ {First(s)}] /\ h[s] = f[First(s)] + h[s \ {First(s)}]
      BY <2>2 DEF Adds
    <3> QED BY <3>1, <3>2
  <2> QED BY <2>1, <2>2
<1>2. P = SUBSET S
  <2> HIDE DEF P
  <2>1. P \in SUBSET SUBSET S
    BY DEF P
  <2> QED BY <1>1, <2>1, SubsetInduction
<1>3. g = [s \in SUBSET S |-> g[s]] /\ h = [s \in SUBSET S |-> h[s]]
  BY DEF Adds
<1> QED BY <1>2, <1>3

\* Each of them is the sum over that subset.
LEMMA AddsTotal ==
  ASSUME NEW S, IsFiniteSet(S), NEW f, NEW g, Adds(g, f, S), NEW s \in SUBSET S
  PROVE  g[s] = Total(f, s)
<1> DEFINE r == [t \in SUBSET s |-> g[t]]
<1>1. Adds(r, f, s)
  <2>1. \A t \in SUBSET s : t \ {First(t)} \in SUBSET s
    OBVIOUS
  <2>2. \A t \in SUBSET s :
          g[t] = IF t = {} THEN 0 ELSE f[First(t)] + g[t \ {First(t)}]
    BY DEF Adds
  <2> QED BY <2>1, <2>2 DEF Adds
<1>2. r[s] = g[s]
  OBVIOUS
<1> HIDE DEF r
<1>3. Adds(CHOOSE h : Adds(h, f, s), f, s)
  BY <1>1
<1>4. r = CHOOSE h : Adds(h, f, s)
  BY <1>1, <1>3, FS_Subset, AddsUnique
<1> QED BY <1>2, <1>4 DEF Total

\* There are such sums.
LEMMA AddsExists ==
  ASSUME NEW S, IsFiniteSet(S), NEW f
  PROVE  \E g : Adds(g, f, S)
<1> DEFINE P == {s \in SUBSET S : \E g : Adds(g, f, s)}
<1>1. ASSUME NEW s \in SUBSET S, \A t \in SUBSET s : t # s => t \in P
      PROVE  s \in P
  <2> DEFINE G == [t \in SUBSET s |->
                     IF t = {} THEN 0 ELSE f[First(t)] + Total(f, t \ {First(t)})]
  <2>1. ASSUME NEW t \in SUBSET s, t # s PROVE G[t] = Total(f, t)
    <3>1. IsFiniteSet(t)
      BY FS_Subset
    <3>2. PICK g : Adds(g, f, t)
      BY <1>1, <2>1
    <3>3. g[t] = Total(f, t)
      BY <3>1, <3>2, AddsTotal
    <3>4. CASE t = {}
      BY <3>2, <3>3, <3>4 DEF Adds
    <3>5. CASE t # {}
      <4>1. g[t \ {First(t)}] = Total(f, t \ {First(t)})
        BY <3>1, <3>2, AddsTotal
      <4>2. g[t] = f[First(t)] + g[t \ {First(t)}]
        BY <3>2, <3>5 DEF Adds
      <4> QED BY <3>3, <3>5, <4>1, <4>2
    <3> QED BY <3>4, <3>5
  <2>2. ASSUME NEW t \in SUBSET s, t # {}
        PROVE  G[t \ {First(t)}] = Total(f, t \ {First(t)})
    <3>1. t \ {First(t)} \in SUBSET s /\ t \ {First(t)} # s
      BY <2>2, FirstMember
    <3> QED BY <2>1, <3>1
  <2>3. G = [t \in SUBSET s |-> IF t = {} THEN 0 ELSE f[First(t)] + G[t \ {First(t)}]]
    <3> DEFINE H == [t \in SUBSET s |->
                       IF t = {} THEN 0 ELSE f[First(t)] + G[t \ {First(t)}]]
    <3>1. \A t \in SUBSET s : G[t] = H[t]
      BY <2>2
    <3> QED BY <3>1
  <2>4. Adds(G, f, s)
    BY <2>3 DEF Adds
  <2> QED BY <2>4
<1>2. P = SUBSET S
  <2> HIDE DEF P
  <2>1. P \in SUBSET SUBSET S
    BY DEF P
  <2> QED BY <1>1, <2>1, SubsetInduction
<1> QED BY <1>2

\* The equation of a sum.
LEMMA TotalEquation ==
  ASSUME NEW S, IsFiniteSet(S), NEW f
  PROVE  /\ S = {} => Total(f, S) = 0
         /\ S # {} => Total(f, S) = f[First(S)] + Total(f, S \ {First(S)})
<1>1. PICK g : Adds(g, f, S)
  BY AddsExists
<1>2. \A s \in SUBSET S : g[s] = Total(f, s)
  BY <1>1, AddsTotal
<1>3. S \in SUBSET S /\ S \ {First(S)} \in SUBSET S
  OBVIOUS
<1>4. g[S] = IF S = {} THEN 0 ELSE f[First(S)] + g[S \ {First(S)}]
  BY <1>1, <1>3 DEF Adds
<1> QED BY <1>2, <1>3, <1>4

\* A sum of naturals is one.
LEMMA TotalType ==
  ASSUME NEW S, IsFiniteSet(S), NEW f, \A x \in S : f[x] \in Nat
  PROVE  Total(f, S) \in Nat
<1> DEFINE P == {s \in SUBSET S : Total(f, s) \in Nat}
<1>1. ASSUME NEW s \in SUBSET S, \A t \in SUBSET s : t # s => t \in P
      PROVE  s \in P
  <2>1. IsFiniteSet(s)
    BY FS_Subset
  <2>2. CASE s = {}
    <3>1. Total(f, s) = 0
      BY <2>1, <2>2, TotalEquation, Zenon
    <3> QED BY <3>1
  <2>3. CASE s # {}
    <3>1. Total(f, s \ {First(s)}) \in Nat /\ f[First(s)] \in Nat
      BY <1>1, <2>3, FirstMember
    <3>2. Total(f, s) = f[First(s)] + Total(f, s \ {First(s)})
      BY <2>1, <2>3, TotalEquation
    <3> QED BY <3>1, <3>2
  <2> QED BY <2>2, <2>3
<1>2. P = SUBSET S
  <2> HIDE DEF P
  <2>1. P \in SUBSET SUBSET S
    BY DEF P
  <2> QED BY <1>1, <2>1, SubsetInduction
<1> QED BY <1>2

\* Any member can be taken out of a sum.
LEMMA TotalTake ==
  ASSUME NEW S, IsFiniteSet(S), NEW f, \A x \in S : f[x] \in Nat, NEW y \in S
  PROVE  Total(f, S) = f[y] + Total(f, S \ {y})
<1> DEFINE P == {s \in SUBSET S : \A x \in s : Total(f, s) = f[x] + Total(f, s \ {x})}
<1>0. \A s \in SUBSET S : IsFiniteSet(s) /\ Total(f, s) \in Nat
  BY FS_Subset, TotalType
<1>1. ASSUME NEW s \in SUBSET S, \A t \in SUBSET s : t # s => t \in P
      PROVE  s \in P
  <2> SUFFICES ASSUME NEW x \in s PROVE Total(f, s) = f[x] + Total(f, s \ {x})
    OBVIOUS
  <2> DEFINE z == First(s)
  <2>1. z \in s
    BY FirstMember
  <2>2. Total(f, s) = f[z] + Total(f, s \ {z})
    BY <1>0, TotalEquation
  <2> HIDE DEF z
  <2>3. CASE x = z
    BY <2>2, <2>3
  <2>4. CASE x # z
    <3>1. s \ {z} \in P /\ s \ {x} \in P
      BY <1>1, <2>1
    <3>2. /\ Total(f, s \ {z}) = f[x] + Total(f, (s \ {z}) \ {x})
          /\ Total(f, s \ {x}) = f[z] + Total(f, (s \ {x}) \ {z})
      BY <2>1, <2>4, <3>1
    <3>3. (s \ {z}) \ {x} = (s \ {x}) \ {z}
      OBVIOUS
    <3>4. f[x] \in Nat /\ f[z] \in Nat /\ Total(f, (s \ {x}) \ {z}) \in Nat
      BY <1>0, <2>1
    <3> QED BY <2>2, <3>2, <3>3, <3>4
  <2> QED BY <2>3, <2>4
<1>2. P = SUBSET S
  <2> HIDE DEF P
  <2>1. P \in SUBSET SUBSET S
    BY DEF P
  <2> QED BY <1>1, <2>1, SubsetInduction
<1> QED BY <1>2

\* The sum over two sets without a common member.
LEMMA TotalUnion ==
  ASSUME NEW A, IsFiniteSet(A), NEW B, IsFiniteSet(B), A \cap B = {},
         NEW f, \A x \in A \cup B : f[x] \in Nat
  PROVE  Total(f, A \cup B) = Total(f, A) + Total(f, B)
<1> DEFINE P == {s \in SUBSET A : Total(f, s \cup B) = Total(f, s) + Total(f, B)}
<1>0. \A s \in SUBSET A : /\ IsFiniteSet(s) /\ IsFiniteSet(s \cup B)
                          /\ Total(f, s) \in Nat /\ Total(f, s \cup B) \in Nat
  <2>1. ASSUME NEW s \in SUBSET A PROVE IsFiniteSet(s) /\ IsFiniteSet(s \cup B)
    BY FS_Subset, FS_Union
  <2> QED BY <2>1, TotalType
<1>1. ASSUME NEW s \in SUBSET A, \A t \in SUBSET s : t # s => t \in P
      PROVE  s \in P
  <2>1. CASE s = {}
    <3>1. s \cup B = B /\ Total(f, s) = 0
      BY <1>0, <2>1, TotalEquation
    <3>2. Total(f, B) \in Nat
      BY TotalType
    <3> QED BY <3>1, <3>2
  <2>2. CASE s # {}
    <3>1. PICK x : x \in s
      BY <2>2
    <3>2. s \ {x} \in P
      BY <1>1, <3>1
    <3>3. Total(f, s) = f[x] + Total(f, s \ {x})
      BY <1>0, <3>1, TotalTake
    <3>4. Total(f, s \cup B) = f[x] + Total(f, (s \cup B) \ {x})
      BY <1>0, <3>1, TotalTake
    <3>5. (s \cup B) \ {x} = (s \ {x}) \cup B
      BY <3>1
    <3>6. f[x] \in Nat /\ Total(f, s \ {x}) \in Nat /\ Total(f, B) \in Nat
      BY <1>0, <3>1, TotalType
    <3> QED BY <3>2, <3>3, <3>4, <3>5, <3>6
  <2> QED BY <2>1, <2>2
<1>2. P = SUBSET A
  <2> HIDE DEF P
  <2>1. P \in SUBSET SUBSET A
    BY DEF P
  <2> QED BY <1>1, <2>1, SubsetInduction
<1> QED BY <1>2

\* A sum is no more than the largest term times the number of terms.
LEMMA TotalBound ==
  ASSUME NEW S, IsFiniteSet(S), NEW m \in Nat, NEW f,
         \A x \in S : f[x] \in Nat /\ f[x] <= m
  PROVE  Total(f, S) <= m * Cardinality(S)
<1> DEFINE P == {s \in SUBSET S : Total(f, s) <= m * Cardinality(s)}
<1>1. ASSUME NEW s \in SUBSET S, \A t \in SUBSET s : t # s => t \in P
      PROVE  s \in P
  <2>1. IsFiniteSet(s)
    BY FS_Subset
  <2>2. CASE s = {}
    <3>1. Total(f, s) = 0
      BY <2>1, <2>2, TotalEquation, Zenon
    <3>2. Cardinality(s) = 0
      BY <2>2, FS_EmptySet
    <3> QED BY <3>1, <3>2
  <2>3. CASE s # {}
    <3>1. PICK x : x \in s
      BY <2>3
    <3> DEFINE t == s \ {x}
    <3>2. Total(f, s) = f[x] + Total(f, t)
      BY <2>1, <3>1, TotalTake
    <3>3. t \in P /\ IsFiniteSet(t)
      BY <1>1, <2>1, <3>1, FS_Subset
    <3>4. Cardinality(t) \in Nat /\ Cardinality(s) = Cardinality(t) + 1
      BY <2>1, <3>1, <3>3, FS_CardinalityType, FS_RemoveElement
    <3>5. Total(f, t) \in Nat /\ f[x] \in Nat /\ f[x] <= m
      BY <3>1, <3>3, TotalType
    <3>6. \A c \in Nat : m * (c + 1) = m * c + m /\ m * c \in Nat
      OBVIOUS
    <3> HIDE DEF t
    <3>7. Total(f, t) <= m * Cardinality(t)
      BY <3>3
    <3> QED BY <3>2, <3>4, <3>5, <3>6, <3>7
  <2> QED BY <2>2, <2>3
<1>2. P = SUBSET S
  <2> HIDE DEF P
  <2>1. P \in SUBSET SUBSET S
    BY DEF P
  <2> QED BY <1>1, <2>1, SubsetInduction
<1> QED BY <1>2

\* The memory of a set of processes is such a sum.
LEMMA RSSTotal ==
  ASSUME NEW snap, NEW procs, NEW f, \A p \in procs : f[p] = snap[p].rss
  PROVE  RSS(snap, procs) = Total(f, procs)
<1> DEFINE It(g) == g = [s \in SUBSET procs |->
      IF s = {} THEN 0 ELSE snap[First(s)].rss + g[s \ {First(s)}]]
<1>1. RSS(snap, procs) = (CHOOSE g : It(g))[procs]
  BY Zenon DEF RSS, MapThenSumSet, MapThenFoldSet, First
<1>2. ASSUME NEW g PROVE It(g) <=> Adds(g, f, procs)
  <2>1. \A s \in SUBSET procs : s # {} => First(s) \in s
    BY DEF First
  <2> QED BY <2>1 DEF Adds
<1>3. (CHOOSE g : It(g)) = (CHOOSE g : Adds(g, f, procs))
  <2> HIDE DEF It
  <2> QED BY <1>2
<1> QED BY <1>1, <1>3 DEF Total

-------------------------------------------------------------------------------
(* Statistics.                                                              *)

\* A finite non-empty set of naturals has a largest member.
LEMMA LargestNat ==
  ASSUME NEW T \in SUBSET Nat, IsFiniteSet(T), T # {}
  PROVE  \E m \in T : \A v \in T : v <= m
<1> DEFINE Above(v) == {u \in T : u > v}
           Sizes    == {Cardinality(Above(v)) : v \in T}
<1>1. \A v \in T : IsFiniteSet(Above(v)) /\ Cardinality(Above(v)) \in Nat
  <2>1. \A v \in T : Above(v) \in SUBSET T
    OBVIOUS
  <2> QED BY <2>1, FS_Subset, FS_CardinalityType
<1>2. PICK n \in Sizes : \A k \in Sizes : n <= k
  <2>1. Sizes \in SUBSET Nat /\ Sizes # {}
    BY <1>1
  <2> HIDE DEF Sizes
  <2> QED BY <2>1, SmallestNat
<1>3. PICK m \in T : n = Cardinality(Above(m))
  BY <1>2
<1>4. ASSUME NEW v \in T, v > m PROVE FALSE
  <2>1. Above(v) \in SUBSET Above(m) /\ v \in Above(m) /\ v \notin Above(v)
    <3>1. m \in Nat /\ v \in Nat /\ \A u \in T : u \in Nat
      OBVIOUS
    <3>2. \A u \in T : u > v => u > m
      BY <1>4, <3>1
    <3>3. v \in Above(m)
      BY <1>4
    <3>4. Above(v) \in SUBSET Above(m)
      BY <3>2
    <3>5. v \notin Above(v)
      BY <3>1
    <3> QED BY <3>3, <3>4, <3>5
  <2>2. /\ Cardinality(Above(v)) <= Cardinality(Above(m))
        /\ Cardinality(Above(v)) # Cardinality(Above(m))
    BY <1>1, <2>1, FS_Subset
  <2>3. Cardinality(Above(m)) <= Cardinality(Above(v))
    BY <1>2, <1>3
  <2> HIDE DEF Above
  <2> QED BY <1>1, <2>2, <2>3
<1>5. \A v \in T : v <= m
  BY <1>4
<1> QED BY <1>5

\* The places of the values up to v and below it, and the values themselves.
AtMost(vals, v) == {i \in DOMAIN vals : vals[i] <= v}
Below(vals, v)  == {i \in DOMAIN vals : vals[i] < v}
Values(vals)    == {vals[i] : i \in DOMAIN vals}

\* What is used of n values.
LEMMA ValuesFinite ==
  ASSUME NEW n \in Nat, NEW vals \in [1..n -> Nat]
  PROVE  /\ IsFiniteSet(Values(vals)) /\ Values(vals) \in SUBSET Nat
         /\ IsFiniteSet(1..n) /\ Cardinality(1..n) = n
         /\ \A v : IsFiniteSet(AtMost(vals, v)) /\ Cardinality(AtMost(vals, v)) \in Nat
         /\ \A v : IsFiniteSet(Below(vals, v)) /\ Cardinality(Below(vals, v)) \in Nat
<1>1. IsFiniteSet(1..n) /\ Cardinality(1..n) = n
  BY FS_Interval
<1>2. vals \in Surjection(1..n, Values(vals))
  BY DEF Surjection, Values
<1>3. IsFiniteSet(Values(vals))
  BY <1>1, <1>2, FS_Surjection
<1>4. ASSUME NEW v
      PROVE  AtMost(vals, v) \in SUBSET (1..n) /\ Below(vals, v) \in SUBSET (1..n)
  BY DEF AtMost, Below
<1>5. \A v : IsFiniteSet(AtMost(vals, v)) /\ IsFiniteSet(Below(vals, v))
  BY <1>1, <1>4, FS_Subset
<1> QED BY <1>1, <1>3, <1>5, FS_CardinalityType DEF Values

\* The value at an index of the sorted values is one of them, no more than that
\* many are smaller, and more are not larger.
LEMMA SortedAt ==
  ASSUME NEW n \in Nat, NEW vals \in [1..n -> Nat], NEW idx \in 0..(n - 1)
  PROVE  LET v == Sorted(vals, idx)
         IN  /\ v \in Values(vals)
             /\ Cardinality(Below(vals, v)) <= idx
             /\ Cardinality(AtMost(vals, v)) > idx
<1> DEFINE Good == {v \in Values(vals) : Cardinality(AtMost(vals, v)) > idx}
<1>1. Values(vals) # {}
  BY DEF Values
<1>2. Good # {}
  <2>1. PICK m \in Values(vals) : \A v \in Values(vals) : v <= m
    BY <1>1, ValuesFinite, LargestNat
  <2>2. AtMost(vals, m) = 1..n
    BY <2>1 DEF AtMost, Values
  <2>3. Cardinality(AtMost(vals, m)) > idx
    BY <2>2, ValuesFinite
  <2> QED BY <2>3
<1>3. PICK m \in Good : \A v \in Good : m <= v
  <2>1. Good \in SUBSET Nat
    BY ValuesFinite
  <2> HIDE DEF Good
  <2> QED BY <1>2, <2>1, SmallestNat
<1>4. ASSUME Cardinality(Below(vals, m)) > idx PROVE FALSE
  <2> DEFINE W == {u \in Values(vals) : u < m}
  <2>1. W \in SUBSET Nat /\ IsFiniteSet(W)
    BY ValuesFinite, FS_Subset
  <2>2. W # {}
    <3>1. Below(vals, m) # {}
      <4>1. Below(vals, m) = {} => Cardinality(Below(vals, m)) = 0
        BY FS_EmptySet, Zenon
      <4>2. ~(0 > idx)
        OBVIOUS
      <4> QED BY <1>4, <4>1, <4>2, Zenon
    <3> QED BY <3>1 DEF Below, Values
  <2>3. PICK w \in W : \A u \in W : u <= w
    <3> HIDE DEF W
    <3> QED BY <2>1, <2>2, LargestNat
  <2>4. m \in Nat /\ w \in Nat /\ w < m /\ w \in Values(vals)
    BY <2>1, ValuesFinite
  <2>5. AtMost(vals, w) = Below(vals, m)
    <3>1. ASSUME NEW i \in 1..n PROVE vals[i] <= w <=> vals[i] < m
      <4>1. vals[i] \in Nat /\ vals[i] \in Values(vals)
        BY DEF Values
      <4>2. vals[i] < m => vals[i] <= w
        BY <2>3, <4>1
      <4> QED BY <2>4, <4>1, <4>2
    <3> QED BY <3>1 DEF AtMost, Below
  <2>6. w \in Good
    BY <1>4, <2>4, <2>5
  <2> QED BY <1>3, <2>4, <2>6
<1>5. /\ m \in Values(vals)
      /\ Cardinality(Below(vals, m)) <= idx
      /\ Cardinality(AtMost(vals, m)) > idx
  BY <1>4, ValuesFinite
<1>6. Sorted(vals, idx) = CHOOSE v \in Values(vals) :
        Cardinality(Below(vals, v)) <= idx /\ Cardinality(AtMost(vals, v)) > idx
  BY Zenon DEF Sorted, Values, Below, AtMost
<1> QED BY <1>5, <1>6

\* A later index has no smaller value.
LEMMA SortedMonotone ==
  ASSUME NEW n \in Nat, NEW vals \in [1..n -> Nat],
         NEW i \in 0..(n - 1), NEW j \in 0..(n - 1), i <= j
  PROVE  Sorted(vals, i) <= Sorted(vals, j)
<1> DEFINE v == Sorted(vals, i)
           w == Sorted(vals, j)
<1>1. /\ v \in Nat /\ Cardinality(Below(vals, v)) <= i
      /\ w \in Nat /\ Cardinality(AtMost(vals, w)) > j
  BY SortedAt, ValuesFinite
<1> HIDE DEF v, w
<1>2. ASSUME v > w PROVE FALSE
  <2>1. AtMost(vals, w) \in SUBSET Below(vals, v)
    <3>1. ASSUME NEW k \in 1..n, vals[k] <= w PROVE vals[k] < v
      <4>1. vals[k] \in Nat
        OBVIOUS
      <4> QED BY <1>1, <1>2, <3>1, <4>1
    <3> QED BY <3>1 DEF AtMost, Below
  <2>2. Cardinality(AtMost(vals, w)) <= Cardinality(Below(vals, v))
    BY <2>1, ValuesFinite, FS_Subset
  <2> QED BY <1>1, <2>2, ValuesFinite
<1>3. v <= w
  BY <1>1, <1>2
<1> QED BY <1>3 DEF v, w

\* The last index has the largest value.
LEMMA SortedLast ==
  ASSUME NEW n \in Nat \ {0}, NEW vals \in [1..n -> Nat]
  PROVE  /\ Sorted(vals, n - 1) \in Values(vals)
         /\ \A u \in Values(vals) : u <= Sorted(vals, n - 1)
<1> DEFINE v == Sorted(vals, n - 1)
<1>1. v \in Values(vals) /\ Cardinality(AtMost(vals, v)) > n - 1
  BY SortedAt
<1> HIDE DEF v
<1>2. AtMost(vals, v) \in SUBSET (1..n)
  BY DEF AtMost
<1>3. Cardinality(AtMost(vals, v)) = n
  <2>1. Cardinality(AtMost(vals, v)) <= n
    BY <1>2, ValuesFinite, FS_Subset
  <2> QED BY <1>1, <2>1, ValuesFinite
<1>4. AtMost(vals, v) = 1..n
  BY <1>2, <1>3, ValuesFinite, FS_Subset
<1>5. \A u \in Values(vals) : u <= v
  BY <1>4 DEF AtMost, Values
<1> QED BY <1>1, <1>5 DEF v

\* The rounding of percentile.
LEMMA RankBounds ==
  ASSUME NEW m \in Nat, NEW n \in Nat, 1 <= m, m <= 100 * n
  PROVE  LET rank == (m + 99) \div 100
         IN  /\ rank \in 1..n
             /\ 100 * (rank - 1) < m
             /\ m <= 100 * rank
OBVIOUS

\* The index percentile takes is the nearest rank: the smallest one below which
\* p percent of the n sorted values lie, never outside of them
\* (accounting.go:115-132).
THEOREM NearestRank ==
  ASSUME NEW p \in 1..100, NEW n \in Nat \ {0}
  PROVE  /\ PercentileIndex(p, n) \in 0..(n - 1)
         /\ 100 * PercentileIndex(p, n) < p * n
         /\ p * n <= 100 * (PercentileIndex(p, n) + 1)
<1>1. p * n \in Nat /\ 1 <= p * n /\ p * n <= 100 * n
  <2>1. p * n >= p * 1
    <3>1. \A a, b, c \in Nat : a <= b => c * a <= c * b
      OBVIOUS
    <3> QED BY <3>1
  <2>2. n * p <= n * 100
    <3>1. \A a, b, c \in Nat : a <= b => c * a <= c * b
      OBVIOUS
    <3> QED BY <3>1
  <2> QED BY <2>1, <2>2
<1> DEFINE rank == (p * n + 99) \div 100
<1>2. rank \in 1..n /\ 100 * (rank - 1) < p * n /\ p * n <= 100 * rank
  BY <1>1, RankBounds
<1>3. PercentileIndex(p, n) = rank - 1
  <2>1. PercentileIndex(p, n)
          = LET idx == IF rank >= 1 THEN rank - 1 ELSE rank
            IN  IF idx >= n THEN n - 1 ELSE idx
    BY DEF PercentileIndex
  <2> HIDE DEF rank
  <2> QED BY <1>2, <2>1
<1> HIDE DEF rank
<1>4. rank - 1 \in 0..(n - 1) /\ (rank - 1) + 1 = rank
  BY <1>2
<1> QED BY <1>2, <1>3, <1>4

\* The sum of the statistics.
LEMMA SumOverTotal ==
  ASSUME NEW n \in Nat, NEW vals \in [1..n -> Nat]
  PROVE  SumOver(vals) = Total(vals, 1..n)
<1> DEFINE It(g) == g = [s \in SUBSET (1..n) |->
      IF s = {} THEN 0 ELSE vals[First(s)] + g[s \ {First(s)}]]
<1>1. DOMAIN vals = 1..n
  OBVIOUS
<1>2. SumOver(vals) = (CHOOSE g : It(g))[1..n]
  BY <1>1, Zenon DEF SumOver, MapThenSumSet, MapThenFoldSet, First
<1> QED BY <1>2, Zenon DEF Total, Adds

\* A quotient of a bounded dividend.
LEMMA QuotientBound ==
  ASSUME NEW t \in Nat, NEW n \in Nat \ {0}, NEW m \in Nat, t <= m * n
  PROVE  t \div n \in Nat /\ t \div n <= m
<1> DEFINE q == t \div n
<1>1. q \in Nat /\ q * n <= t
  OBVIOUS
<1> HIDE DEF q
<1>2. ASSUME q > m PROVE FALSE
  <2>1. \A a, b, c \in Nat : a <= b => a * c <= b * c
    OBVIOUS
  <2>2. (m + 1) * n <= q * n
    BY <1>1, <1>2, <2>1
  <2>3. (m + 1) * n = m * n + n /\ m * n \in Nat
    OBVIOUS
  <2>4. q * n \in Nat
    BY <1>1
  <2> QED BY <1>1, <2>2, <2>3, <2>4
<1>3. q <= m
  BY <1>1, <1>2
<1> QED BY <1>1, <1>3 DEF q

\* The statistics of a series are ordered, their peak is the largest value and
\* nothing else, and the mean does not exceed it (accounting.go:88-113).
THEOREM StatsOrdered ==
  ASSUME NEW n \in Nat, NEW vals \in [1..n -> Nat]
  PROVE  LET s == Stats(vals)
         IN  /\ s.mean \in Nat /\ s.p50 \in Nat /\ s.p95 \in Nat /\ s.peak \in Nat
             /\ s.p50 <= s.p95 /\ s.p95 <= s.peak /\ s.mean <= s.peak
             /\ n = 0 => s.peak = 0
             /\ n > 0 => s.peak \in Values(vals)
             /\ \A v \in Values(vals) : v <= s.peak
<1>1. CASE n = 0
  <2>1. vals = <<>> /\ Values(vals) = {}
    BY <1>1 DEF Values
  <2> QED BY <1>1, <2>1 DEF Stats, NoStats
<1>2. CASE n # 0
  <2> DEFINE i    == PercentileIndex(50, n)
             j    == PercentileIndex(95, n)
             p50  == Sorted(vals, i)
             p95  == Sorted(vals, j)
             peak == Sorted(vals, n - 1)
             mean == SumOver(vals) \div n
  <2>1. /\ i \in 0..(n - 1) /\ 100 * i < 50 * n
        /\ j \in 0..(n - 1) /\ 95 * n <= 100 * (j + 1)
    BY <1>2, NearestRank
  <2> HIDE DEF i, j
  <2>2. i <= j /\ j <= n - 1 /\ n - 1 \in 0..(n - 1)
    BY <1>2, <2>1
  <2>3. p50 <= p95 /\ p95 <= peak
    BY <2>1, <2>2, SortedMonotone
  <2>4. p50 \in Nat /\ p95 \in Nat /\ peak \in Nat /\ peak \in Values(vals)
    BY <2>1, <2>2, SortedAt, ValuesFinite
  <2>5. \A v \in Values(vals) : v <= peak
    BY <1>2, SortedLast
  <2> HIDE DEF p50, p95, peak
  <2>6. mean \in Nat /\ mean <= peak
    <3>1. \A k \in 1..n : vals[k] \in Nat /\ vals[k] <= peak
      BY <2>5 DEF Values
    <3>2. Total(vals, 1..n) \in Nat /\ Total(vals, 1..n) <= peak * n
      BY <2>4, <3>1, ValuesFinite, TotalType, TotalBound
    <3> QED BY <1>2, <2>4, <3>2, SumOverTotal, QuotientBound
  <2>7. Stats(vals) = [mean |-> mean, p50 |-> p50, p95 |-> p95, peak |-> peak]
    <3>1. vals # <<>> /\ Len(vals) = n
      BY <1>2
    <3> QED BY <3>1 DEF Stats, i, j, p50, p95, peak
  <2> HIDE DEF mean
  <2> QED BY <1>2, <2>3, <2>4, <2>5, <2>6, <2>7
<1> QED BY <1>1, <1>2

-------------------------------------------------------------------------------
(* Ownership.                                                               *)

\* Induction over the naturals, for a set.
LEMMA NatSteps ==
  ASSUME NEW P \in SUBSET Nat, 0 \in P, \A n \in P : n + 1 \in P
  PROVE  P = Nat
<1> SUFFICES ASSUME NEW bad \in Nat, bad \notin P PROVE FALSE
  OBVIOUS
<1>1. PICK m \in Nat \ P : \A v \in Nat \ P : m <= v
  <2>1. Nat \ P \in SUBSET Nat /\ Nat \ P # {}
    OBVIOUS
  <2> QED BY <2>1, SmallestNat
<1>2. m # 0 /\ m - 1 \in Nat
  BY <1>1
<1>3. m - 1 \in P
  BY <1>1, <1>2
<1> QED BY <1>1, <1>2, <1>3

\* One step of the loop of isOwned.
Parent(snap, q) == IF q \in DOMAIN snap \ {0} THEN snap[q].ppid ELSE 0

\* u is the path of n steps up from p.
Path(u, snap, p, n) ==
  u = [k \in 0..n |-> IF k = 0 THEN p ELSE Parent(snap, u[k - 1])]

\* There is such a path of every length.
LEMMA PathExists ==
  ASSUME NEW snap, NEW p, NEW n \in Nat
  PROVE  \E u : Path(u, snap, p, n)
<1> DEFINE P == {m \in Nat : \E u : Path(u, snap, p, m)}
<1>1. 0 \in P
  <2> DEFINE u == [k \in 0..0 |-> p]
  <2>1. Path(u, snap, p, 0)
    BY DEF Path
  <2> QED BY <2>1
<1>2. ASSUME NEW m \in P PROVE m + 1 \in P
  <2>1. PICK u : Path(u, snap, p, m)
    OBVIOUS
  <2> DEFINE v == [k \in 0..(m + 1) |-> IF k <= m THEN u[k] ELSE Parent(snap, u[m])]
  <2>2. \A k \in 0..m : u[k] = IF k = 0 THEN p ELSE Parent(snap, u[k - 1])
    BY <2>1 DEF Path
  <2>3. ASSUME NEW k \in 0..(m + 1)
        PROVE  v[k] = IF k = 0 THEN p ELSE Parent(snap, v[k - 1])
    <3>1. CASE k <= m
      BY <2>2, <3>1
    <3>2. CASE k = m + 1
      BY <3>2
    <3> QED BY <3>1, <3>2
  <2>4. Path(v, snap, p, m + 1)
    BY <2>3 DEF Path
  <2> HIDE DEF v
  <2> QED BY <2>4
<1>3. P = Nat
  <2>1. P \in SUBSET Nat
    OBVIOUS
  <2> HIDE DEF P
  <2> QED BY <1>1, <1>2, <2>1, NatSteps
<1> QED BY <1>3

\* What Ancestor is.
LEMMA AncestorPath ==
  ASSUME NEW snap, IsFiniteSet(DOMAIN snap), NEW p
  PROVE  LET n == Cardinality(DOMAIN snap)
             a == Ancestor(snap, p)
         IN  /\ n \in Nat /\ DOMAIN a = 0..n
             /\ a[0] = p
             /\ \A k \in 0..n : k # 0 => a[k] = Parent(snap, a[k - 1])
<1> DEFINE n == Cardinality(DOMAIN snap)
           a == Ancestor(snap, p)
<1>1. n \in Nat
  BY FS_CardinalityType
<1>2. a = CHOOSE u : Path(u, snap, p, n)
  BY Zenon DEF Ancestor, Path, Parent
<1>3. Path(a, snap, p, n)
  BY <1>1, <1>2, PathExists, Zenon
<1> HIDE DEF n, a
<1>4. a = [k \in 0..n |-> IF k = 0 THEN p ELSE Parent(snap, a[k - 1])]
  BY <1>3 DEF Path
<1>5. DOMAIN a = 0..n /\ \A k \in 0..n : a[k] = IF k = 0 THEN p ELSE Parent(snap, a[k - 1])
  BY <1>4
<1> QED BY <1>1, <1>5 DEF n, a

\* The parent of 0 is 0, on every path.
LEMMA ZeroPath ==
  ASSUME NEW snap, IsFiniteSet(DOMAIN snap)
  PROVE  ~ Owned(snap, 0)
<1> DEFINE n == Cardinality(DOMAIN snap)
           a == Ancestor(snap, 0)
           P == {k \in Nat : k <= n => a[k] = 0}
<1>1. /\ n \in Nat /\ DOMAIN a = 0..n /\ a[0] = 0
      /\ \A k \in 0..n : k # 0 => a[k] = Parent(snap, a[k - 1])
  BY AncestorPath
<1> HIDE DEF n, a
<1>2. ASSUME NEW k \in P PROVE k + 1 \in P
  <2>1. k + 1 <= n => a[k + 1] = Parent(snap, a[k])
    BY <1>1
  <2>2. k + 1 <= n => a[k] = 0
    BY <1>1
  <2> QED BY <2>1, <2>2 DEF Parent
<1>3. P = Nat
  <2>1. P \in SUBSET Nat /\ 0 \in P
    BY <1>1
  <2> HIDE DEF P
  <2> QED BY <1>2, <2>1, NatSteps
<1>4. \A k \in 0..n : a[k] = 0
  BY <1>1, <1>3
<1> QED BY <1>1, <1>4, AccountingAssumption DEF Owned, a

\* The path of a child is that of its parent, one step later.
LEMMA ChildPath ==
  ASSUME NEW snap, IsFiniteSet(DOMAIN snap), NEW c \in DOMAIN snap, c # 0
  PROVE  \A k \in Nat : k + 1 <= Cardinality(DOMAIN snap) =>
           Ancestor(snap, c)[k + 1] = Ancestor(snap, snap[c].ppid)[k]
<1> DEFINE n == Cardinality(DOMAIN snap)
           a == Ancestor(snap, c)
           b == Ancestor(snap, snap[c].ppid)
           P == {k \in Nat : k + 1 <= n => a[k + 1] = b[k]}
<1>1. /\ n \in Nat /\ a[0] = c /\ b[0] = snap[c].ppid
      /\ \A k \in 0..n : k # 0 => a[k] = Parent(snap, a[k - 1])
      /\ \A k \in 0..n : k # 0 => b[k] = Parent(snap, b[k - 1])
  BY AncestorPath
<1> HIDE DEF n, a, b
<1>2. 0 \in P
  <2>1. 1 <= n => a[1] = Parent(snap, a[0])
    BY <1>1
  <2> QED BY <1>1, <2>1 DEF Parent
<1>3. ASSUME NEW k \in P PROVE k + 1 \in P
  <2>1. (k + 1) + 1 <= n => a[(k + 1) + 1] = Parent(snap, a[k + 1])
    BY <1>1
  <2>2. (k + 1) + 1 <= n => b[k + 1] = Parent(snap, b[k])
    BY <1>1
  <2>3. (k + 1) + 1 <= n => a[k + 1] = b[k]
    BY <1>1
  <2> QED BY <2>1, <2>2, <2>3
<1>4. P = Nat
  <2>1. P \in SUBSET Nat
    OBVIOUS
  <2> HIDE DEF P
  <2> QED BY <1>2, <1>3, <2>1, NatSteps
<1> QED BY <1>4 DEF n, a, b

\* The children of an owned process are owned: the path that ends one step too
\* late for the child ends outside of the table, as no path is endless.
LEMMA ChildOwned ==
  ASSUME NEW snap, IsTable(snap), ~Endless(snap), NEW c \in DOMAIN snap,
         Owned(snap, snap[c].ppid)
  PROVE  Owned(snap, c)
<1> DEFINE n == Cardinality(DOMAIN snap)
           a == Ancestor(snap, c)
           b == Ancestor(snap, snap[c].ppid)
<1>1. IsFiniteSet(DOMAIN snap) /\ c # 0
  BY ZeroPath DEF IsTable
<1>2. /\ n \in Nat /\ DOMAIN a = 0..n /\ DOMAIN b = 0..n
      /\ \A k \in 0..n : k # 0 => b[k] = Parent(snap, b[k - 1])
      /\ \A k \in Nat : k + 1 <= n => a[k + 1] = b[k]
  BY <1>1, AncestorPath, ChildPath
<1>3. n > 0
  <2>1. DOMAIN snap # {}
    OBVIOUS
  <2>2. n # 0
    BY <1>1, <2>1, FS_EmptySet, Zenon
  <2> QED BY <1>2, <2>2
<1>4. PICK k \in 0..n : b[k] = Controller
  BY <1>2 DEF Owned
<1>5. CASE k < n
  <2>1. k + 1 \in 0..n /\ a[k + 1] = Controller
    BY <1>2, <1>4, <1>5
  <2> QED BY <1>2, <2>1 DEF Owned
<1>6. CASE k = n
  <2>1. a[n] = b[n - 1]
    BY <1>2, <1>3
  <2>2. b[n] = Parent(snap, b[n - 1])
    BY <1>2, <1>3
  <2>3. ASSUME ~Owned(snap, c) PROVE FALSE
    <3>1. a[n] \notin DOMAIN snap \ {0}
      BY <2>3 DEF Endless
    <3>2. b[n] = 0
      BY <2>1, <2>2, <3>1 DEF Parent
    <3> QED BY <1>4, <1>6, <3>2, AccountingAssumption
  <2> QED BY <2>3
<1> QED BY <1>2, <1>5, <1>6

\* The loop of isOwned without a bound: the process it is at after k rounds.
Walk(snap, p) == [k \in Nat |-> (CHOOSE u : Path(u, snap, p, k))[k]]

\* Each round goes one step up.
LEMMA WalkSteps ==
  ASSUME NEW snap, NEW p
  PROVE  /\ Walk(snap, p)[0] = p
         /\ \A k \in Nat : Walk(snap, p)[k + 1] = Parent(snap, Walk(snap, p)[k])
<1> DEFINE path(n) == CHOOSE u : Path(u, snap, p, n)
<1>1. ASSUME NEW n \in Nat
      PROVE  \A k \in 0..n : path(n)[k] = IF k = 0 THEN p ELSE Parent(snap, path(n)[k - 1])
  <2>1. Path(path(n), snap, p, n)
    BY PathExists, Zenon
  <2> HIDE DEF path
  <2>2. path(n) = [k \in 0..n |-> IF k = 0 THEN p ELSE Parent(snap, path(n)[k - 1])]
    BY <2>1 DEF Path
  <2> QED BY <2>2
<1>2. \A n \in Nat : Walk(snap, p)[n] = path(n)[n]
  BY Zenon DEF Walk
<1> HIDE DEF path
<1>3. ASSUME NEW n \in Nat PROVE \A k \in 0..n : path(n + 1)[k] = path(n)[k]
  <2> DEFINE P == {k \in Nat : k <= n => path(n + 1)[k] = path(n)[k]}
  <2>1. 0 \in P
    <3>1. 0 \in 0..n /\ 0 \in 0..(n + 1) /\ n + 1 \in Nat
      OBVIOUS
    <3> QED BY <1>1, <3>1
  <2>2. ASSUME NEW k \in P PROVE k + 1 \in P
    <3> SUFFICES ASSUME k + 1 <= n PROVE path(n + 1)[k + 1] = path(n)[k + 1]
      OBVIOUS
    <3>1. k + 1 \in 0..n /\ k + 1 \in 0..(n + 1) /\ n + 1 \in Nat /\ k + 1 # 0 /\ (k + 1) - 1 = k
      OBVIOUS
    <3>2. path(n + 1)[k + 1] = Parent(snap, path(n + 1)[k])
      BY <1>1, <3>1
    <3>3. path(n)[k + 1] = Parent(snap, path(n)[k])
      BY <1>1, <3>1
    <3>4. path(n + 1)[k] = path(n)[k]
      OBVIOUS
    <3> QED BY <3>2, <3>3, <3>4
  <2>3. P = Nat
    <3>1. P \in SUBSET Nat
      OBVIOUS
    <3> HIDE DEF P
    <3> QED BY <2>1, <2>2, <3>1, NatSteps
  <2> QED BY <2>3
<1>4. Walk(snap, p)[0] = p
  BY <1>1, <1>2
<1>5. ASSUME NEW k \in Nat PROVE Walk(snap, p)[k + 1] = Parent(snap, Walk(snap, p)[k])
  <2>1. k + 1 \in Nat /\ k + 1 \in 0..(k + 1) /\ k + 1 # 0 /\ (k + 1) - 1 = k /\ k \in 0..k
    OBVIOUS
  <2>2. path(k + 1)[k + 1] = Parent(snap, path(k + 1)[k])
    BY <1>1, <2>1
  <2>3. path(k + 1)[k] = path(k)[k]
    BY <1>3, <2>1
  <2> QED BY <1>2, <2>1, <2>2, <2>3
<1> QED BY <1>4, <1>5

\* Ancestor is the beginning of the walk.
LEMMA WalkAncestor ==
  ASSUME NEW snap, IsFiniteSet(DOMAIN snap), NEW p
  PROVE  \A k \in 0..Cardinality(DOMAIN snap) : Ancestor(snap, p)[k] = Walk(snap, p)[k]
<1> DEFINE n == Cardinality(DOMAIN snap)
           a == Ancestor(snap, p)
           w == Walk(snap, p)
           P == {k \in Nat : k <= n => a[k] = w[k]}
<1>1. /\ n \in Nat /\ a[0] = p
      /\ \A k \in 0..n : k # 0 => a[k] = Parent(snap, a[k - 1])
  BY AncestorPath
<1>2. w[0] = p /\ \A k \in Nat : w[k + 1] = Parent(snap, w[k])
  BY WalkSteps
<1> HIDE DEF n, a, w
<1>3. ASSUME NEW k \in P PROVE k + 1 \in P
  <2>1. k + 1 <= n => a[k + 1] = Parent(snap, a[k])
    BY <1>1
  <2>2. w[k + 1] = Parent(snap, w[k])
    BY <1>2
  <2>3. k + 1 <= n => a[k] = w[k]
    BY <1>1
  <2> QED BY <2>1, <2>2, <2>3
<1>4. P = Nat
  <2>1. P \in SUBSET Nat /\ 0 \in P
    BY <1>1, <1>2
  <2> HIDE DEF P
  <2> QED BY <1>3, <2>1, NatSteps
<1>5. \A k \in 0..n : a[k] = w[k]
  BY <1>1, <1>4
<1> QED BY <1>5 DEF n, a, w

\* A walk that has left the table does not come back.
LEMMA WalkLeaves ==
  ASSUME NEW snap, NEW p, NEW m \in Nat, Walk(snap, p)[m] \notin DOMAIN snap \ {0}
  PROVE  \A k \in Nat : k > m => Walk(snap, p)[k] = 0
<1> DEFINE w == Walk(snap, p)
           P == {k \in Nat : w[m + 1 + k] = 0}
<1>1. \A k \in Nat : w[k + 1] = Parent(snap, w[k])
  BY WalkSteps
<1> HIDE DEF w
<1>2. 0 \in P
  BY <1>1 DEF Parent, w
<1>3. ASSUME NEW k \in P PROVE k + 1 \in P
  <2>1. w[(m + 1 + k) + 1] = Parent(snap, w[m + 1 + k])
    BY <1>1
  <2>2. w[(m + 1 + k) + 1] = 0
    BY <2>1 DEF Parent
  <2>3. (m + 1 + k) + 1 = m + 1 + (k + 1)
    OBVIOUS
  <2> QED BY <2>2, <2>3
<1>4. P = Nat
  <2>1. P \in SUBSET Nat
    OBVIOUS
  <2> HIDE DEF P
  <2> QED BY <1>2, <1>3, <2>1, NatSteps
<1>5. ASSUME NEW k \in Nat, k > m PROVE w[k] = 0
  <2>1. k - m - 1 \in Nat /\ m + 1 + (k - m - 1) = k
    BY <1>5
  <2>2. w[m + 1 + (k - m - 1)] = 0
    BY <1>4, <2>1
  <2> QED BY <2>1, <2>2
<1> QED BY <1>5 DEF w

\* A walk that is still in the table after as many steps as there are processes
\* has met one of them twice: it goes round for ever.
LEMMA WalkCircles ==
  ASSUME NEW snap, IsFiniteSet(DOMAIN snap), NEW p,
         \A k \in 0..Cardinality(DOMAIN snap) : Walk(snap, p)[k] \in DOMAIN snap
  PROVE  \A k \in Nat : \E m \in 0..Cardinality(DOMAIN snap) :
           Walk(snap, p)[k] = Walk(snap, p)[m]
<1> DEFINE n == Cardinality(DOMAIN snap)
           w == Walk(snap, p)
<1>1. n \in Nat /\ \A k \in Nat : w[k + 1] = Parent(snap, w[k])
  BY FS_CardinalityType, WalkSteps
<1>2. PICK i \in 0..n, j \in 0..n : i < j /\ w[i] = w[j]
  <2> DEFINE f == [k \in 0..n |-> w[k]]
  <2>1. IsFiniteSet(0..n) /\ Cardinality(0..n) = n + 1
    BY <1>1, FS_Interval
  <2>2. f \in [0..n -> DOMAIN snap]
    OBVIOUS
  <2>3. Cardinality(DOMAIN snap) < Cardinality(0..n)
    BY <1>1, <2>1
  <2>4. \E x, y \in 0..n : x # y /\ f[x] = f[y]
    <3> HIDE DEF f, n, w
    <3> QED BY <2>1, <2>2, <2>3, FS_PigeonHole
  <2>5. PICK x \in 0..n, y \in 0..n : x # y /\ w[x] = w[y]
    BY <2>4
  <2>6. x < y \/ y < x
    BY <1>1, <2>5
  <2> QED BY <2>5, <2>6
<1> HIDE DEF n, w
<1>3. \A d \in Nat : w[i + d] = w[j + d]
  <2> DEFINE P == {d \in Nat : w[i + d] = w[j + d]}
  <2>1. 0 \in P
    BY <1>1, <1>2
  <2>2. ASSUME NEW d \in P PROVE d + 1 \in P
    <3>1. i + d \in Nat /\ j + d \in Nat /\ (i + d) + 1 = i + (d + 1) /\ (j + d) + 1 = j + (d + 1)
      BY <1>1
    <3>2. w[(i + d) + 1] = Parent(snap, w[i + d]) /\ w[(j + d) + 1] = Parent(snap, w[j + d])
      BY <1>1, <3>1
    <3>3. w[i + (d + 1)] = w[j + (d + 1)]
      BY <3>1, <3>2
    <3> QED BY <3>3
  <2>3. P = Nat
    <3>1. P \in SUBSET Nat
      OBVIOUS
    <3> HIDE DEF P
    <3> QED BY <2>1, <2>2, <3>1, NatSteps
  <2> QED BY <2>3
<1>4. \E m \in 0..n : w[n + 1] = w[m]
  <2>1. n + 1 - j \in Nat /\ i + (n + 1 - j) \in 0..n /\ j + (n + 1 - j) = n + 1
    BY <1>1, <1>2
  <2>2. w[i + (n + 1 - j)] = w[n + 1]
    BY <1>3, <2>1
  <2> QED BY <2>1, <2>2
<1>5. \A k \in Nat : \E m \in 0..n : w[k] = w[m]
  <2> DEFINE P == {k \in Nat : \E m \in 0..n : w[k] = w[m]}
  <2>1. 0 \in P
    BY <1>1
  <2>2. ASSUME NEW k \in P PROVE k + 1 \in P
    <3>1. PICK m \in 0..n : w[k] = w[m]
      OBVIOUS
    <3>2. m \in Nat /\ w[k + 1] = w[m + 1]
      BY <1>1, <3>1
    <3>3. CASE m = n
      BY <1>4, <3>2, <3>3
    <3>4. CASE m < n
      <4>1. m + 1 \in 0..n
        BY <1>1, <3>4
      <4> QED BY <3>2, <4>1
    <3> QED BY <1>1, <3>3, <3>4
  <2>3. P = Nat
    <3>1. P \in SUBSET Nat
      OBVIOUS
    <3> HIDE DEF P
    <3> QED BY <2>1, <2>2, <3>1, NatSteps
  <2> QED BY <2>3
<1> QED BY <1>5 DEF n, w

\* As many rounds as there are processes decide: isOwned returns TRUE where
\* Owned does, and it never returns exactly where the walk is neither over nor
\* at the controller by then (ownership.go:61-74).
LEMMA WalkDecides ==
  ASSUME NEW snap, IsTable(snap), NEW p
  PROVE  LET n == Cardinality(DOMAIN snap)
             w == Walk(snap, p)
         IN  /\ Owned(snap, p) <=> \E k \in Nat : w[k] = Controller
             /\ ~Owned(snap, p) /\ Ancestor(snap, p)[n] \in DOMAIN snap \ {0} <=>
                  \A k \in Nat : w[k] \in DOMAIN snap \ {0, Controller}
<1> DEFINE n == Cardinality(DOMAIN snap)
           w == Walk(snap, p)
           a == Ancestor(snap, p)
<1>1. /\ IsFiniteSet(DOMAIN snap) /\ n \in Nat /\ DOMAIN a = 0..n
      /\ \A k \in 0..n : a[k] = w[k]
  BY AncestorPath, WalkAncestor DEF IsTable
<1>2. \A m \in Nat : w[m] \notin DOMAIN snap \ {0} => \A k \in Nat : k > m => w[k] = 0
  BY WalkLeaves
<1>3. (\A k \in 0..n : w[k] \in DOMAIN snap) => \A k \in Nat : \E m \in 0..n : w[k] = w[m]
  BY <1>1, WalkCircles
<1>4. Owned(snap, p) <=> \E k \in 0..n : w[k] = Controller
  BY <1>1 DEF Owned
<1> HIDE DEF n, w, a
<1>5. ASSUME ~Owned(snap, p), w[n] \in DOMAIN snap \ {0}
      PROVE  \A k \in Nat : w[k] \in DOMAIN snap \ {0, Controller}
  <2>1. \A k \in 0..n : w[k] \in DOMAIN snap \ {0}
    BY <1>1, <1>2, <1>5
  <2>2. \A k \in 0..n : w[k] # Controller
    BY <1>4, <1>5
  <2> QED BY <1>3, <2>1, <2>2
<1>6. ASSUME \A k \in Nat : w[k] \in DOMAIN snap \ {0, Controller}
      PROVE  ~Owned(snap, p) /\ w[n] \in DOMAIN snap \ {0}
  BY <1>1, <1>4, <1>6
<1>7. ASSUME NEW k \in Nat, w[k] = Controller PROVE Owned(snap, p)
  <2>1. CASE k <= n
    BY <1>1, <1>4, <1>7, <2>1
  <2>2. CASE k > n /\ w[n] \notin DOMAIN snap \ {0}
    BY <1>1, <1>2, <1>7, <2>2, AccountingAssumption
  <2>3. CASE w[n] \in DOMAIN snap \ {0}
    BY <1>5, <1>7, <2>3
  <2> QED BY <1>1, <2>1, <2>2, <2>3
<1>8. Owned(snap, p) <=> \E k \in Nat : w[k] = Controller
  BY <1>1, <1>4, <1>7
<1>9. n \in 0..n /\ a[n] = w[n]
  BY <1>1
<1> QED BY <1>5, <1>6, <1>8, <1>9 DEF n, w, a

\* The loop of isOwned never ends for some process of a table exactly if the
\* table is Endless: what SnapshotsAssumption leaves out is that and no more.
THEOREM EndlessForever ==
  ASSUME NEW snap, IsTable(snap)
  PROVE  Endless(snap) <=>
           \E p \in DOMAIN snap : \A k \in Nat : Walk(snap, p)[k] \in DOMAIN snap \ {0, Controller}
BY WalkDecides, Zenon DEF Endless

\* isOwned finds exactly the processes below the controller (ownership.go:60-74).
THEOREM OwnedBelow ==
  ASSUME NEW snap, IsTable(snap), ~Endless(snap), NEW p \in DOMAIN snap
  PROVE  Owned(snap, p) <=> p \in Descendants(snap, Controller)
<1> DEFINE n == Cardinality(DOMAIN snap)
           a == Ancestor(snap, p)
<1>1. /\ n \in Nat /\ DOMAIN a = 0..n /\ a[0] = p
      /\ \A k \in 0..n : k # 0 => a[k] = Parent(snap, a[k - 1])
  BY AncestorPath DEF IsTable
<1> HIDE DEF n, a
<1>2. ASSUME p \in Descendants(snap, Controller) PROVE Owned(snap, p)
  <2> DEFINE S == {q \in DOMAIN snap \cup {Controller} : Owned(snap, q)}
  <2>1. Controller \in S
    <3>1. 0 \in DOMAIN Ancestor(snap, Controller) /\ Ancestor(snap, Controller)[0] = Controller
      BY AncestorPath DEF IsTable
    <3> QED BY <3>1 DEF Owned
  <2>2. \A c \in DOMAIN snap : snap[c].ppid \in S => c \in S
    BY ChildOwned
  <2>3. S \in SUBSET (DOMAIN snap \cup {Controller})
    OBVIOUS
  <2> HIDE DEF S
  <2>4. p \in S
    BY <1>2, <2>1, <2>2, <2>3 DEF Descendants
  <2> QED BY <2>4 DEF S
<1>3. ASSUME Owned(snap, p) PROVE p \in Descendants(snap, Controller)
  <2>1. PICK k \in 0..n : a[k] = Controller
    BY <1>1, <1>3 DEF Owned, a
  <2>2. SUFFICES ASSUME NEW S \in SUBSET (DOMAIN snap \cup {Controller}),
                        Controller \in S,
                        \A c \in DOMAIN snap : snap[c].ppid \in S => c \in S
                 PROVE  p \in S
    BY DEF Descendants
  <2> DEFINE P == {j \in Nat : j <= k => a[k - j] \in S /\ a[k - j] # 0}
  <2>3. 0 \in P
    BY <2>1, <2>2, AccountingAssumption
  <2>4. ASSUME NEW j \in P PROVE j + 1 \in P
    <3> SUFFICES ASSUME j + 1 <= k
                 PROVE  a[k - (j + 1)] \in S /\ a[k - (j + 1)] # 0
      OBVIOUS
    <3>1. a[k - j] \in S /\ a[k - j] # 0
      OBVIOUS
    <3>2. a[k - j] = Parent(snap, a[k - (j + 1)])
      <4>1. k - j \in 0..n /\ k - j # 0 /\ (k - j) - 1 = k - (j + 1)
        BY <1>1
      <4> QED BY <1>1, <4>1
    <3>3. a[k - (j + 1)] \in DOMAIN snap \ {0}
          /\ a[k - j] = snap[a[k - (j + 1)]].ppid
      BY <3>1, <3>2 DEF Parent
    <3> QED BY <2>2, <3>1, <3>3
  <2>5. P = Nat
    <3>1. P \in SUBSET Nat
      OBVIOUS
    <3> HIDE DEF P
    <3> QED BY <2>3, <2>4, <3>1, NatSteps
  <2>6. a[k - k] \in S
    BY <2>5
  <2>7. k - k = 0
    OBVIOUS
  <2> QED BY <1>1, <2>6, <2>7
<1> QED BY <1>2, <1>3

-------------------------------------------------------------------------------
(* Samples.                                                                 *)

\* The memory of all processes is a natural number.
LEMMA RSSType ==
  ASSUME NEW snap, IsTable(snap)
  PROVE  RSS(snap, DOMAIN snap) \in Nat
<1> DEFINE f == [p \in DOMAIN snap |-> snap[p].rss]
<1>1. IsFiniteSet(DOMAIN snap) /\ \A p \in DOMAIN snap : f[p] = snap[p].rss /\ f[p] \in Nat
  BY DEF IsTable
<1> HIDE DEF f
<1> QED BY <1>1, RSSTotal, TotalType

\* Every process has one of the roles.
LEMMA Roles ==
  ASSUME NEW snap, IsTable(snap), NEW p \in DOMAIN snap
  PROVE  /\ Role(snap, p) \in BrowserRoles \cup {"controller", "target", "aux", "unknown"}
         /\ Role(snap, p) \in BrowserRoles <=>
              /\ p # Controller /\ ~Target(p) /\ Owned(snap, p)
              /\ Chromium(snap, p) \/ Chromium(snap, snap[p].ppid)
<1>1. snap[p].kind \in {"chromium", "renderer", "gpu", "utility", "other"}
  BY DEF IsTable, Kinds
<1>2. Chromium(snap, p) <=> snap[p].kind = "chromium"
  BY DEF Chromium
<1>3. CASE p = Controller
  <2>1. Role(snap, p) = "controller"
    BY <1>3 DEF Role, Target
  <2> QED BY <1>3, <2>1 DEF BrowserRoles
<1>4. CASE Target(p)
  <2>1. Role(snap, p) = "target"
    BY <1>4 DEF Role, Target
  <2> QED BY <1>4, <2>1 DEF BrowserRoles
<1>5. CASE p # Controller /\ ~Target(p) /\ ~Owned(snap, p)
  <2>1. Role(snap, p) = "unknown"
    BY <1>5 DEF Role
  <2> QED BY <1>5, <2>1 DEF BrowserRoles
<1>6. CASE p # Controller /\ ~Target(p) /\ Owned(snap, p)
  <2> DEFINE kind == snap[p].kind
             up   == Chromium(snap, snap[p].ppid)
  <2>1. Role(snap, p) =
          CASE kind = "chromium" /\ ~up -> "browser"
            [] kind = "chromium" /\ up  -> "renderer"
            [] kind # "chromium" /\ up  -> IF kind = "other" THEN "utility" ELSE kind
            [] OTHER                    -> "aux"
    BY <1>6 DEF Role
  <2>2. up \in BOOLEAN
    BY DEF Chromium
  <2> HIDE DEF up
  <2>3. CASE kind = "chromium" /\ ~up
    BY <1>2, <1>6, <2>1, <2>2, <2>3 DEF BrowserRoles
  <2>4. CASE kind = "chromium" /\ up
    BY <1>2, <1>6, <2>1, <2>2, <2>4 DEF BrowserRoles, up
  <2>5. CASE kind # "chromium" /\ up
    BY <1>1, <1>6, <2>1, <2>2, <2>5 DEF BrowserRoles, up
  <2>6. CASE kind # "chromium" /\ ~up
    BY <1>2, <1>6, <2>1, <2>2, <2>6 DEF BrowserRoles, up
  <2> QED BY <2>2, <2>3, <2>4, <2>5, <2>6
<1> QED BY <1>3, <1>4, <1>5, <1>6

\* The roles of browsers are given to the processes of the browser tree.
LEMMA RolesOfTree ==
  ASSUME NEW snap, IsTable(snap), ~Endless(snap)
  PROVE  InRoles(snap, BrowserRoles) = BrowserTree(snap)
<1>1. ASSUME NEW p \in DOMAIN snap
      PROVE  Role(snap, p) \in BrowserRoles <=> p \in BrowserTree(snap)
  <2>1. Owned(snap, p) <=> p \in Descendants(snap, Controller)
    BY OwnedBelow
  <2>2. Owned(snap, p) => p # 0
    BY ZeroPath DEF IsTable
  <2>3. Owned(snap, p) /\ p # Controller => (~Target(p) <=> p # TargetPid)
    BY <2>2 DEF Target
  <2> QED BY <2>1, <2>3, Roles DEF BrowserTree
<1>2. BrowserTree(snap) \subseteq DOMAIN snap
  BY DEF BrowserTree, Descendants
<1> QED BY <1>1, <1>2 DEF InRoles

\* Some of the processes have no more memory than all.
LEMMA PartRSS ==
  ASSUME NEW snap, IsTable(snap), NEW s \in SUBSET DOMAIN snap
  PROVE  RSS(snap, s) <= RSS(snap, DOMAIN snap)
<1> DEFINE f == [p \in DOMAIN snap |-> snap[p].rss]
<1>1. IsFiniteSet(DOMAIN snap) /\ \A p \in DOMAIN snap : f[p] = snap[p].rss /\ f[p] \in Nat
  BY DEF IsTable
<1> HIDE DEF f
<1>2. ASSUME NEW t \in SUBSET DOMAIN snap
      PROVE  IsFiniteSet(t) /\ RSS(snap, t) = Total(f, t) /\ Total(f, t) \in Nat
  <2>1. IsFiniteSet(t) /\ \A p \in t : f[p] = snap[p].rss /\ f[p] \in Nat
    BY <1>1, FS_Subset
  <2> QED BY <2>1, RSSTotal, TotalType
<1> DEFINE rest == DOMAIN snap \ s
<1>3. rest \in SUBSET DOMAIN snap /\ s \cap rest = {} /\ s \cup rest = DOMAIN snap
  OBVIOUS
<1> HIDE DEF rest
<1>4. Total(f, DOMAIN snap) = Total(f, s) + Total(f, rest)
  BY <1>1, <1>2, <1>3, TotalUnion
<1>5. DOMAIN snap \in SUBSET DOMAIN snap
  OBVIOUS
<1> QED BY <1>2, <1>3, <1>4, <1>5

\* A sample counts every process of the table once, those of unknown role too, and
\* as a browser exactly those of the browser tree (accounting.go:41-78,
\* ownership.go:53-112).
THEOREM AggregateOnce ==
  ASSUME NEW snap, IsTable(snap), ~Endless(snap)
  PROVE  Aggregate(snap) =
           [browser   |-> RSS(snap, BrowserTree(snap)),
            benchmark |-> RSS(snap, DOMAIN snap),
            processes |-> Cardinality(DOMAIN snap),
            browsers  |-> Cardinality(BrowserTree(snap))]
<1> DEFINE f    == [p \in DOMAIN snap |-> snap[p].rss]
           tree == InRoles(snap, BrowserRoles)
           main == InRoles(snap, {"controller", "target"})
           rest == InRoles(snap, {"aux", "unknown"})
<1>1. IsFiniteSet(DOMAIN snap) /\ \A p \in DOMAIN snap : f[p] \in Nat
  BY DEF IsTable
<1>2. /\ tree \in SUBSET DOMAIN snap /\ main \in SUBSET DOMAIN snap
      /\ rest \in SUBSET DOMAIN snap
  BY DEF InRoles
<1>3. /\ main \cap tree = {} /\ (main \cup tree) \cap rest = {}
      /\ (main \cup tree) \cup rest = DOMAIN snap
  BY Roles DEF InRoles, BrowserRoles
<1>4. ASSUME NEW s \in SUBSET DOMAIN snap
      PROVE  IsFiniteSet(s) /\ RSS(snap, s) = Total(f, s) /\ Total(f, s) \in Nat
  <2>1. IsFiniteSet(s)
    BY <1>1, FS_Subset
  <2>2. \A p \in s : f[p] = snap[p].rss
    OBVIOUS
  <2>3. \A p \in s : f[p] \in Nat
    BY <1>1
  <2> HIDE DEF f
  <2> QED BY <2>1, <2>2, <2>3, RSSTotal, TotalType
<1> HIDE DEF f, tree, main, rest
<1>5. RSS(snap, main) + RSS(snap, tree) + RSS(snap, rest) = RSS(snap, DOMAIN snap)
  <2>1. Total(f, main \cup tree) = Total(f, main) + Total(f, tree)
    BY <1>1, <1>2, <1>3, <1>4, TotalUnion
  <2>2. Total(f, (main \cup tree) \cup rest) = Total(f, main \cup tree) + Total(f, rest)
    <3>1. main \cup tree \in SUBSET DOMAIN snap
      BY <1>2
    <3> QED BY <1>1, <1>2, <1>3, <1>4, <3>1, TotalUnion
  <2>3. Total(f, DOMAIN snap) = Total(f, main) + Total(f, tree) + Total(f, rest)
    BY <1>3, <2>1, <2>2
  <2> QED BY <1>2, <1>4, <2>3
<1> QED BY <1>5, RolesOfTree DEF Aggregate, tree, main, rest
===============================================================================
