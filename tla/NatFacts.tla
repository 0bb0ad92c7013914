------------------------------ MODULE NatFacts ------------------------------
(***************************************************************************)
(* Facts about natural numbers that the proofs about several components    *)
(* share: least elements, induction over an interval, the existence of a   *)
(* function defined by recursion, and division.                            *)
(*                                                                         *)
(* The facts are stated about sets and functions, not about predicates     *)
(* and operators: an induction is over the set of the numbers for which    *)
(* a formula holds.                                                        *)
(***************************************************************************)
EXTENDS Integers, FiniteSets, FiniteSetTheorems, WellFoundedInduction, TLAPS

-----------------------------------------------------------------------------
(* Least elements and induction *)

\* A set of numbers of an interval, if it is not empty, has a least element.
LEMMA LeastInInterval ==
    ASSUME NEW n \in Nat, NEW S \in SUBSET (0..n), S # {}
    PROVE  \E k \in S : \A j \in S : k <= j
<1> DEFINE Below(k) == {j \in S : j < k}
           sets == {Below(k) : k \in S}
<1>0. \A j \in S : j \in Nat
  OBVIOUS
<1>1. IsFiniteSet(S)
  <2>1. IsFiniteSet(0..n)
    BY FS_Interval
  <2> QED
    BY <2>1, FS_Subset
<1>2. sets # {} /\ sets \subseteq FiniteSubsetsOf(S)
  <2>1. \A T \in sets : T \subseteq S
    OBVIOUS
  <2>2. \A T \in sets : IsFiniteSet(T)
    BY <1>1, <2>1, FS_Subset
  <2>3. PICK k \in S : TRUE
    OBVIOUS
  <2>4. Below(k) \in sets
    BY <2>3
  <2> QED
    BY <2>1, <2>2, <2>4 DEF FiniteSubsetsOf
<1>3. PICK least \in sets : \A T \in sets : <<T, least>> \notin StrictSubsetOrdering(S)
  <2> HIDE DEF sets
  <2> QED
    BY <1>2, FS_StrictSubsetOrderingWellFounded, WFMin
<1>4. PICK k \in S : least = Below(k)
  BY <1>3
<1>5. ASSUME NEW j \in S, j < k PROVE FALSE
  <2>1. j \in Below(k) /\ j \notin Below(j) /\ Below(j) \subseteq Below(k)
    <3>1. j \in Nat /\ k \in Nat /\ j < k
      BY <1>0, <1>5
    <3>2. \A x \in S : x \in Nat /\ (x < j => x < k)
      BY <1>0, <3>1
    <3>3. ~ (j < j)
      BY <3>1
    <3>4. Below(j) \subseteq Below(k)
      BY <3>2
    <3> QED
      BY <3>1, <3>3, <3>4
  <2>2. <<Below(j), least>> \in StrictSubsetOrdering(S)
    BY <1>4, <2>1 DEF StrictSubsetOrdering
  <2>3. Below(j) \in sets
    OBVIOUS
  <2> QED
    BY <1>3, <2>2, <2>3
<1> QED
  BY <1>0, <1>5

\* Induction over an interval: a set that has 0 and, with a number, the next
\* one, has the whole interval.
LEMMA IntervalInduction ==
    ASSUME NEW n \in Nat, NEW G, 0 \in G,
           \A i \in 0..n : i \in G /\ i + 1 <= n => i + 1 \in G
    PROVE  0..n \subseteq G
<1> DEFINE Missing == {i \in 0..n : i \notin G}
<1>1. SUFFICES ASSUME Missing # {} PROVE FALSE
  OBVIOUS
<1>2. Missing \in SUBSET (0..n)
  OBVIOUS
<1>3. PICK k \in Missing : \A j \in Missing : k <= j
  <2> HIDE DEF Missing
  <2> QED
    BY <1>1, <1>2, LeastInInterval
<1>4. k \in 0..n /\ k \notin G /\ k # 0
  BY <1>3
<1>5. k - 1 \in 0..n /\ (k - 1) + 1 = k /\ k - 1 \notin Missing
  BY <1>3, <1>4
<1> QED
  BY <1>4, <1>5

\* f is the run of n steps from c: its value at i is step[i] of that at i-1.
IsRun(f, n, S, c, step) ==
    /\ f \in [0..n -> S]
    /\ f[0] = c
    /\ \A i \in 1..n : f[i] = step[i][f[i-1]]

Steps(n, S) == [1..n -> [S -> S]]

\* A function defined by recursion over an interval exists.
LEMMA RecursionExists ==
    ASSUME NEW n \in Nat, NEW S, NEW c \in S, NEW step \in Steps(n, S)
    PROVE  \E f : IsRun(f, n, S, c, step)
<1> USE DEF Steps, IsRun
<1> DEFINE Good(m) == \E f \in [0..m -> S] :
                         /\ f[0] = c
                         /\ \A i \in 1..m : f[i] = step[i][f[i-1]]
           G == {m \in 0..n : Good(m)}
<1>1. 0 \in G
  <2> DEFINE g == [i \in 0..0 |-> c]
  <2>1. 0 \in 0..0 /\ 0 \in 0..n
    OBVIOUS
  <2>2. g \in [0..0 -> S] /\ g[0] = c
    BY <2>1
  <2>3. \A i \in 1..0 : g[i] = step[i][g[i-1]]
    OBVIOUS
  <2> HIDE DEF g
  <2>4. Good(0)
    BY <2>2, <2>3
  <2> QED
    BY <2>1, <2>4
<1>2. ASSUME NEW m \in 0..n, m \in G, m + 1 <= n PROVE m + 1 \in G
  <2>1. PICK f \in [0..m -> S] : /\ f[0] = c
                                 /\ \A i \in 1..m : f[i] = step[i][f[i-1]]
    BY <1>2
  <2>2. m \in Nat /\ m + 1 \in 0..n /\ m + 1 \in 1..n
    BY <1>2
  <2> DEFINE g == [i \in 0..(m+1) |-> IF i <= m THEN f[i] ELSE step[m+1][f[m]]]
  <2>3. f[m] \in S /\ step[m+1][f[m]] \in S
    BY <2>2
  <2>4. \A i \in 0..(m+1) : i <= m => i \in 0..m
    BY <2>2
  <2>5. g \in [0..(m+1) -> S]
    BY <2>3, <2>4
  <2>6. g[0] = c
    BY <2>1, <2>2
  <2>7. ASSUME NEW i \in 1..(m+1) PROVE g[i] = step[i][g[i-1]]
    <3>1. i \in 0..(m+1) /\ i - 1 \in 0..(m+1) /\ i - 1 <= m
      BY <2>2
    <3>2. g[i-1] = f[i-1]
      BY <3>1
    <3>3. CASE i <= m
      <4>1. i \in 1..m
        BY <3>3, <2>2
      <4> QED
        BY <3>1, <3>2, <3>3, <4>1, <2>1
    <3>4. CASE ~ (i <= m)
      <4>1. i = m + 1 /\ i - 1 = m
        BY <3>4, <2>2
      <4> QED
        BY <3>1, <3>2, <3>4, <4>1
    <3> QED
      BY <3>3, <3>4
  <2> HIDE DEF g
  <2> QED
    BY <2>2, <2>5, <2>6, <2>7
<1>3. 0..n \subseteq G
  <2> HIDE DEF G
  <2> QED
    BY <1>1, <1>2, IntervalInduction
<1>4. n \in G
  BY <1>3
<1> QED
  BY <1>4

-----------------------------------------------------------------------------
(* Products and quotients *)

LEMMA ProductMonotone ==
    ASSUME NEW a \in Nat, NEW b \in Nat, NEW m \in Nat, a <= b
    PROVE  a * m <= b * m
OBVIOUS

LEMMA ProductNat ==
    ASSUME NEW a \in Nat, NEW m \in Nat
    PROVE  a * m \in Nat
OBVIOUS

LEMMA DivMod ==
    ASSUME NEW a \in Nat, NEW m \in Nat \ {0}
    PROVE  /\ a \div m \in Nat
           /\ a % m \in 0..m-1
           /\ a = (a \div m) * m + (a % m)
OBVIOUS

LEMMA DivBelow ==
    ASSUME NEW a \in Nat, NEW m \in Nat \ {0}, NEW k \in Nat, a < k * m
    PROVE  a \div m < k
<1> DEFINE q == a \div m
<1>1. q \in Nat /\ a % m \in 0..m-1 /\ a = q * m + (a % m)
  BY DivMod
<1> HIDE DEF q
<1>2. SUFFICES ASSUME k <= q PROVE FALSE
  BY <1>1 DEF q
<1>3. k * m <= q * m
  BY <1>1, <1>2, ProductMonotone
<1>4. k * m \in Nat /\ q * m \in Nat
  BY <1>1, ProductNat
<1> QED
  BY <1>1, <1>3, <1>4

=============================================================================
