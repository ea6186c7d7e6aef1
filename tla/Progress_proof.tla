--------------------------- MODULE Progress_proof ---------------------------
(***************************************************************************)
(* The progress of a goal, for any integers as metric, any number of       *)
(* checkpoints and stages and any weights: percentages stay percentages,   *)
(* the goal lies between its key results, and progress is never lost.      *)
(*                                                                         *)
(* Sums and the reading of a form are recursive functions.  The first part *)
(* proves, by induction over a set of numbers or of finite sets, that these*)
(* functions exist and what they satisfy; the second is about roundings and*)
(* segments, the last about the states of Progress.                        *)
(***************************************************************************)
EXTENDS Progress, TLAPS, WellFoundedInduction, FiniteSetTheorems

-----------------------------------------------------------------------------
\* Rounded quotients

LEMMA QuotientBounds ==
  ASSUME NEW a \in Int, NEW b \in Nat \ {0}
  PROVE  /\ a \div b \in Int
         /\ b * (a \div b) <= a
         /\ a < b * (a \div b) + b
OBVIOUS

LEMMA QuotientUnique ==
  ASSUME NEW a \in Int, NEW b \in Nat \ {0}, NEW q \in Int, b * q <= a, a < b * q + b
  PROVE  a \div b = q
OBVIOUS

LEMMA QuotientMonotone ==
  ASSUME NEW a \in Int, NEW c \in Int, a <= c, NEW b \in Nat \ {0}
  PROVE  a \div b <= c \div b
OBVIOUS

-----------------------------------------------------------------------------
\* Induction over sets of numbers and over finite sets

LEMMA Induction ==
  ASSUME NEW T, 0 \in T, \A n \in Nat : n \in T => n + 1 \in T
  PROVE  \A n \in Nat : n \in T
<1> DEFINE Bad == Nat \ T
<1> SUFFICES ASSUME Bad # {} PROVE FALSE
  OBVIOUS
<1>1. PICK x \in Bad : \A y \in Bad : ~(<<y, x>> \in OpToRel(<, Nat))
  BY WFMin, NatLessThanWellFounded
<1>2. \A y \in Bad : ~(y < x)
  BY <1>1 DEF OpToRel
<1>3. x # 0 /\ x - 1 \in Nat
  OBVIOUS
<1>4. x - 1 \in T
  BY <1>2, <1>3
<1> QED
  BY <1>3, <1>4

\* The member of s that a sum over s adds first.
First(s) == CHOOSE x \in s : TRUE

LEMMA WithoutFirst ==
  ASSUME NEW S, IsFiniteSet(S), NEW s \in SUBSET S, s # {}
  PROVE  /\ First(s) \in s /\ s \ {First(s)} \in SUBSET S
         /\ Cardinality(s) \in Nat /\ Cardinality(s \ {First(s)}) = Cardinality(s) - 1
         /\ Cardinality(s) - 1 \in Nat
<1>1. First(s) \in s
  BY DEF First
<1>2. IsFiniteSet(s)
  BY FS_Subset
<1>3. /\ IsFiniteSet(s \ {First(s)})
      /\ Cardinality(s \ {First(s)}) = Cardinality(s) - 1
  BY <1>1, <1>2, FS_RemoveElement
<1>4. Cardinality(s) \in Nat /\ Cardinality(s \ {First(s)}) \in Nat
  BY <1>2, <1>3, FS_CardinalityType
<1> QED
  BY <1>1, <1>3, <1>4

\* A finite set is reached by adding its members one by one.
LEMMA FiniteInduction ==
  ASSUME NEW S, IsFiniteSet(S), NEW T, {} \in T,
         \A s \in SUBSET S : s # {} /\ s \ {First(s)} \in T => s \in T
  PROVE  \A s \in SUBSET S : s \in T
<1> DEFINE N == {n \in Nat : \A s \in SUBSET S : Cardinality(s) = n => s \in T}
<1>1. \A s \in SUBSET S : IsFiniteSet(s) /\ Cardinality(s) \in Nat /\ (Cardinality(s) = 0 => s = {})
  BY FS_Subset, FS_CardinalityType, FS_EmptySet
<1>2. 0 \in N
  BY <1>1
<1>3. ASSUME NEW n \in Nat, n \in N PROVE n + 1 \in N
  <2> SUFFICES ASSUME NEW s \in SUBSET S, Cardinality(s) = n + 1 PROVE s \in T
    OBVIOUS
  <2>1. s # {}
    BY FS_EmptySet
  <2>2. s \ {First(s)} \in SUBSET S /\ Cardinality(s \ {First(s)}) = n
    BY <2>1, WithoutFirst
  <2> QED
    BY <1>3, <2>1, <2>2
<1>4. \A n \in Nat : n \in N
  <2> HIDE DEF N
  <2> QED
    BY <1>2, <1>3, Induction
<1> QED
  BY <1>1, <1>4

-----------------------------------------------------------------------------
\* Sums

\* h gives the sum of f over every subset of S.
Sums(f, S, h) ==
  h = [s \in SUBSET S |-> IF s = {} THEN 0 ELSE f[First(s)] + h[s \ {First(s)}]]

LEMMA SumChosen ==
  ASSUME NEW f
  PROVE  SumFunction(f) = (CHOOSE h : Sums(f, DOMAIN f, h))[DOMAIN f]
BY DEF SumFunction, SumFunctionOnSet, FoldFunctionOnSet, MapThenFoldSet, Sums, First

LEMMA SumsExist ==
  ASSUME NEW f, NEW S, IsFiniteSet(S)
  PROVE  \E h : Sums(f, S, h)
<1> DEFINE UpTo(n) == {s \in SUBSET S : Cardinality(s) <= n}
           SumsTo(n, h) == h = [s \in UpTo(n) |-> IF s = {} THEN 0 ELSE f[First(s)] + h[s \ {First(s)}]]
           N == {n \in Nat : \E h : SumsTo(n, h)}
<1>1. 0 \in N
  <2> DEFINE h == [s \in UpTo(0) |-> 0]
  <2>1. \A s \in UpTo(0) : s = {}
    <3> SUFFICES ASSUME NEW s \in SUBSET S, Cardinality(s) <= 0, s # {} PROVE FALSE
      OBVIOUS
    <3>1. Cardinality(s) \in Nat /\ Cardinality(s) - 1 \in Nat
      BY WithoutFirst
    <3> QED
      BY <3>1
  <2>2. SumsTo(0, h)
    BY <2>1
  <2> QED
    BY <2>2
<1>2. ASSUME NEW n \in Nat, n \in N PROVE n + 1 \in N
  <2>1. PICK h : SumsTo(n, h)
    BY <1>2
  <2> DEFINE g == [s \in UpTo(n + 1) |-> IF s = {} THEN 0 ELSE f[First(s)] + h[s \ {First(s)}]]
  <2>2. \A s \in UpTo(n) : g[s] = h[s]
    <3>1. \A s \in UpTo(n) : s \in UpTo(n + 1)
      <4> SUFFICES ASSUME NEW s \in UpTo(n) PROVE s \in UpTo(n + 1)
        OBVIOUS
      <4>1. Cardinality(s) \in Nat
        BY FS_Subset, FS_CardinalityType
      <4> QED
        BY <4>1
    <3> QED
      BY <2>1, <3>1
  <2>3. \A s \in UpTo(n + 1) : s # {} => s \ {First(s)} \in UpTo(n)
    BY WithoutFirst
  <2>4. SumsTo(n + 1, g)
    BY <2>2, <2>3
  <2>5. \E k : SumsTo(n + 1, k)
    <3> HIDE DEF SumsTo, g
    <3> QED
      BY <2>4
  <2> QED
    <3> HIDE DEF SumsTo
    <3> QED
      BY <2>5
<1>3. \A n \in Nat : n \in N
  <2> HIDE DEF N
  <2> QED
    BY <1>1, <1>2, Induction
<1>4. Cardinality(S) \in Nat /\ UpTo(Cardinality(S)) = SUBSET S
  BY FS_Subset, FS_CardinalityType
<1>5. PICK h : SumsTo(Cardinality(S), h)
  BY <1>3, <1>4
<1> QED
  BY <1>4, <1>5 DEF Sums

\* What the sums of a function with a finite domain satisfy.
LEMMA SumsOf ==
  ASSUME NEW f, IsFiniteSet(DOMAIN f)
  PROVE  \E h : /\ SumFunction(f) = h[DOMAIN f] /\ h[{}] = 0
                /\ \A s \in SUBSET DOMAIN f :
                      s # {} => h[s] = f[First(s)] + h[s \ {First(s)}]
<1> DEFINE h == CHOOSE g : Sums(f, DOMAIN f, g)
<1>1. Sums(f, DOMAIN f, h)
  BY SumsExist
<1>2. SumFunction(f) = h[DOMAIN f]
  BY SumChosen
<1> HIDE DEF h
<1>3. h[{}] = 0 /\ \A s \in SUBSET DOMAIN f : s # {} => h[s] = f[First(s)] + h[s \ {First(s)}]
  BY <1>1 DEF Sums
<1> QED
  BY <1>2, <1>3

\* A sum of naturals is one, and at least each of them.
LEMMA SumOfNaturals ==
  ASSUME NEW f, IsFiniteSet(DOMAIN f), \A x \in DOMAIN f : f[x] \in Nat
  PROVE  SumFunction(f) \in Nat /\ \A x \in DOMAIN f : f[x] <= SumFunction(f)
<1>1. PICK h : /\ SumFunction(f) = h[DOMAIN f] /\ h[{}] = 0
               /\ \A s \in SUBSET DOMAIN f :
                     s # {} => h[s] = f[First(s)] + h[s \ {First(s)}]
  BY SumsOf
<1> DEFINE T == {s \in SUBSET DOMAIN f : h[s] \in Nat /\ \A x \in s : f[x] <= h[s]}
<1>2. {} \in T
  BY <1>1
<1>3. ASSUME NEW s \in SUBSET DOMAIN f, s # {}, s \ {First(s)} \in T PROVE s \in T
  <2>1. First(s) \in s /\ h[s] = f[First(s)] + h[s \ {First(s)}]
    BY <1>1, <1>3, WithoutFirst
  <2>2. f[First(s)] \in Nat /\ h[s \ {First(s)}] \in Nat
    BY <1>3, <2>1
  <2>3. ASSUME NEW x \in s PROVE f[x] <= h[s]
    <3>1. f[x] \in Nat /\ (x = First(s) \/ f[x] <= h[s \ {First(s)}])
      BY <1>3
    <3> QED
      BY <2>1, <2>2, <3>1
  <2> QED
    BY <2>1, <2>2, <2>3
<1>4. DOMAIN f \in T
  <2>1. \A s \in SUBSET DOMAIN f : s \in T
    <3> HIDE DEF T
    <3> QED
      BY <1>2, <1>3, FiniteInduction
  <2> QED
    BY <2>1
<1> QED
  BY <1>1, <1>4

LEMMA SumMonotone ==
  ASSUME NEW f, NEW g, DOMAIN g = DOMAIN f, IsFiniteSet(DOMAIN f),
         \A x \in DOMAIN f : f[x] \in Nat /\ g[x] \in Nat /\ f[x] <= g[x]
  PROVE  SumFunction(f) <= SumFunction(g)
<1>1. PICK h : /\ SumFunction(f) = h[DOMAIN f] /\ h[{}] = 0
               /\ \A s \in SUBSET DOMAIN f :
                     s # {} => h[s] = f[First(s)] + h[s \ {First(s)}]
  BY SumsOf
<1>2. PICK k : /\ SumFunction(g) = k[DOMAIN g] /\ k[{}] = 0
               /\ \A s \in SUBSET DOMAIN g :
                     s # {} => k[s] = g[First(s)] + k[s \ {First(s)}]
  BY SumsOf
<1> DEFINE T == {s \in SUBSET DOMAIN f : h[s] \in Nat /\ k[s] \in Nat /\ h[s] <= k[s]}
<1>3. {} \in T
  BY <1>1, <1>2
<1>4. ASSUME NEW s \in SUBSET DOMAIN f, s # {}, s \ {First(s)} \in T PROVE s \in T
  <2>1. /\ First(s) \in DOMAIN f /\ h[s] = f[First(s)] + h[s \ {First(s)}]
        /\ k[s] = g[First(s)] + k[s \ {First(s)}]
    BY <1>1, <1>2, <1>4, WithoutFirst
  <2> QED
    BY <1>4, <2>1
<1>5. DOMAIN f \in T
  <2>1. \A s \in SUBSET DOMAIN f : s \in T
    <3> HIDE DEF T
    <3> QED
      BY <1>3, <1>4, FiniteInduction
  <2> QED
    BY <2>1
<1> QED
  BY <1>1, <1>2, <1>5

LEMMA SumScaled ==
  ASSUME NEW f, NEW g, DOMAIN g = DOMAIN f, IsFiniteSet(DOMAIN f), NEW c \in Nat,
         \A x \in DOMAIN f : f[x] \in Nat /\ g[x] = c * f[x]
  PROVE  SumFunction(g) = c * SumFunction(f)
<1>1. PICK h : /\ SumFunction(f) = h[DOMAIN f] /\ h[{}] = 0
               /\ \A s \in SUBSET DOMAIN f :
                     s # {} => h[s] = f[First(s)] + h[s \ {First(s)}]
  BY SumsOf
<1>2. PICK k : /\ SumFunction(g) = k[DOMAIN g] /\ k[{}] = 0
               /\ \A s \in SUBSET DOMAIN g :
                     s # {} => k[s] = g[First(s)] + k[s \ {First(s)}]
  BY SumsOf
<1> DEFINE T == {s \in SUBSET DOMAIN f : h[s] \in Nat /\ k[s] = c * h[s]}
<1>3. {} \in T
  BY <1>1, <1>2
<1>4. ASSUME NEW s \in SUBSET DOMAIN f, s # {}, s \ {First(s)} \in T PROVE s \in T
  <2>1. /\ First(s) \in DOMAIN f /\ h[s] = f[First(s)] + h[s \ {First(s)}]
        /\ k[s] = g[First(s)] + k[s \ {First(s)}]
    BY <1>1, <1>2, <1>4, WithoutFirst
  <2>2. f[First(s)] \in Nat /\ g[First(s)] = c * f[First(s)]
    BY <2>1
  <2>3. h[s \ {First(s)}] \in Nat /\ k[s \ {First(s)}] = c * h[s \ {First(s)}]
    BY <1>4
  <2>4. \A m, n \in Nat : c * m + c * n = c * (m + n)
    OBVIOUS
  <2>5. c * f[First(s)] + c * h[s \ {First(s)}] = c * (f[First(s)] + h[s \ {First(s)}])
    BY <2>2, <2>3, <2>4
  <2>6. h[s] \in Nat
    BY <2>1, <2>2, <2>3
  <2>7. k[s] = c * h[s]
    BY <2>1, <2>2, <2>3, <2>5
  <2> QED
    BY <2>6, <2>7
<1>5. DOMAIN f \in T
  <2>1. \A s \in SUBSET DOMAIN f : s \in T
    <3> HIDE DEF T
    <3>1. \A s \in SUBSET DOMAIN f : s # {} /\ s \ {First(s)} \in T => s \in T
      BY <1>4
    <3> QED
      BY <1>3, <3>1, FiniteInduction, Zenon
  <2> QED
    BY <2>1
<1> QED
  BY <1>1, <1>2, <1>5

\* One of finitely or infinitely many naturals is the least.
LEMMA LeastExists ==
  ASSUME NEW T \in SUBSET Nat, T # {}
  PROVE  \E x \in T : \A y \in T : x <= y
<1>1. PICK x \in T : \A y \in T : ~(<<y, x>> \in OpToRel(<, Nat))
  BY WFMin, NatLessThanWellFounded
<1>2. \A y \in T : ~(y < x)
  BY <1>1 DEF OpToRel
<1> QED
  BY <1>2

-----------------------------------------------------------------------------
\* ProjectProgress

DoneWeights(s) == [i \in DOMAIN s |-> IF s[i].done THEN s[i].weight ELSE 0]

LEMMA DoneWeightsTyped ==
  ASSUME NEW s \in Seq(Stage)
  PROVE  /\ DOMAIN DoneWeights(s) = 1..Len(s) /\ IsFiniteSet(DOMAIN DoneWeights(s))
         /\ \A i \in DOMAIN s : DoneWeights(s)[i] \in Nat
<1>1. ASSUME NEW i \in DOMAIN s PROVE s[i].weight \in Nat
  <2>1. s[i] \in Stage
    OBVIOUS
  <2>2. s[i].weight \in StageWeight
    BY <2>1 DEF Stage
  <2>3. \A w \in StageWeight : w \in Nat
    BY ConstantsAssumption
  <2> QED
    BY <2>2, <2>3
<1>2. IsFiniteSet(1..Len(s))
  BY FS_Interval
<1> QED
  BY <1>1, <1>2 DEF DoneWeights

LEMMA ProjectProgressIs ==
  ASSUME NEW s
  PROVE  ProjectProgress(s) = IF SumFunction(DoneWeights(s)) > 100 THEN 100
                              ELSE SumFunction(DoneWeights(s))
BY DEF ProjectProgress, DoneWeights

LEMMA ProjectProgressBounded ==
  ASSUME NEW s \in Seq(Stage)
  PROVE  ProjectProgress(s) \in 0..100
<1> DEFINE total == SumFunction(DoneWeights(s))
<1>1. total \in Nat
  BY DoneWeightsTyped, SumOfNaturals
<1>2. ProjectProgress(s) = IF total > 100 THEN 100 ELSE total
  BY ProjectProgressIs
<1> HIDE DEF total
<1> QED
  BY <1>1, <1>2

LEMMA ProjectProgressNeverFalls ==
  ASSUME NEW s \in Seq(Stage), NEW t \in Seq(Stage), Len(t) = Len(s),
         \A i \in DOMAIN s : /\ t[i].weight = s[i].weight
                             /\ s[i].done => t[i].done
  PROVE  ProjectProgress(s) <= ProjectProgress(t)
<1>1. \A i \in DOMAIN s : DoneWeights(s)[i] <= DoneWeights(t)[i]
  BY DoneWeightsTyped DEF DoneWeights
<1>2. SumFunction(DoneWeights(s)) <= SumFunction(DoneWeights(t))
  BY <1>1, DoneWeightsTyped, SumMonotone
<1>3. SumFunction(DoneWeights(s)) \in Nat /\ SumFunction(DoneWeights(t)) \in Nat
  BY DoneWeightsTyped, SumOfNaturals
<1> QED
  BY <1>2, <1>3, ProjectProgressIs

-----------------------------------------------------------------------------
\* WeightedMean

Percents(p, w) ==
  /\ DOMAIN p = DOMAIN w /\ IsFiniteSet(DOMAIN w)
  /\ \A k \in DOMAIN w : p[k] \in Nat /\ w[k] \in Nat

Weighted(p, w) == [k \in DOMAIN p |-> p[k] * w[k]]

LEMMA MeanIs ==
  ASSUME NEW p, NEW w
  PROVE  WeightedMean(p, w) =
           IF SumFunction(w) = 0 THEN 0
           ELSE (2 * SumFunction(Weighted(p, w)) + SumFunction(w)) \div (2 * SumFunction(w))
BY DEF WeightedMean, Weighted

LEMMA SumsTyped ==
  ASSUME NEW p, NEW w, Percents(p, w)
  PROVE  /\ SumFunction(w) \in Nat /\ SumFunction(Weighted(p, w)) \in Nat
         /\ \A k \in DOMAIN w : w[k] <= SumFunction(w)
         /\ DOMAIN Weighted(p, w) = DOMAIN w
         /\ \A k \in DOMAIN w : Weighted(p, w)[k] = p[k] * w[k] /\ Weighted(p, w)[k] \in Nat
<1>1. /\ DOMAIN Weighted(p, w) = DOMAIN w
      /\ \A k \in DOMAIN w : Weighted(p, w)[k] = p[k] * w[k] /\ Weighted(p, w)[k] \in Nat
  BY DEF Percents, Weighted
<1>2. SumFunction(w) \in Nat /\ \A k \in DOMAIN w : w[k] <= SumFunction(w)
  BY SumOfNaturals DEF Percents
<1>3. SumFunction(Weighted(p, w)) \in Nat
  BY <1>1, SumOfNaturals DEF Percents
<1> QED
  BY <1>1, <1>2, <1>3

\* Rounding m * d / d gives m.
LEMMA RoundedWhole ==
  ASSUME NEW m \in Nat, NEW d \in Nat \ {0}, NEW n \in Nat, n = m * d
  PROVE  (2 * n + d) \div (2 * d) = m
<1>1. (2 * d) * m <= 2 * n + d /\ 2 * n + d < (2 * d) * m + 2 * d
  OBVIOUS
<1> QED
  BY <1>1, QuotientUnique

\* The mean is as great as every key result that has a weight, and not greater
\* than every one.
LEMMA MeanAtLeast ==
  ASSUME NEW p, NEW w, Percents(p, w), NEW m \in Nat,
         \A k \in DOMAIN w : w[k] > 0 => m <= p[k],
         \E k \in DOMAIN w : w[k] > 0
  PROVE  m <= WeightedMean(p, w)
<1> DEFINE d == SumFunction(w)
           n == SumFunction(Weighted(p, w))
           f == [k \in DOMAIN w |-> m * w[k]]
<1>1. d \in Nat \ {0} /\ n \in Nat
  <2>1. d \in Nat /\ n \in Nat /\ \A k \in DOMAIN w : w[k] <= d
    BY SumsTyped
  <2>2. PICK k \in DOMAIN w : w[k] > 0 /\ w[k] \in Nat
    BY DEF Percents
  <2> HIDE DEF d, n
  <2> QED
    BY <2>1, <2>2
<1>2. SumFunction(f) = m * d
  BY SumScaled DEF Percents
<1>3. SumFunction(f) <= n
  <2>1. ASSUME NEW k \in DOMAIN w
        PROVE  f[k] \in Nat /\ Weighted(p, w)[k] \in Nat /\ f[k] <= Weighted(p, w)[k]
    <3>1. p[k] \in Nat /\ w[k] \in Nat /\ (w[k] = 0 \/ m <= p[k])
      BY <2>1 DEF Percents
    <3>2. m * w[k] \in Nat /\ m * w[k] <= p[k] * w[k]
      BY <3>1
    <3> QED
      BY <2>1, <3>2, SumsTyped
  <2>2. DOMAIN f = DOMAIN Weighted(p, w) /\ IsFiniteSet(DOMAIN f)
    BY SumsTyped DEF Percents
  <2> HIDE DEF f
  <2>3. DOMAIN f = DOMAIN w
    BY <2>2, SumsTyped
  <2> QED
    BY <2>1, <2>2, <2>3, SumMonotone
<1>4. (2 * (m * d) + d) \div (2 * d) = m
  <2> HIDE DEF d
  <2> QED
    BY <1>1, RoundedWhole
<1>5. (2 * (m * d) + d) \div (2 * d) <= (2 * n + d) \div (2 * d)
  <2>1. m * d \in Nat /\ m * d <= n
    BY <1>1, <1>2, <1>3
  <2> HIDE DEF d, n
  <2> QED
    BY <1>1, <2>1, QuotientMonotone
<1>6. WeightedMean(p, w) = (2 * n + d) \div (2 * d)
  BY <1>1, MeanIs
<1> QED
  BY <1>4, <1>5, <1>6

LEMMA MeanAtMost ==
  ASSUME NEW p, NEW w, Percents(p, w), NEW m \in Nat,
         \A k \in DOMAIN w : w[k] > 0 => p[k] <= m
  PROVE  WeightedMean(p, w) \in 0..m
<1> DEFINE d == SumFunction(w)
           n == SumFunction(Weighted(p, w))
           f == [k \in DOMAIN w |-> m * w[k]]
<1>1. d \in Nat /\ n \in Nat
  BY SumsTyped
<1>2. SumFunction(f) = m * d
  BY SumScaled DEF Percents
<1>3. n <= SumFunction(f)
  <2>1. ASSUME NEW k \in DOMAIN w
        PROVE  f[k] \in Nat /\ Weighted(p, w)[k] \in Nat /\ Weighted(p, w)[k] <= f[k]
    <3>1. p[k] \in Nat /\ w[k] \in Nat /\ (w[k] = 0 \/ p[k] <= m)
      BY <2>1 DEF Percents
    <3>2. m * w[k] \in Nat /\ p[k] * w[k] <= m * w[k]
      BY <3>1
    <3> QED
      BY <2>1, <3>2, SumsTyped
  <2>2. DOMAIN f = DOMAIN Weighted(p, w) /\ IsFiniteSet(DOMAIN f)
    BY SumsTyped DEF Percents
  <2> HIDE DEF f
  <2>3. DOMAIN f = DOMAIN w
    BY <2>2, SumsTyped
  <2> QED
    BY <2>1, <2>2, <2>3, SumMonotone
<1>4. CASE d = 0
  BY <1>4, MeanIs
<1>5. CASE d # 0
  <2>1. (2 * (m * d) + d) \div (2 * d) = m
    <3> HIDE DEF d
    <3> QED
      BY <1>1, <1>5, RoundedWhole
  <2>2. (2 * n + d) \div (2 * d) <= (2 * (m * d) + d) \div (2 * d)
    <3>1. m * d \in Nat /\ n <= m * d
      BY <1>1, <1>2, <1>3
    <3> HIDE DEF d, n
    <3> QED
      BY <1>1, <1>5, <3>1, QuotientMonotone
  <2>3. (2 * n + d) \div (2 * d) \in Nat
    <3> HIDE DEF d, n
    <3> QED
      BY <1>1, <1>5
  <2>4. WeightedMean(p, w) = (2 * n + d) \div (2 * d)
    BY <1>5, MeanIs
  <2> QED
    BY <2>1, <2>2, <2>3, <2>4
<1> QED
  BY <1>4, <1>5

LEMMA MeanMonotone ==
  ASSUME NEW p, NEW q, NEW w, Percents(p, w), Percents(q, w), \A k \in DOMAIN w : p[k] <= q[k]
  PROVE  WeightedMean(p, w) <= WeightedMean(q, w)
<1> DEFINE d == SumFunction(w)
           n == SumFunction(Weighted(p, w))
           o == SumFunction(Weighted(q, w))
<1>1. d \in Nat /\ n \in Nat /\ o \in Nat
  BY SumsTyped
<1>2. n <= o
  <2>1. ASSUME NEW k \in DOMAIN w
        PROVE  /\ Weighted(p, w)[k] \in Nat /\ Weighted(q, w)[k] \in Nat
               /\ Weighted(p, w)[k] <= Weighted(q, w)[k]
    <3>1. p[k] \in Nat /\ q[k] \in Nat /\ w[k] \in Nat /\ p[k] <= q[k]
      BY <2>1 DEF Percents
    <3>2. p[k] * w[k] <= q[k] * w[k]
      BY <3>1
    <3> QED
      BY <2>1, <3>2, SumsTyped
  <2>2. /\ DOMAIN Weighted(p, w) = DOMAIN w /\ DOMAIN Weighted(q, w) = DOMAIN w
        /\ IsFiniteSet(DOMAIN w)
    BY SumsTyped DEF Percents
  <2> QED
    BY <2>1, <2>2, SumMonotone
<1>3. CASE d = 0
  BY <1>3, MeanIs
<1>4. CASE d # 0
  <2>1. (2 * n + d) \div (2 * d) <= (2 * o + d) \div (2 * d)
    <3> HIDE DEF d, n, o
    <3> QED
      BY <1>1, <1>2, <1>4, QuotientMonotone
  <2> QED
    BY <1>4, <2>1, MeanIs
<1> QED
  BY <1>3, <1>4

-----------------------------------------------------------------------------
\* clampPercent

LEMMA ClampBounds ==
  ASSUME NEW n \in Int, NEW d \in Nat \ {0}
  PROVE  ClampPercent(n, d) \in 0..100
<1>1. CASE n < 0 \/ n > 100 * d
  BY <1>1 DEF ClampPercent
<1>2. CASE 0 <= n /\ n <= 100 * d
  <2> DEFINE a == 2 * n + d
             b == 2 * d
             q == a \div b
  <2>1. a \in Int /\ b \in Nat \ {0} /\ 0 <= a /\ a < b * 101
    BY <1>2
  <2>2. q \in Int /\ b * q <= a /\ a < b * q + b
    <3> HIDE DEF a, b
    <3> QED
      BY <2>1, QuotientBounds
  <2>3. 0 <= q /\ q <= 100
    <3> HIDE DEF a, b, q
    <3> QED
      BY <2>1, <2>2
  <2> QED
    BY <1>2, <2>2, <2>3 DEF ClampPercent
<1> QED
  BY <1>1, <1>2

LEMMA ClampMonotone ==
  ASSUME NEW m \in Int, NEW n \in Int, m <= n, NEW d \in Nat \ {0}
  PROVE  ClampPercent(m, d) <= ClampPercent(n, d)
<1>1. CASE m < 0
  BY <1>1, ClampBounds DEF ClampPercent
<1>2. CASE n > 100 * d
  BY <1>2, ClampBounds DEF ClampPercent
<1>3. CASE 0 <= m /\ n <= 100 * d
  <2>1. (2 * m + d) \div (2 * d) <= (2 * n + d) \div (2 * d)
    BY QuotientMonotone
  <2> QED
    BY <1>3, <2>1 DEF ClampPercent
<1> QED
  BY <1>1, <1>2, <1>3

LEMMA ClampOfWhole ==
  ASSUME NEW p \in 0..100, NEW d \in Nat \ {0}, NEW n \in Int, n = p * d
  PROVE  ClampPercent(n, d) = p
<1>1. 0 <= n /\ n <= 100 * d
  OBVIOUS
<1>2. (2 * n + d) \div (2 * d) = p
  <2>1. (2 * d) * p <= 2 * n + d /\ 2 * n + d < (2 * d) * p + 2 * d
    OBVIOUS
  <2> QED
    BY <2>1, QuotientUnique
<1> QED
  BY <1>1, <1>2 DEF ClampPercent

-----------------------------------------------------------------------------
\* LinearProgress

\* Progress of a linear metric, or of a percent metric without checkpoints, is
\* a percentage, for any start, target and current value.
THEOREM LinearProgressBounded ==
  ASSUME NEW start \in Int, NEW target \in Int, NEW current \in Int
  PROVE  LinearProgress(start, target, current) \in 0..100
<1>1. CASE start = target
  BY <1>1 DEF LinearProgress
<1>2. CASE start < target
  <2>1. ClampPercent(100 * (current - start), target - start) \in 0..100
    <3>1. 100 * (current - start) \in Int /\ target - start \in Nat \ {0}
      BY <1>2
    <3> QED
      BY <3>1, ClampBounds
  <2> QED
    BY <1>2, <2>1 DEF LinearProgress
<1>3. CASE start > target
  <2>1. ClampPercent(100 * (start - current), start - target) \in 0..100
    <3>1. 100 * (start - current) \in Int /\ start - target \in Nat \ {0}
      BY <1>3
    <3> QED
      BY <3>1, ClampBounds
  <2> QED
    BY <1>3, <2>1 DEF LinearProgress
<1> QED
  BY <1>1, <1>2, <1>3

\* It is 0 at the start and 100 at the target, whether the metric is to rise or
\* to fall.
THEOREM LinearProgressEnds ==
  ASSUME NEW start \in Int, NEW target \in Int, start # target
  PROVE  /\ LinearProgress(start, target, start) = 0
         /\ LinearProgress(start, target, target) = 100
<1>1. CASE start < target
  <2>1. ClampPercent(100 * (start - start), target - start) = 0
    BY <1>1, ClampOfWhole
  <2>2. ClampPercent(100 * (target - start), target - start) = 100
    BY <1>1, ClampOfWhole
  <2> QED
    BY <1>1, <2>1, <2>2 DEF LinearProgress
<1>2. CASE start > target
  <2>1. ClampPercent(100 * (start - start), start - target) = 0
    BY <1>2, ClampOfWhole
  <2>2. ClampPercent(100 * (start - target), start - target) = 100
    BY <1>2, ClampOfWhole
  <2> QED
    BY <1>2, <2>1, <2>2 DEF LinearProgress
<1> QED
  BY <1>1, <1>2

\* It never falls while the metric goes towards the target.
THEOREM LinearProgressNeverFalls ==
  ASSUME NEW start \in Int, NEW target \in Int, NEW before \in Int, NEW after \in Int,
         \/ target > start /\ before <= after
         \/ target < start /\ before >= after
  PROVE  LinearProgress(start, target, before) <= LinearProgress(start, target, after)
<1>1. CASE start < target
  <2>1. ClampPercent(100 * (before - start), target - start)
          <= ClampPercent(100 * (after - start), target - start)
    BY <1>1, ClampMonotone
  <2> QED
    BY <1>1, <2>1 DEF LinearProgress
<1>2. CASE start > target
  <2>1. ClampPercent(100 * (start - before), start - target)
          <= ClampPercent(100 * (start - after), start - target)
    BY <1>2, ClampMonotone
  <2> QED
    BY <1>2, <2>1 DEF LinearProgress
<1> QED
  BY <1>1, <1>2

-----------------------------------------------------------------------------
\* PercentProgress

\* What CheckpointsMet needs of the types.
MetricOK ==
  /\ metric \in [kind : {"percent", "linear"}, start : Metric, target : Metric, current : Metric]
  /\ metric.start # metric.target
  /\ checkpoints \subseteq [value : Metric, percent : KRPercent]

LEMMA MetricTyped == Spec => []MetricOK
<1>1. Init => MetricOK
  BY DEF Init, MetricOK
<1>2. MetricOK /\ [Next]_vars => MetricOK'
  <2> SUFFICES ASSUME MetricOK, [Next]_vars PROVE MetricOK'
    OBVIOUS
  <2>1. ASSUME NEW v \in Metric, UpdateCurrent(v) PROVE MetricOK'
    BY <2>1 DEF UpdateCurrent, MetricOK
  <2>2. ASSUME NEW start \in Metric, NEW target \in Metric, NEW current \in Metric,
               EditMetric(start, target, current)
        PROVE  MetricOK'
    BY <2>2 DEF EditMetric, MetricOK
  <2>3. ASSUME NEW v \in Metric, NEW percent \in KRPercent, AddCheckpoint(v, percent)
        PROVE  MetricOK'
    BY <2>3 DEF AddCheckpoint, Point, MetricOK
  <2>4. CASE UNCHANGED <<metric, checkpoints>>
    BY <2>4 DEF MetricOK
  <2> QED
    BY <2>1, <2>2, <2>3, <2>4 DEF Next, vars, ToggleStage, AddStage, SaveStages, SetDone, SetWeights
<1> QED
  BY <1>1, <1>2, PTL DEF Spec

LEMMA PointsTyped ==
  ASSUME MetricOK, NEW q \in checkpoints \cup {Point(metric.start, 0), Point(metric.target, 100)}
  PROVE  q.value \in Int /\ q.percent \in 0..100
<1>1. CASE q \in checkpoints
  <2>1. q.value \in Metric /\ q.percent \in KRPercent
    BY <1>1 DEF MetricOK
  <2> QED
    BY <2>1, ConstantsAssumption
<1>2. CASE q = Point(metric.start, 0)
  <2>1. metric.start \in Int
    BY ConstantsAssumption DEF MetricOK
  <2>2. q.value = metric.start /\ q.percent = 0
    BY <1>2 DEF Point
  <2> QED
    BY <2>1, <2>2
<1>3. CASE q = Point(metric.target, 100)
  <2>1. metric.target \in Int
    BY ConstantsAssumption DEF MetricOK
  <2>2. q.value = metric.target /\ q.percent = 100
    BY <1>3 DEF Point
  <2> QED
    BY <2>1, <2>2
<1> QED
  BY <1>1, <1>2, <1>3

\* At the end of a segment the percent is that of its point.
LEMMA InterpolateAtRight ==
  ASSUME NEW left, NEW right, left.value \in Int, right.value \in Int,
         left.percent \in 0..100, right.percent \in 0..100, left.value < right.value
  PROVE  Interpolate(left, right, right.value) = right.percent
<1> DEFINE d == right.value - left.value
           lp == left.percent
           rp == right.percent
<1>1. d \in Nat \ {0} /\ lp \in Int /\ rp \in 0..100
  OBVIOUS
<1>2. lp * d + d * (rp - lp) \in Int /\ lp * d + d * (rp - lp) = rp * d
  <2> HIDE DEF d, lp, rp
  <2> QED
    BY <1>1
<1>3. ClampPercent(lp * d + d * (rp - lp), d) = rp
  <2> HIDE DEF d, lp, rp
  <2> QED
    BY <1>1, <1>2, ClampOfWhole
<1> QED
  BY <1>3 DEF Interpolate

\* With checkpoints that lead from start to target a metric that is at one of
\* them shows its percent, and start and target show 0 and 100: for any values,
\* percents and number of checkpoints.
THEOREM CheckpointsAlwaysMet == Spec => []CheckpointsMet
<1>1. MetricOK => CheckpointsMet
  <2> DEFINE s == metric.start
             t == metric.target
             points == checkpoints \cup {Point(s, 0), Point(t, 100)}
  <2> SUFFICES ASSUME MetricOK, metric.kind = "percent", Sensible,
                      NEW c \in points, metric.current = c.value,
                      NEW p \in PercentProgress(s, t, c.value, checkpoints)
               PROVE  p = c.percent
    BY DEF CheckpointsMet, KRProgress
  <2>1. s \in Int /\ t \in Int /\ s # t
    BY ConstantsAssumption DEF MetricOK
  <2>2. \A q \in points : q.value \in Int /\ q.percent \in 0..100
    BY PointsTyped
  <2> DEFINE first == Point(s, 0)
             last == Point(t, 100)
  <2>3. /\ first \in points /\ first.value = s /\ first.percent = 0
        /\ last \in points /\ last.value = t /\ last.percent = 100
    BY DEF Point
  <2>4. CASE checkpoints = {}
    <3>1. p = LinearProgress(s, t, c.value)
      BY <2>1, <2>4 DEF PercentProgress
    <3>2. c = Point(s, 0) \/ c = Point(t, 100)
      BY <2>4
    <3>3. CASE c = Point(s, 0)
      BY <2>1, <3>1, <3>3, LinearProgressEnds DEF Point
    <3>4. CASE c = Point(t, 100)
      BY <2>1, <3>1, <3>4, LinearProgressEnds DEF Point
    <3> QED
      BY <3>2, <3>3, <3>4
  <2>5. CASE checkpoints # {}
    <3>1. /\ s < t
          /\ \A q \in checkpoints : s < q.value /\ q.value < t
          /\ \A q, r \in checkpoints : q.value = r.value => q = r
      <4>1. /\ \A q \in checkpoints : s < q.value /\ q.value < t
            /\ \A q, r \in checkpoints : q.value = r.value => q = r
        BY <2>5 DEF Sensible
      <4>2. PICK q \in checkpoints : TRUE
        BY <2>5
      <4> QED
        BY <2>1, <2>2, <4>1, <4>2
    <3>2. \A q, r \in points : q.value = r.value => q = r
      BY <2>1, <3>1 DEF Point
    <3> DEFINE below == {q \in points : q.value < c.value}
               above == {q \in points : q.value >= c.value}
    <3>3. \A q \in points : s <= q.value /\ q.value <= t
      BY <2>1, <2>2, <2>3, <3>1
    <3>4. CASE below = {}
      <4>1. p = 0
        BY <2>1, <2>5, <3>4 DEF PercentProgress
      <4>2. c.value = s
        <5> HIDE DEF points
        <5> QED
          BY <2>1, <2>2, <2>3, <3>4, <3>3
      <4>3. c = first
        <5> HIDE DEF points, first
        <5> QED
          BY <2>3, <3>2, <4>2
      <4> QED
        BY <2>3, <4>1, <4>3
    <3>5. CASE below # {} /\ \A q \in points : q.value <= c.value
      <4>1. p = 100
        BY <2>1, <2>5, <3>5 DEF PercentProgress
      <4>2. c.value = t
        <5> HIDE DEF points
        <5> QED
          BY <2>1, <2>2, <2>3, <3>5, <3>3
      <4>3. c = last
        <5> HIDE DEF points, last
        <5> QED
          BY <2>3, <3>2, <4>2
      <4> QED
        BY <2>3, <4>1, <4>3
    <3>6. CASE below # {} /\ ~\A q \in points : q.value <= c.value
      <4>1. PICK l \in below, r \in above :
               /\ \A q \in above : r.value <= q.value
               /\ p = Interpolate(l, r, c.value)
        BY <2>1, <2>5, <3>6 DEF PercentProgress
      <4>2. c \in above
        BY <2>2
      <4>3. r.value = c.value
        BY <2>2, <4>1, <4>2
      <4>4. r = c
        BY <3>2, <4>1, <4>3
      <4> QED
        BY <2>2, <4>1, <4>4, InterpolateAtRight
    <3> QED
      BY <3>4, <3>5, <3>6
  <2> QED
    BY <2>4, <2>5
<1> QED
  BY <1>1, MetricTyped, PTL

LEMMA PercentBounded ==
  ASSUME MetricOK,
         NEW p \in PercentProgress(metric.start, metric.target, metric.current, checkpoints)
  PROVE  p \in 0..100
<1> DEFINE s == metric.start
           t == metric.target
           v == metric.current
<1>1. s \in Int /\ t \in Int /\ v \in Int
  BY ConstantsAssumption DEF MetricOK
<1>2. CASE p = 0 \/ p = 100 \/ p = LinearProgress(s, t, v)
  <2>1. LinearProgress(s, t, v) \in 0..100
    <3> HIDE DEF s, t, v
    <3> QED
      BY <1>1, LinearProgressBounded
  <2> QED
    BY <1>2, <2>1
<1> DEFINE points == checkpoints \cup {Point(s, 0), Point(t, 100)}
<1>3. CASE \E l \in points, r \in points :
              l.value < v /\ r.value >= v /\ p = Interpolate(l, r, v)
  <2>1. PICK l \in points, r \in points :
               l.value < v /\ r.value >= v /\ p = Interpolate(l, r, v)
    BY <1>3
  <2>2. \A q \in points : q.value \in Int /\ q.percent \in Int
    <3>1. \A q \in points : q.value \in Int /\ q.percent \in 0..100
      BY <1>1, PointsTyped
    <3> QED
      BY <3>1
  <2>3. r.value - l.value \in Nat \ {0}
    BY <1>1, <2>1, <2>2
  <2> DEFINE n == l.percent * (r.value - l.value) + (v - l.value) * (r.percent - l.percent)
  <2>4. n \in Int
    BY <1>1, <2>2
  <2>5. ClampPercent(n, r.value - l.value) \in 0..100
    BY <2>3, <2>4, ClampBounds
  <2> QED
    BY <2>1, <2>5 DEF Interpolate
<1>4. \/ p = 0 \/ p = 100 \/ p = LinearProgress(s, t, v)
      \/ \E l \in points, r \in points :
            l.value < v /\ r.value >= v /\ p = Interpolate(l, r, v)
  BY <1>1 DEF PercentProgress
<1> QED
  BY <1>2, <1>3, <1>4

\* Whatever checkpoints there are, PercentProgress is a percentage.
THEOREM PercentProgressBounded ==
  Spec => [](\A p \in PercentProgress(metric.start, metric.target, metric.current, checkpoints) :
                p \in 0..100)
<1>1. MetricOK =>
        \A p \in PercentProgress(metric.start, metric.target, metric.current, checkpoints) :
           p \in 0..100
  BY PercentBounded
<1> QED
  BY <1>1, MetricTyped, PTL

-----------------------------------------------------------------------------
\* The places at which a loop does not continue

Further(S, k, f) ==
  IF k = 0 THEN << >> ELSE IF k \in S THEN Append(f[k - 1], k) ELSE f[k - 1]

UpTo(n, S, f) == f = [k \in 0..n |-> Further(S, k, f)]

LEMMA FurtherIs ==
  ASSUME NEW S, NEW f, NEW k \in Nat
  PROVE  /\ Further(S, 0, f) = << >>
         /\ k + 1 \in S => Further(S, k + 1, f) = Append(f[k], k + 1)
         /\ k + 1 \notin S => Further(S, k + 1, f) = f[k]
<1>1. (k + 1) - 1 = k /\ k + 1 # 0
  OBVIOUS
<1> QED
  BY <1>1 DEF Further

LEMMA UpToExists ==
  ASSUME NEW S
  PROVE  \A n \in Nat : \E f : UpTo(n, S, f)
<1> DEFINE N == {n \in Nat : \E f : UpTo(n, S, f)}
<1>1. 0 \in N
  <2> DEFINE f == [k \in 0..0 |-> << >>]
  <2>1. UpTo(0, S, f)
    BY DEF UpTo
  <2> HIDE DEF f
  <2> QED
    BY <2>1
<1>2. ASSUME NEW n \in Nat, n \in N PROVE n + 1 \in N
  <2>1. PICK f : UpTo(n, S, f)
    BY <1>2
  <2> DEFINE g == [k \in 0..(n + 1) |-> Further(S, k, f)]
  <2>2. \A k \in 0..n : g[k] = f[k]
    BY <2>1 DEF UpTo
  <2>3. \A k \in 0..(n + 1) : k # 0 => k - 1 \in 0..n
    OBVIOUS
  <2>4. g = [k \in 0..(n + 1) |-> Further(S, k, g)]
    <3>1. \A k \in 0..(n + 1) : Further(S, k, g) = Further(S, k, f)
      <4> HIDE DEF g
      <4> QED
        BY <2>2, <2>3, Zenon DEF Further
    <3> QED
      BY <3>1
  <2>5. UpTo(n + 1, S, g)
    <3> HIDE DEF g
    <3> QED
      BY <2>4 DEF UpTo
  <2> HIDE DEF g
  <2> QED
    BY <2>5
<1> HIDE DEF N
<1>3. \A n \in Nat : n \in N
  BY <1>1, <1>2, Induction
<1> QED
  BY <1>3 DEF N

LEMMA InOrderTyped ==
  ASSUME NEW n \in Nat, NEW S
  PROVE  InOrder(n, S) \in Seq(S \cap (1..n))
<1> DEFINE f == CHOOSE g : UpTo(n, S, g)
           C == S \cap (1..n)
           N == {k \in Nat : k \in 0..n => f[k] \in Seq(C)}
<1>1. InOrder(n, S) = f[n]
  BY DEF InOrder, UpTo, Further
<1>2. UpTo(n, S, f)
  BY UpToExists
<1> HIDE DEF f
<1>3. 0 \in N
  <2>1. 0 \in 0..n
    OBVIOUS
  <2>2. f[0] = << >>
    BY <1>2, <2>1, FurtherIs DEF UpTo
  <2>3. << >> \in Seq(C)
    OBVIOUS
  <2> HIDE DEF C
  <2> QED
    BY <2>2, <2>3
<1>4. ASSUME NEW k \in Nat, k \in N PROVE k + 1 \in N
  <2> SUFFICES ASSUME k + 1 \in 0..n PROVE f[k + 1] \in Seq(C)
    OBVIOUS
  <2>1. f[k] \in Seq(C)
    BY <1>4
  <2>2. /\ k + 1 \in S => f[k + 1] = Append(f[k], k + 1)
        /\ k + 1 \notin S => f[k + 1] = f[k]
    <3>1. f[k + 1] = Further(S, k + 1, f)
      BY <1>2 DEF UpTo
    <3> QED
      BY <3>1, FurtherIs
  <2>3. k + 1 \in S => k + 1 \in C
    OBVIOUS
  <2> HIDE DEF C
  <2> QED
    BY <2>1, <2>2, <2>3
<1>5. \A k \in Nat : k \in N
  <2> HIDE DEF N
  <2> QED
    BY <1>3, <1>4, Induction
<1> QED
  BY <1>1, <1>5

-----------------------------------------------------------------------------
\* Stages

LEMMA StageFields ==
  ASSUME NEW s \in Seq(Stage), NEW i \in DOMAIN s
  PROVE  /\ s[i] = [weight |-> s[i].weight, done |-> s[i].done]
         /\ s[i].weight \in StageWeight /\ s[i].weight \in 1..100 /\ s[i].done \in BOOLEAN
<1>1. s[i] \in Stage
  OBVIOUS
<1>2. /\ s[i] = [weight |-> s[i].weight, done |-> s[i].done]
      /\ s[i].weight \in StageWeight /\ s[i].done \in BOOLEAN
  BY <1>1 DEF Stage
<1> QED
  BY <1>2, ConstantsAssumption

\* What a form for rows is read as: rows of its own, in their order.
LEMMA NamedTyped ==
  ASSUME NEW s \in Seq(Stage), NEW blank \in SUBSET (DOMAIN s), NEW form,
         form.titles = [i \in DOMAIN s |-> i \notin blank]
  PROVE  /\ Named(form) = InOrder(Len(s), DOMAIN s \ blank)
         /\ Named(form) \in Seq(DOMAIN s)
<1>1. DOMAIN form.titles = 1..Len(s) /\ Len(s) \in Nat
  OBVIOUS
<1>2. Len(form.titles) = Len(s)
  BY <1>1
<1>3. {i \in DOMAIN form.titles : form.titles[i]} = DOMAIN s \ blank
  OBVIOUS
<1>4. Named(form) = InOrder(Len(s), DOMAIN s \ blank)
  BY <1>2, <1>3 DEF Named
<1>5. Named(form) \in Seq((DOMAIN s \ blank) \cap (1..Len(s)))
  BY <1>1, <1>4, InOrderTyped
<1>6. (DOMAIN s \ blank) \cap (1..Len(s)) \subseteq DOMAIN s
  OBVIOUS
<1> QED
  BY <1>4, <1>5, <1>6

LEMMA ParsedTyped ==
  ASSUME NEW s \in Seq(Stage), NEW blank \in SUBSET (DOMAIN s), NEW form,
         form.titles = [i \in DOMAIN s |-> i \notin blank],
         form.weights = [i \in DOMAIN s |-> s[i].weight]
  PROVE  ParseProjectStages(form) \in Seq(Stage)
<1> DEFINE named == Named(form)
<1>1. named \in Seq(DOMAIN s)
  BY NamedTyped
<1> HIDE DEF named
<1>2. \A i \in DOMAIN named : named[i] \in DOMAIN s
  BY <1>1
<1>3. \A i \in DOMAIN named : form.weights[named[i]] \in StageWeight
  BY <1>2, StageFields
<1>4. ParseProjectStages(form) =
        IF \E i \in DOMAIN named : form.weights[named[i]] \notin 1..100
        THEN Refused
        ELSE [i \in DOMAIN named |->
                [weight |-> form.weights[named[i]],
                 done |-> named[i] \in DOMAIN form.dones /\ form.dones[named[i]]]]
  BY DEF ParseProjectStages, named
<1>5. CASE \E i \in DOMAIN named : form.weights[named[i]] \notin 1..100
  <2>1. ParseProjectStages(form) = << >>
    BY <1>4, <1>5 DEF Refused
  <2> QED
    BY <2>1
<1>6. CASE ~\E i \in DOMAIN named : form.weights[named[i]] \notin 1..100
  <2> DEFINE Row(i) == [weight |-> form.weights[named[i]],
                        done |-> named[i] \in DOMAIN form.dones /\ form.dones[named[i]]]
  <2>1. \A i \in DOMAIN named : Row(i) \in Stage
    BY <1>3 DEF Stage
  <2>2. ParseProjectStages(form) = [i \in DOMAIN named |-> Row(i)]
    BY <1>4, <1>6
  <2> HIDE DEF Row
  <2>3. DOMAIN named = 1..Len(named) /\ Len(named) \in Nat
    BY <1>1
  <2> QED
    BY <2>1, <2>2, <2>3
<1> QED
  BY <1>5, <1>6

-----------------------------------------------------------------------------
\* The type invariant

StagesOK ==
  /\ stages \in Seq(Stage) \ {<< >>}
  /\ isDone \in BOOLEAN
  /\ weight \in Weights

LEMMA FormsTyped ==
  ASSUME NEW s \in Seq(Stage), NEW blank \in SUBSET (DOMAIN s)
  PROVE  /\ ParseProjectStages(PageForm(s, blank)) \in Seq(Stage)
         /\ ParseProjectStages(DialogForm(s, blank)) \in Seq(Stage)
<1>1. /\ PageForm(s, blank).titles = [i \in DOMAIN s |-> i \notin blank]
      /\ PageForm(s, blank).weights = [i \in DOMAIN s |-> s[i].weight]
  BY DEF PageForm
<1>2. /\ DialogForm(s, blank).titles = PageForm(s, blank).titles
      /\ DialogForm(s, blank).weights = PageForm(s, blank).weights
  BY DEF DialogForm, PageForm
<1> QED
  BY <1>1, <1>2, ParsedTyped

LEMMA StagesTyped == Spec => []StagesOK
<1>1. Init => StagesOK
  <2> SUFFICES ASSUME Init PROVE StagesOK
    OBVIOUS
  <2>1. stages \in UNION {[1..m -> Stage] : m \in 0..MaxStages} /\ stages # << >>
    BY DEF Init, BoundedSeq, SeqOf
  <2>2. PICK m \in 0..MaxStages : stages \in [1..m -> Stage]
    BY <2>1
  <2>3. m \in Nat
    BY ConstantsAssumption
  <2>4. stages \in Seq(Stage)
    BY <2>2, <2>3
  <2> QED
    BY <2>1, <2>4 DEF Init, StagesOK
<1>2. StagesOK /\ [Next]_vars => StagesOK'
  <2> SUFFICES ASSUME StagesOK, [Next]_vars PROVE StagesOK'
    OBVIOUS
  <2>1. ASSUME NEW i \in DOMAIN stages, NEW done \in BOOLEAN, ToggleStage(i, done)
        PROVE  StagesOK'
    <3>1. [stages[i] EXCEPT !.done = done] \in Stage
      <4>1. [stages[i] EXCEPT !.done = done] = [weight |-> stages[i].weight, done |-> done]
        BY StageFields DEF StagesOK
      <4>2. stages[i].weight \in StageWeight
        BY StageFields DEF StagesOK
      <4> QED
        BY <4>1, <4>2 DEF Stage
    <3>2. stages' = [stages EXCEPT ![i] = [stages[i] EXCEPT !.done = done]]
      BY <2>1 DEF ToggleStage
    <3>3. stages' \in Seq(Stage) /\ Len(stages') = Len(stages)
      BY <3>1, <3>2 DEF StagesOK
    <3>4. Len(stages) # 0
      BY DEF StagesOK
    <3> QED
      BY <2>1, <3>3, <3>4 DEF ToggleStage, StagesOK
  <2>2. ASSUME NEW i \in 1..(Len(stages) + 1), NEW w \in StageWeight, AddStage(i, w)
        PROVE  StagesOK'
    <3> DEFINE row == [weight |-> w, done |-> FALSE]
               front == SubSeq(stages, 1, i - 1)
               back == SubSeq(stages, i, Len(stages))
    <3>1. row \in Stage
      BY DEF Stage
    <3>2. stages' = front \o <<row>> \o back
      BY <2>2 DEF AddStage, InsertAt
    <3>3. stages \in Seq(Stage) /\ Len(stages) \in Nat
      BY DEF StagesOK
    <3>4. front \in Seq(Stage) /\ back \in Seq(Stage)
      BY <3>3
    <3>5. stages' \in Seq(Stage) /\ stages' # << >>
      <4> HIDE DEF row, front, back
      <4>1. <<row>> \in Seq(Stage) /\ Len(<<row>>) = 1
        BY <3>1
      <4>2. front \o <<row>> \in Seq(Stage) /\ Len(front \o <<row>>) = Len(front) + 1
        BY <3>4, <4>1
      <4>3. /\ stages' \in Seq(Stage)
            /\ Len(stages') = Len(front) + 1 + Len(back)
        BY <3>2, <3>4, <4>2
      <4>4. Len(front) \in Nat /\ Len(back) \in Nat
        BY <3>4
      <4> QED
        BY <4>3, <4>4
    <3> QED
      BY <2>2, <3>5 DEF AddStage, StagesOK
  <2>3. ASSUME NEW blank \in SUBSET (DOMAIN stages),
               SaveStages(PageForm(stages, blank)) \/ SaveStages(DialogForm(stages, blank))
        PROVE  StagesOK'
    <3>1. stages' \in Seq(Stage)
      BY <2>3, FormsTyped DEF SaveStages, StagesOK
    <3>2. stages' # << >>
      BY <2>3 DEF SaveStages, Refused
    <3> QED
      BY <2>3, <3>1, <3>2 DEF SaveStages, StagesOK
  <2>4. CASE stages' = stages /\ isDone' \in BOOLEAN /\ weight' \in Weights
    BY <2>4 DEF StagesOK
  <2>5. CASE UNCHANGED vars
    BY <2>4, <2>5 DEF vars, StagesOK
  <2>6. CASE \E v \in Metric : UpdateCurrent(v)
    BY <2>4, <2>6 DEF UpdateCurrent, StagesOK
  <2>7. CASE \E start, target, current \in Metric : EditMetric(start, target, current)
    BY <2>4, <2>7 DEF EditMetric, StagesOK
  <2>8. CASE \E v \in Metric, percent \in KRPercent : AddCheckpoint(v, percent)
    BY <2>4, <2>8 DEF AddCheckpoint, StagesOK
  <2>9. CASE \E done \in BOOLEAN : SetDone(done)
    BY <2>4, <2>9 DEF SetDone, StagesOK
  <2>10. CASE \E w \in Weights : SetWeights(w)
    BY <2>4, <2>10 DEF SetWeights, StagesOK
  <2> QED
    BY <2>1, <2>2, <2>3, <2>5, <2>6, <2>7, <2>8, <2>9, <2>10 DEF Next
<1> QED
  BY <1>1, <1>2, PTL DEF Spec

\* Every variable keeps its type, however many stages and checkpoints there
\* are, and no request takes the last stage of a project.
THEOREM TypeCorrect == Spec => []TypeOK
<1>1. MetricOK /\ StagesOK => TypeOK
  BY DEF MetricOK, StagesOK, TypeOK
<1> QED
  BY <1>1, MetricTyped, StagesTyped, PTL

-----------------------------------------------------------------------------
\* The progress of the goal

LEMMA KeyResultsFinite == IsFiniteSet(KeyResult)
<1>1. IsFiniteSet({"metric"})
  BY FS_Singleton
<1>2. IsFiniteSet({"metric"} \cup {"project"})
  BY <1>1, FS_AddElement
<1>3. IsFiniteSet(({"metric"} \cup {"project"}) \cup {"boolean"})
  BY <1>2, FS_AddElement
<1>4. KeyResult = ({"metric"} \cup {"project"}) \cup {"boolean"}
  BY DEF KeyResult
<1> QED
  BY <1>3, <1>4

MetricProgress ==
  IF metric.kind = "percent"
  THEN PercentProgress(metric.start, metric.target, metric.current, checkpoints)
  ELSE {LinearProgress(metric.start, metric.target, metric.current)}

LEMMA KRProgressIs ==
  KRProgress = {[metric |-> p, project |-> ProjectProgress(stages),
                 boolean |-> BooleanProgress(isDone)] : p \in MetricProgress}
BY DEF KRProgress, MetricProgress

LEMMA KRProgressTyped ==
  ASSUME TypeOK, NEW p \in KRProgress
  PROVE  DOMAIN p = KeyResult /\ \A k \in KeyResult : p[k] \in 0..100
<1> USE DEF TypeOK
<1>1. PICK m \in MetricProgress :
         p = [metric |-> m, project |-> ProjectProgress(stages), boolean |-> BooleanProgress(isDone)]
  BY KRProgressIs
<1>2. m \in 0..100
  <2>1. CASE metric.kind = "percent"
    BY <1>1, <2>1, PercentBounded DEF MetricProgress, MetricOK
  <2>2. CASE metric.kind # "percent"
    <3>1. metric.start \in Int /\ metric.target \in Int /\ metric.current \in Int
      BY ConstantsAssumption
    <3>2. LinearProgress(metric.start, metric.target, metric.current) \in 0..100
      BY <3>1, LinearProgressBounded
    <3> QED
      BY <1>1, <2>2, <3>2 DEF MetricProgress
  <2> QED
    BY <2>1, <2>2
<1>3. ProjectProgress(stages) \in 0..100
  BY ProjectProgressBounded
<1>4. BooleanProgress(isDone) \in 0..100
  BY DEF BooleanProgress
<1> QED
  BY <1>1, <1>2, <1>3, <1>4 DEF KeyResult

\* The progress of each key result is a percentage, whatever checkpoints and
\* stages there are and however the weights of the stages add up.
THEOREM ProgressAlwaysBounded == Spec => []ProgressBounded
<1>1. TypeOK => ProgressBounded
  BY KRProgressTyped DEF ProgressBounded
<1> QED
  BY <1>1, TypeCorrect, PTL

LEMMA WeightTyped ==
  ASSUME TypeOK
  PROVE  DOMAIN weight = KeyResult /\ \A k \in KeyResult : weight[k] \in 0..100
<1>1. weight \in [KeyResult -> 0..100]
  BY ConstantsAssumption DEF TypeOK
<1> QED
  BY <1>1

LEMMA PercentsTyped ==
  ASSUME TypeOK, NEW p \in KRProgress
  PROVE  Percents(p, weight)
<1>1. /\ DOMAIN p = KeyResult /\ \A k \in KeyResult : p[k] \in 0..100
      /\ DOMAIN weight = KeyResult /\ \A k \in KeyResult : weight[k] \in 0..100
  BY KRProgressTyped, WeightTyped
<1> QED
  BY <1>1, KeyResultsFinite DEF Percents

\* The progress of the goal lies between those of two of its key results that
\* have a weight, rounding included.
THEOREM GoalAlwaysInBetween == Spec => []GoalInBetween
<1>1. TypeOK => GoalInBetween
  <2> DEFINE weighing == {k \in KeyResult : weight[k] > 0}
  <2> SUFFICES ASSUME TypeOK, NEW p \in KRProgress, weighing # {}
               PROVE  /\ \E k \in weighing : p[k] <= WeightedMean(p, weight)
                      /\ \E k \in weighing : WeightedMean(p, weight) <= p[k]
    BY DEF GoalInBetween
  <2>1. /\ Percents(p, weight) /\ DOMAIN weight = KeyResult
        /\ \A k \in KeyResult : p[k] \in 0..100
    BY PercentsTyped, WeightTyped, KRProgressTyped
  <2>2. \E k \in DOMAIN weight : weight[k] > 0
    BY <2>1
  <2>3. PICK k \in weighing : \A l \in weighing : p[k] <= p[l]
    <3> DEFINE T == {p[l] : l \in weighing}
    <3>1. T \in SUBSET Nat /\ T # {}
      BY <2>1
    <3>2. PICK x \in T : \A y \in T : x <= y
      <4> HIDE DEF T
      <4> QED
        BY <3>1, LeastExists
    <3> QED
      BY <3>2
  <2>4. p[k] <= WeightedMean(p, weight)
    <3>1. p[k] \in Nat /\ \A l \in DOMAIN weight : weight[l] > 0 => p[k] <= p[l]
      BY <2>1, <2>3
    <3> QED
      BY <2>1, <2>2, <3>1, MeanAtLeast
  <2>5. PICK j \in weighing : \A l \in weighing : p[l] <= p[j]
    <3> DEFINE T == {100 - p[l] : l \in weighing}
    <3>1. T \in SUBSET Nat /\ T # {}
      BY <2>1
    <3>2. PICK x \in T : \A y \in T : x <= y
      <4> HIDE DEF T
      <4> QED
        BY <3>1, LeastExists
    <3>3. PICK j \in weighing : x = 100 - p[j]
      BY <3>2
    <3>4. ASSUME NEW l \in weighing PROVE p[l] <= p[j]
      <4>1. 100 - p[j] <= 100 - p[l]
        BY <3>2, <3>3
      <4>2. p[j] \in 0..100 /\ p[l] \in 0..100
        BY <2>1
      <4>3. \A a, b \in 0..100 : 100 - a <= 100 - b => b <= a
        OBVIOUS
      <4> QED
        BY <4>1, <4>2, <4>3
    <3> QED
      BY <3>4
  <2>6. WeightedMean(p, weight) <= p[j]
    <3>1. p[j] \in Nat /\ \A l \in DOMAIN weight : weight[l] > 0 => p[l] <= p[j]
      BY <2>1, <2>5
    <3>2. WeightedMean(p, weight) \in 0..p[j]
      BY <2>1, <3>1, MeanAtMost
    <3> QED
      BY <3>1, <3>2
  <2> QED
    BY <2>3, <2>4, <2>5, <2>6
<1> QED
  BY <1>1, TypeCorrect, PTL

\* Whichever rows of a page have their title emptied, the form it submits is
\* read as the others, each with its own weight and mark.
THEOREM FormAlwaysKeepsMarks == Spec => []FormKeepsMarks
<1>1. TypeOK => FormKeepsMarks
  <2> SUFFICES ASSUME TypeOK, NEW blank \in SUBSET (DOMAIN stages)
               PROVE  ParseProjectStages(PageForm(stages, blank)) = Remaining(stages, blank)
    BY DEF FormKeepsMarks
  <2> DEFINE form == PageForm(stages, blank)
             named == Named(form)
  <2>1. stages \in Seq(Stage)
    BY DEF TypeOK
  <2>2. /\ form.titles = [i \in DOMAIN stages |-> i \notin blank]
        /\ form.weights = [i \in DOMAIN stages |-> stages[i].weight]
        /\ form.dones = [i \in DOMAIN stages |-> stages[i].done]
    BY DEF PageForm
  <2> HIDE DEF form
  <2>3. named = InOrder(Len(stages), DOMAIN stages \ blank) /\ named \in Seq(DOMAIN stages)
    BY <2>1, <2>2, NamedTyped
  <2>4. ParseProjectStages(form) =
          IF \E i \in DOMAIN named : form.weights[named[i]] \notin 1..100
          THEN Refused
          ELSE [i \in DOMAIN named |->
                  [weight |-> form.weights[named[i]],
                   done |-> named[i] \in DOMAIN form.dones /\ form.dones[named[i]]]]
    BY DEF ParseProjectStages
  <2>5. Remaining(stages, blank) = [i \in DOMAIN named |-> stages[named[i]]]
    BY <2>3 DEF Remaining
  <2> HIDE DEF named
  <2>6. ASSUME NEW i \in DOMAIN named
        PROVE  /\ form.weights[named[i]] \in 1..100
               /\ [weight |-> form.weights[named[i]],
                   done |-> named[i] \in DOMAIN form.dones /\ form.dones[named[i]]]
                  = stages[named[i]]
    <3>1. named[i] \in DOMAIN stages
      BY <2>3
    <3>2. /\ stages[named[i]] = [weight |-> stages[named[i]].weight,
                                 done |-> stages[named[i]].done]
          /\ stages[named[i]].weight \in 1..100 /\ stages[named[i]].done \in BOOLEAN
      BY <2>1, <3>1, StageFields
    <3>3. form.weights[named[i]] = stages[named[i]].weight
      BY <2>2, <3>1
    <3>4. (named[i] \in DOMAIN form.dones /\ form.dones[named[i]]) = stages[named[i]].done
      BY <2>2, <3>1, <3>2
    <3> QED
      BY <3>2, <3>3, <3>4
  <2>7. ParseProjectStages(form) = [i \in DOMAIN named |-> stages[named[i]]]
    <3>1. ~\E i \in DOMAIN named : form.weights[named[i]] \notin 1..100
      BY <2>6
    <3> QED
      BY <2>4, <2>6, <3>1
  <2> QED
    BY <2>5, <2>7 DEF form
<1> QED
  BY <1>1, TypeCorrect, PTL

-----------------------------------------------------------------------------
\* Progress towards the target

LEMMA PercentsInt ==
  ASSUME NEW a \in 0..100, NEW b \in 0..100, a <= b
  PROVE  a \in Nat /\ b - a \in Nat
OBVIOUS

\* On a segment along which percents rise, progress lies between those of its
\* ends, and rises.
LEMMA InterpolateBetween ==
  ASSUME NEW left, NEW right, left.value \in Int, right.value \in Int,
         left.percent \in 0..100, right.percent \in 0..100, left.percent <= right.percent,
         NEW v \in Int, left.value < v, v <= right.value
  PROVE  /\ Interpolate(left, right, v) \in 0..100
         /\ left.percent <= Interpolate(left, right, v)
         /\ Interpolate(left, right, v) <= right.percent
<1> DEFINE d == right.value - left.value
           e == v - left.value
           lp == left.percent
           rp == right.percent
           n == lp * d + e * (rp - lp)
<1>1. /\ d \in Nat \ {0} /\ e \in Nat /\ e <= d
      /\ lp \in 0..100 /\ rp \in 0..100 /\ lp \in Nat /\ rp - lp \in Nat
  <2>1. d \in Nat \ {0} /\ e \in Nat /\ e <= d
    OBVIOUS
  <2>2. lp \in Nat /\ rp - lp \in Nat
    BY PercentsInt
  <2> QED
    BY <2>1, <2>2
<1>2. n \in Int /\ lp * d <= n /\ n <= rp * d
  <2> DEFINE c == rp - lp
  <2>1. c \in Nat /\ rp = lp + c
    BY <1>1
  <2> HIDE DEF d, e, lp, rp, c
  <2>2. e * c \in Nat /\ e * c <= d * c
    BY <1>1, <2>1
  <2>3. rp * d = lp * d + d * c
    BY <1>1, <2>1
  <2>4. n = lp * d + e * c /\ lp * d \in Int /\ d * c \in Int
    BY <1>1, <2>1 DEF c
  <2> QED
    BY <2>2, <2>3, <2>4
<1>3. Interpolate(left, right, v) = ClampPercent(n, d)
  BY DEF Interpolate
<1> HIDE DEF d, e, lp, rp, n
<1>4. lp * d \in Int /\ rp * d \in Int
  BY <1>1
<1>5. ClampPercent(lp * d, d) = lp /\ ClampPercent(rp * d, d) = rp
  BY <1>1, <1>4, ClampOfWhole
<1>6. ClampPercent(lp * d, d) <= ClampPercent(n, d) /\ ClampPercent(n, d) <= ClampPercent(rp * d, d)
  BY <1>1, <1>2, <1>4, ClampMonotone
<1>7. ClampPercent(n, d) \in 0..100
  BY <1>1, <1>2, ClampBounds
<1> QED
  BY <1>3, <1>5, <1>6, <1>7 DEF lp, rp

LEMMA InterpolateMonotone ==
  ASSUME NEW left, NEW right, left.value \in Int, right.value \in Int,
         left.percent \in 0..100, right.percent \in 0..100, left.percent <= right.percent,
         left.value < right.value, NEW v \in Int, NEW w \in Int, v <= w
  PROVE  Interpolate(left, right, v) <= Interpolate(left, right, w)
<1> DEFINE d == right.value - left.value
           c == right.percent - left.percent
           b == left.percent * d
           x == v - left.value
           y == w - left.value
<1>1. d \in Nat \ {0} /\ c \in Nat /\ b \in Int /\ x \in Int /\ y \in Int /\ x <= y
  <2>1. d \in Nat \ {0} /\ x \in Int /\ y \in Int /\ x <= y
    OBVIOUS
  <2>2. left.percent \in Nat /\ c \in Nat
    BY PercentsInt
  <2>3. left.percent * d \in Int
    <3> HIDE DEF d
    <3> QED
      BY <2>1, <2>2
  <2> QED
    BY <2>1, <2>2, <2>3
<1>2. /\ Interpolate(left, right, v) = ClampPercent(b + x * c, d)
      /\ Interpolate(left, right, w) = ClampPercent(b + y * c, d)
  BY DEF Interpolate
<1> HIDE DEF d, c, b, x, y
<1>3. x * c \in Int /\ y * c \in Int /\ x * c <= y * c
  <2>1. (y - x) * c \in Nat
    BY <1>1
  <2>2. (y - x) * c = y * c - x * c
    BY <1>1
  <2> QED
    BY <1>1, <2>1, <2>2
<1>4. b + x * c \in Int /\ b + y * c \in Int /\ b + x * c <= b + y * c
  BY <1>1, <1>3
<1> QED
  BY <1>1, <1>2, <1>4, ClampMonotone

\* Between the same checkpoints or to later ones: progress never falls on the
\* way from s to t, if the checkpoints lead there.
LEMMA PercentNeverFalls ==
  ASSUME NEW s \in Int, NEW t \in Int, s # t, NEW cps, NEW v \in Int, NEW w \in Int,
         \A c \in cps : c.value \in Int /\ c.percent \in 0..100,
         \/ cps = {}
         \/ /\ \A c \in cps : s < c.value /\ c.value < t
            /\ \A c, e \in cps : c.value < e.value => c.percent <= e.percent
            /\ \A c, e \in cps : c.value = e.value => c = e,
         \/ t > s /\ v <= w
         \/ t < s /\ v >= w,
         NEW p \in PercentProgress(s, t, v, cps), p \in 0..100,
         NEW q \in PercentProgress(s, t, w, cps), q \in 0..100
  PROVE  p <= q
<1>1. CASE cps = {}
  <2>1. p = LinearProgress(s, t, v) /\ q = LinearProgress(s, t, w)
    BY <1>1 DEF PercentProgress
  <2> QED
    BY <2>1, LinearProgressNeverFalls
<1>2. CASE cps # {}
  <2> DEFINE first == Point(s, 0)
             last == Point(t, 100)
             points == cps \cup {first, last}
             Below(x) == {c \in points : c.value < x}
             Above(x) == {c \in points : c.value >= x}
  <2>1. s < t /\ v <= w
    <3>1. PICK c \in cps : s < c.value /\ c.value < t /\ c.value \in Int
      BY <1>2
    <3> QED
      BY <3>1
  <2>2. /\ first \in points /\ first.value = s /\ first.percent = 0
        /\ last \in points /\ last.value = t /\ last.percent = 100
    BY DEF Point
  <2>3. \A c \in points : c.value \in Int /\ c.percent \in 0..100
    BY <2>2
  <2>4. \A c, e \in points : c.value < e.value => c.percent <= e.percent
    <3> SUFFICES ASSUME NEW c \in points, NEW e \in points, c.value < e.value
                 PROVE  c.percent <= e.percent
      OBVIOUS
    <3>1. CASE c \in cps /\ e \in cps
      BY <1>2, <3>1
    <3>2. CASE c = first \/ e = last
      <4> HIDE DEF points, first, last
      <4> QED
        BY <2>2, <2>3, <3>2
    <3>3. c # last
      <4>1. e.value <= t
        BY <1>2, <2>1, <2>2
      <4> HIDE DEF points, first, last
      <4> QED
        BY <2>1, <2>2, <2>3, <4>1
    <3>4. e # first
      <4>1. s <= c.value
        BY <1>2, <2>1, <2>2
      <4> HIDE DEF points, first, last
      <4> QED
        BY <2>1, <2>2, <2>3, <4>1
    <3> QED
      BY <3>1, <3>2, <3>3, <3>4
  <2>5. \A c, e \in points : c.value = e.value => c = e
    <3>1. \A c \in cps : s < c.value /\ c.value < t
      BY <1>2
    <3>2. \A c, e \in cps : c.value = e.value => c = e
      BY <1>2
    <3> HIDE DEF first, last
    <3> QED
      BY <2>1, <2>2, <2>3, <3>1, <3>2
  <2>6. ASSUME NEW x \in Int, NEW m \in PercentProgress(s, t, x, cps)
        PROVE  \/ Below(x) = {} /\ m = 0
               \/ Below(x) # {} /\ (\A c \in points : c.value <= x) /\ m = 100
               \/ \E l \in Below(x), r \in Above(x) :
                     /\ \A c \in Below(x) : c.value <= l.value
                     /\ \A c \in Above(x) : r.value <= c.value
                     /\ m = Interpolate(l, r, x)
    BY <1>2, <2>1, <2>6 DEF PercentProgress
  <2> HIDE DEF points, first, last
  <2>7. CASE Below(v) = {} /\ p = 0
    BY <2>7
  <2>8. CASE Below(w) # {} /\ (\A c \in points : c.value <= w) /\ q = 100
    BY <2>8
  <2>9. Below(v) \subseteq Below(w)
    BY <2>1, <2>3
  <2>10. (\A c \in points : c.value <= v) => \A c \in points : c.value <= w
    BY <2>1, <2>3
  <2>11. ASSUME NEW l \in Below(v), NEW r \in Above(v),
                \A c \in Below(v) : c.value <= l.value,
                \A c \in Above(v) : r.value <= c.value,
                p = Interpolate(l, r, v),
                NEW k \in Below(w), NEW u \in Above(w),
                \A c \in Below(w) : c.value <= k.value,
                \A c \in Above(w) : u.value <= c.value,
                q = Interpolate(k, u, w)
         PROVE  p <= q
    <3>1. /\ l.value \in Int /\ r.value \in Int /\ k.value \in Int /\ u.value \in Int
          /\ l.percent \in 0..100 /\ r.percent \in 0..100
          /\ k.percent \in 0..100 /\ u.percent \in 0..100
      BY <2>3
    <3>2. l.value < v /\ v <= r.value /\ k.value < w /\ w <= u.value
      BY <3>1
    <3>3. l.percent <= r.percent /\ k.percent <= u.percent
      BY <2>4, <3>1, <3>2
    <3>4. CASE r.value <= k.value
      <4>1. r.percent <= k.percent
        <5>1. CASE r.value = k.value
          BY <2>5, <3>1, <5>1
        <5>2. CASE r.value < k.value
          BY <2>4, <5>2
        <5> QED
          BY <3>1, <3>4, <5>1, <5>2
      <4>2. p \in 0..100 /\ p <= r.percent
        BY <2>11, <3>1, <3>2, <3>3, InterpolateBetween
      <4>3. q \in 0..100 /\ k.percent <= q
        BY <2>11, <3>1, <3>2, <3>3, InterpolateBetween
      <4>4. p <= k.percent
        BY <3>1, <4>1, <4>2
      <4> QED
        BY <3>1, <4>3, <4>4
    <3>5. CASE k.value < r.value
      <4>1. k = l
        <5>1. k \in Below(v)
          BY <2>11, <3>1, <3>5
        <5>2. k.value <= l.value /\ l.value <= k.value
          BY <2>9, <2>11, <5>1
        <5> QED
          BY <2>5, <3>1, <5>2
      <4>2. u = r
        <5>1. r \in Above(w)
          BY <2>11, <3>1, <3>5
        <5>2. u \in Above(v)
          BY <2>1, <3>1, <3>2
        <5>3. u.value <= r.value /\ r.value <= u.value
          BY <2>11, <5>1, <5>2
        <5> QED
          BY <2>5, <3>1, <5>3
      <4>3. Interpolate(l, r, v) <= Interpolate(l, r, w)
        BY <2>1, <3>1, <3>2, <3>3, InterpolateMonotone
      <4> QED
        BY <2>11, <4>1, <4>2, <4>3
    <3> QED
      BY <3>1, <3>4, <3>5
  <2>12. CASE \E l \in Below(v), r \in Above(v) :
                 /\ \A c \in Below(v) : c.value <= l.value
                 /\ \A c \in Above(v) : r.value <= c.value
                 /\ p = Interpolate(l, r, v)
    <3>1. Below(w) # {}
      BY <2>9, <2>12
    <3> HIDE DEF Below, Above
    <3> QED
      BY <2>6, <2>8, <2>11, <2>12, <3>1
  <2>13. CASE Below(v) # {} /\ (\A c \in points : c.value <= v) /\ p = 100
    <3>1. Below(w) # {} /\ \A c \in points : c.value <= w
      BY <2>9, <2>10, <2>13
    <3>2. q = 100
      BY <1>2, <2>1, <3>1 DEF PercentProgress, points, first, last
    <3> QED
      BY <2>13, <3>2
  <2> QED
    <3> HIDE DEF Below, Above
    <3> QED
      BY <2>6, <2>7, <2>12, <2>13
<1> QED
  BY <1>1, <1>2

\* What the step needs to know of the outcomes before and after it.
Outcomes ==
  /\ TypeOK
  /\ \A p \in KRProgress : Percents(p, weight) /\ DOMAIN p = KeyResult /\ p.metric \in 0..100

LEMMA OutcomesTyped == Spec => []Outcomes
<1>1. TypeOK => Outcomes
  <2>1. "metric" \in KeyResult
    BY DEF KeyResult
  <2> QED
    BY <2>1, PercentsTyped, KRProgressTyped DEF Outcomes
<1> QED
  BY <1>1, TypeCorrect, PTL

LEMMA KindKept ==
  ASSUME TypeOK, [Next]_vars
  PROVE  metric'.kind = metric.kind
<1>1. ASSUME NEW v \in Metric, UpdateCurrent(v) PROVE metric'.kind = metric.kind
  BY <1>1 DEF UpdateCurrent, TypeOK
<1>2. ASSUME NEW start \in Metric, NEW target \in Metric, NEW current \in Metric,
             EditMetric(start, target, current)
      PROVE  metric'.kind = metric.kind
  BY <1>2 DEF EditMetric, TypeOK
<1> QED
  BY <1>1, <1>2 DEF Next, vars, AddCheckpoint, ToggleStage, AddStage, SaveStages, SetDone, SetWeights

\* Progress made on any key result never lowers the progress of the goal:
\* whatever the metric, its checkpoints that lead to the target, the stages and
\* the weights are, and through every rounding.
THEOREM ProgressIsNeverLost == Spec => ProgressNeverLost
<1>1. Outcomes /\ Outcomes' /\ [Next]_vars =>
        [/\ Sensible /\ checkpoints' = checkpoints /\ weight' = weight
         /\ Nearer(metric', metric)
         /\ isDone => isDone'
         /\ Len(stages') = Len(stages)
         /\ \A i \in DOMAIN stages : /\ stages'[i].weight = stages[i].weight
                                     /\ stages[i].done => stages'[i].done
         => \A p \in GoalProgress, q \in GoalProgress' : p <= q]_vars
  <2> SUFFICES ASSUME Outcomes, Outcomes', [Next]_vars,
                      Sensible, checkpoints' = checkpoints, weight' = weight,
                      Nearer(metric', metric),
                      isDone => isDone',
                      Len(stages') = Len(stages),
                      \A i \in DOMAIN stages : /\ stages'[i].weight = stages[i].weight
                                               /\ stages[i].done => stages'[i].done,
                      NEW p \in GoalProgress, NEW q \in GoalProgress'
               PROVE  p <= q
    OBVIOUS
  <2>1. PICK f \in KRProgress : p = WeightedMean(f, weight)
    BY DEF GoalProgress
  <2>2. PICK g \in KRProgress' : q = WeightedMean(g, weight)
    BY DEF GoalProgress
  <2>3. /\ Percents(f, weight) /\ DOMAIN f = KeyResult /\ f.metric \in 0..100
        /\ Percents(g, weight) /\ DOMAIN g = KeyResult /\ g.metric \in 0..100
    BY DEF Outcomes
  <2>4. /\ f.metric \in MetricProgress /\ f.project = ProjectProgress(stages)
        /\ f.boolean = BooleanProgress(isDone)
    BY <2>1 DEF KRProgress, MetricProgress
  <2>5. /\ g.metric \in MetricProgress' /\ g.project = ProjectProgress(stages')
        /\ g.boolean = BooleanProgress(isDone')
    BY <2>2 DEF KRProgress, MetricProgress
  <2>6. f.metric <= g.metric
    <3> DEFINE s == metric.start
               t == metric.target
               v == metric.current
               w == metric'.current
    <3>1. metric'.start = s /\ metric'.target = t /\ metric'.kind = metric.kind
      BY KindKept DEF Nearer, Outcomes
    <3>2. /\ s \in Int /\ t \in Int /\ s # t /\ v \in Int /\ w \in Int
      BY ConstantsAssumption DEF Outcomes, TypeOK
    <3>3. \/ t > s /\ v <= w
          \/ t < s /\ v >= w
      BY <3>1, <3>2 DEF Nearer
    <3>4. CASE metric.kind = "percent"
      <4>1. /\ f.metric \in PercentProgress(s, t, v, checkpoints)
            /\ g.metric \in PercentProgress(s, t, w, checkpoints)
        BY <2>4, <2>5, <3>1, <3>4 DEF MetricProgress
      <4>2. \A c \in checkpoints : c.value \in Int /\ c.percent \in 0..100
        BY PointsTyped DEF Outcomes, TypeOK, MetricOK
      <4>3. \/ checkpoints = {}
            \/ /\ \A c \in checkpoints : s < c.value /\ c.value < t
               /\ \A c, e \in checkpoints : c.value < e.value => c.percent <= e.percent
               /\ \A c, e \in checkpoints : c.value = e.value => c = e
        BY <3>4 DEF Sensible
      <4> HIDE DEF s, t, v, w
      <4> QED
        BY <2>3, <3>2, <3>3, <4>1, <4>2, <4>3, PercentNeverFalls
    <3>5. CASE metric.kind # "percent"
      <4>1. f.metric = LinearProgress(s, t, v) /\ g.metric = LinearProgress(s, t, w)
        BY <2>4, <2>5, <3>1, <3>5 DEF MetricProgress
      <4> HIDE DEF s, t, v, w
      <4> QED
        BY <3>2, <3>3, <4>1, LinearProgressNeverFalls
    <3> QED
      BY <3>4, <3>5
  <2>7. f.project <= g.project
    <3>1. stages \in Seq(Stage) /\ stages' \in Seq(Stage)
      BY DEF Outcomes, TypeOK
    <3> QED
      BY <2>4, <2>5, <3>1, ProjectProgressNeverFalls
  <2>8. f.boolean <= g.boolean
    <3>1. isDone \in BOOLEAN /\ isDone' \in BOOLEAN
      BY DEF Outcomes, TypeOK
    <3> QED
      BY <2>4, <2>5, <3>1 DEF BooleanProgress
  <2>9. \A k \in KeyResult : f[k] <= g[k]
    BY <2>6, <2>7, <2>8 DEF KeyResult
  <2>10. DOMAIN weight = KeyResult
    BY <2>3 DEF Percents
  <2> QED
    BY <2>1, <2>2, <2>3, <2>9, <2>10, MeanMonotone
<1> QED
  BY <1>1, OutcomesTyped, PTL DEF Spec, ProgressNeverLost

=============================================================================
