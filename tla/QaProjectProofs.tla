---------------------------- MODULE QaProjectProofs ----------------------------
(*****************************************************************************)
(* Theorems about the project for every payload and, where nothing else is   *)
(* said, every valid set of policies: the snapshots are those of the data,   *)
(* their numbers are in range, the two advisers agree, a GO is clean, deltas *)
(* explain scores, the overview and the evidence leave nothing out, the      *)
(* daily reports add up to the weekly one, and data that ages looks no       *)
(* better.                                                                   *)
(*                                                                           *)
(* The library's induction theorems take an operator; here induction is over *)
(* sets, from the least counterexample, and serves for the sums of scores.   *)
(*****************************************************************************)
EXTENDS QaProject, FiniteSetTheorems, WellFoundedInduction, TLAPS

--------------------------------------------------------------------------------
(* Induction over sets.                                                        *)

\* The order of the natural numbers, as the library's theorems take it.
LessThan == {pair \in Nat \X Nat : pair[1] < pair[2]}

LEMMA LessThanWellFounded == IsWellFoundedOn(LessThan, Nat)
  BY NatLessThanWellFounded DEF OpToRel, LessThan

\* A nonempty set of natural numbers has a least element.
LEMMA LeastExists ==
  ASSUME NEW S \in SUBSET Nat, S # {}
  PROVE  \E i \in S : \A j \in S : i <= j
<1>1. PICK i \in S : \A j \in S : ~(<<j, i>> \in LessThan)
  BY WFMin, LessThanWellFounded
<1>2. \A j \in S : ~(j < i)
  BY <1>1 DEF LessThan
<1>3. \A j \in S : i \in Nat /\ j \in Nat
  OBVIOUS
<1>4. \A j \in S : i <= j
  BY <1>2, <1>3
<1> QED
  BY <1>4

\* A set of natural numbers with 0 and all successors has them all.
LEMMA NumbersByInduction ==
  ASSUME NEW S \in SUBSET Nat, 0 \in S, \A n \in S : n + 1 \in S
  PROVE  S = Nat
<1> SUFFICES ASSUME Nat \ S # {} PROVE FALSE
  OBVIOUS
<1> DEFINE rest == Nat \ S
<1>1. PICK i \in rest : \A j \in rest : i <= j
  <2>1. rest \in SUBSET Nat /\ rest # {}
    OBVIOUS
  <2> HIDE DEF rest
  <2> QED
    BY <2>1, LeastExists
<1>2. i \in Nat /\ i # 0
  BY <1>1
<1>3. i - 1 \in Nat /\ ~(i <= i - 1)
  BY <1>2
<1>4. i - 1 \in S
  BY <1>1, <1>3
<1>5. (i - 1) + 1 = i
  BY <1>2
<1> QED
  BY <1>1, <1>4, <1>5

\* The element of a set that the folds of the library take out first.
First(s) == CHOOSE x \in s : TRUE

\* A family of subsets that has the empty set and, with a set less its first
\* element, the set itself, has all the subsets of a finite set.
LEMMA SubsetsByInduction ==
  ASSUME NEW D, IsFiniteSet(D), NEW F \in SUBSET (SUBSET D), {} \in F,
         \A s \in SUBSET D : s # {} /\ s \ {First(s)} \in F => s \in F
  PROVE  F = SUBSET D
<1> DEFINE T == {n \in Nat : \A s \in SUBSET D : Cardinality(s) = n => s \in F}
<1>1. \A s \in SUBSET D : IsFiniteSet(s) /\ Cardinality(s) \in Nat
  BY FS_Subset, FS_CardinalityType
<1>2. 0 \in T
  BY <1>1, FS_EmptySet
<1>3. ASSUME NEW n \in T PROVE n + 1 \in T
  <2> SUFFICES ASSUME NEW s \in SUBSET D, Cardinality(s) = n + 1 PROVE s \in F
    OBVIOUS
  <2>1. s # {}
    BY FS_EmptySet
  <2>2. First(s) \in s
    BY <2>1 DEF First
  <2>3. Cardinality(s \ {First(s)}) = n
    BY <1>1, <2>2, FS_RemoveElement
  <2> QED
    BY <2>1, <2>3
<1>4. T = Nat
  <2>1. T \in SUBSET Nat
    OBVIOUS
  <2> HIDE DEF T
  <2> QED
    BY <1>2, <1>3, <2>1, NumbersByInduction
<1> QED
  BY <1>1, <1>4

--------------------------------------------------------------------------------
(* The total of some contributions.                                            *)

\* The recursive function by which the library adds up the values of f.
Summing(iter, f) ==
  iter = [s \in SUBSET DOMAIN f |->
            IF s = {} THEN 0 ELSE f[First(s)] + iter[s \ {First(s)}]]

\* There is one: it is defined on the sets of one element, of two and so on.
LEMMA SummingExists ==
  ASSUME NEW f, IsFiniteSet(DOMAIN f)
  PROVE  \E iter : Summing(iter, f)
<1> DEFINE D == DOMAIN f
           UpTo(n) == {s \in SUBSET D : Cardinality(s) <= n}
           Sums(g, n) == g = [s \in UpTo(n) |->
                                IF s = {} THEN 0 ELSE f[First(s)] + g[s \ {First(s)}]]
           T == {n \in Nat : \E g : Sums(g, n)}
<1>1. \A s \in SUBSET D : IsFiniteSet(s) /\ Cardinality(s) \in Nat
  BY FS_Subset, FS_CardinalityType
<1>2. \A s \in SUBSET D : s # {} =>
        First(s) \in s /\ Cardinality(s \ {First(s)}) = Cardinality(s) - 1
  BY <1>1, FS_RemoveElement DEF First
<1>3. 0 \in T
  <2>1. \A s \in UpTo(0) : s = {}
    BY <1>1, FS_EmptySet
  <2>2. Sums([s \in UpTo(0) |-> 0], 0)
    BY <2>1
  <2> QED
    BY <2>2
<1>4. ASSUME NEW n \in T PROVE n + 1 \in T
  <2>1. PICK g : Sums(g, n)
    OBVIOUS
  <2> DEFINE h == [s \in UpTo(n + 1) |->
                     IF s = {} THEN 0 ELSE f[First(s)] + g[s \ {First(s)}]]
  <2>2. \A s \in UpTo(n) : s \in UpTo(n + 1)
    BY <1>1
  <2>3. \A s \in UpTo(n) : g[s] = IF s = {} THEN 0 ELSE f[First(s)] + g[s \ {First(s)}]
    <3> HIDE DEF UpTo
    <3> QED
      BY <2>1
  <2>4. \A s \in UpTo(n) : h[s] = g[s]
    <3> HIDE DEF UpTo
    <3> QED
      BY <2>2, <2>3
  <2>5. \A s \in UpTo(n + 1) : s # {} => s \ {First(s)} \in UpTo(n)
    BY <1>1, <1>2
  <2>6. Sums(h, n + 1)
    <3> HIDE DEF UpTo
    <3> QED
      BY <2>4, <2>5
  <2>7. n + 1 \in Nat
    OBVIOUS
  <2> HIDE DEF Sums, h
  <2> QED
    BY <2>6, <2>7
<1>5. T = Nat
  <2>1. T \in SUBSET Nat
    OBVIOUS
  <2> HIDE DEF T
  <2> QED
    BY <1>3, <1>4, <2>1, NumbersByInduction
<1>6. Cardinality(D) \in T
  BY <1>1, <1>5
<1>7. UpTo(Cardinality(D)) = SUBSET D
  BY <1>1, FS_Subset
<1> QED
  BY <1>6, <1>7 DEF Summing

\* A total is what that function gives for the whole domain.
LEMMA TotalIsSum ==
  ASSUME NEW f, IsFiniteSet(DOMAIN f)
  PROVE  \E iter : Summing(iter, f) /\ TotalOf(f) = iter[DOMAIN f]
<1> DEFINE it == CHOOSE iter : Summing(iter, f)
<1>1. Summing(it, f)
  BY SummingExists
<1>2. TotalOf(f) = it[DOMAIN f]
  BY DEF TotalOf, MapThenSumSet, MapThenFoldSet, Summing, First
<1> QED
  BY <1>1, <1>2

\* A total of natural numbers is one, and 0 when they all are.
LEMMA TotalOfNumbers ==
  ASSUME NEW f, IsFiniteSet(DOMAIN f), \A x \in DOMAIN f : f[x] \in Nat
  PROVE  /\ TotalOf(f) \in Nat
         /\ (\A x \in DOMAIN f : f[x] = 0) => TotalOf(f) = 0
<1>1. PICK iter : Summing(iter, f) /\ TotalOf(f) = iter[DOMAIN f]
  BY TotalIsSum
<1>2. /\ iter[{}] = 0
      /\ \A s \in SUBSET DOMAIN f : s # {} =>
           /\ First(s) \in DOMAIN f
           /\ iter[s] = f[First(s)] + iter[s \ {First(s)}]
  BY <1>1 DEF Summing, First
<1> DEFINE F == {s \in SUBSET DOMAIN f :
                   iter[s] \in Nat /\ ((\A x \in DOMAIN f : f[x] = 0) => iter[s] = 0)}
<1>3. {} \in F /\ F \in SUBSET (SUBSET DOMAIN f)
  BY <1>2
<1>4. ASSUME NEW s \in SUBSET DOMAIN f, s # {}, s \ {First(s)} \in F PROVE s \in F
  BY <1>2, <1>4
<1>5. F = SUBSET DOMAIN f
  <2> HIDE DEF F
  <2> QED
    BY <1>3, <1>4, SubsetsByInduction
<1> QED
  BY <1>1, <1>5
--------------------------------------------------------------------------------
(* Numbers.                                                                    *)

\* What a function gives for the elements of a finite set is finite.
LEMMA ImageIsFinite ==
  ASSUME NEW S, IsFiniteSet(S), NEW f, f = [x \in S |-> f[x]]
  PROVE  IsFiniteSet({f[x] : x \in S})
<1>1. f \in Surjection(S, {f[x] : x \in S})
  BY DEF Surjection
<1> QED
  BY <1>1, FS_Surjection

\* The numbers of an interval.
LEMMA IntervalNumbers == \A m \in Nat : \A n \in 0..m : n \in Nat /\ n \in Int /\ n <= m
  OBVIOUS

\* The greatest score, in tenths, and the greatest total of contributions, in
\* hundredths.
FullScore == 1000
FullTotal == 10000

\* Two are more than one.
LEMMA TwoAreMoreThanOne ==
  ASSUME NEW p, NEW q, p # q
  PROVE  Cardinality({p, q}) > 1
<1>1. IsFiniteSet({p}) /\ Cardinality({p}) = 1
  BY FS_Singleton
<1>2. Cardinality({p} \cup {q}) = 2
  BY <1>1, FS_AddElement
<1>3. {p} \cup {q} = {p, q}
  OBVIOUS
<1> QED
  BY <1>2, <1>3

\* Indices and moments are finite.
LEMMA IntervalIsFinite ==
  ASSUME NEW n \in Nat, NEW S \in SUBSET (1..n)
  PROVE  IsFiniteSet(S)
<1>1. 1 \in Int /\ n \in Int
  OBVIOUS
<1>2. IsFiniteSet(1..n)
  BY <1>1, FS_Interval
<1> QED
  BY <1>2, FS_Subset

\* The numbers of the model.
LEMMA Literals == Scale \in Nat \ {0} /\ FullScore \in Nat /\ FullTotal \in Nat
  BY DEF Scale, FullScore, FullTotal

\* A finite set of integers has a maximum.
LEMMA MaxIsElement ==
  ASSUME NEW S \in SUBSET Int, IsFiniteSet(S), S # {}
  PROVE  Max(S) \in S /\ \A y \in S : y <= Max(S)
<1> DEFINE HasMax(s) == \E x \in s : \A y \in s : y <= x
           F == {s \in SUBSET S : s # {} => HasMax(s)}
<1>1. {} \in F /\ F \in SUBSET (SUBSET S)
  OBVIOUS
<1>2. ASSUME NEW s \in SUBSET S, s # {}, s \ {First(s)} \in F PROVE s \in F
  <2>1. First(s) \in s /\ s \in SUBSET Int /\ First(s) \in Int
    BY <1>2 DEF First
  <2>2. CASE s \ {First(s)} = {}
    <3>1. \A y \in s : y = First(s)
      BY <2>2
    <3>2. HasMax(s)
      BY <2>1, <3>1
    <3> QED
      BY <3>2
  <2>3. CASE s \ {First(s)} # {}
    <3>1. PICK x \in s \ {First(s)} : \A y \in s \ {First(s)} : y <= x
      BY <1>2, <2>3
    <3>2. \A y \in s : y = First(s) \/ y \in s \ {First(s)}
      OBVIOUS
    <3>3. \A y \in s : y \in Int
      BY <2>1
    <3>4. ASSUME x <= First(s) PROVE HasMax(s)
      <4>1. \A y \in s : y <= First(s)
        BY <2>1, <3>1, <3>2, <3>3, <3>4
      <4> QED
        BY <2>1, <4>1
    <3>5. ASSUME First(s) <= x PROVE HasMax(s)
      <4>1. \A y \in s : y <= x
        BY <2>1, <3>1, <3>2, <3>3, <3>5
      <4> QED
        BY <3>1, <4>1
    <3>6. x <= First(s) \/ First(s) <= x
      BY <2>1, <3>1, <3>3
    <3>7. HasMax(s)
      BY <3>4, <3>5, <3>6
    <3> QED
      BY <3>7
  <2> QED
    BY <2>2, <2>3
<1>3. F = SUBSET S
  <2>1. \A s \in SUBSET S : s # {} /\ s \ {First(s)} \in F => s \in F
    BY <1>2
  <2> HIDE DEF F
  <2> QED
    BY <1>1, <2>1, SubsetsByInduction, Zenon
<1>4. PICK x \in S : \A y \in S : y <= x
  BY <1>3
<1>5. \A y \in S : x >= y
  BY <1>4
<1>6. Max(S) \in S /\ \A y \in S : Max(S) >= y
  BY <1>5 DEF Max
<1> QED
  BY <1>6

\* Products are monotonic.
LEMMA ProductBounded ==
  ASSUME NEW a \in Nat, NEW b \in Nat, NEW c \in Nat, NEW d \in Nat, a <= b, c <= d
  PROVE  a * c \in Nat /\ a * c <= b * d
<1>1. a * c <= b * c
  OBVIOUS
<1>2. b * c <= b * d
  OBVIOUS
<1> QED
  BY <1>1, <1>2

\* Quotient and remainder.
LEMMA Division ==
  ASSUME NEW n \in Nat, NEW d \in Nat \ {0}
  PROVE  /\ n \div d \in Nat /\ n % d \in Nat
         /\ n = d * (n \div d) + (n % d) /\ (n % d) < d
  OBVIOUS

\* A quotient that exceeds a number exceeds it by a whole divisor.
LEMMA NextMultiple ==
  ASSUME NEW q \in Nat, NEW m \in Nat, NEW d \in Nat \ {0}, q > m
  PROVE  d * q >= m * d + d
<1>1. q >= m + 1 /\ d > 0
  OBVIOUS
<1>2. d * q >= d * (m + 1)
  BY <1>1
<1>3. d * (m + 1) = m * d + d
  OBVIOUS
<1> QED
  BY <1>2, <1>3

\* Rounding does not leave the range of a quotient, whichever way halves go.
LEMMA RoundBounded ==
  ASSUME NEW n \in Nat, NEW d \in Nat \ {0}, NEW m \in Nat, n <= m * d
  PROVE  Round(n, d) \in 0..m
<1> DEFINE q == n \div d
           r == n % d
<1>1. q \in Nat /\ r \in Nat /\ n = d * q + r /\ r < d
  BY Division
<1>2. Round(n, d) \in {q, q + 1} /\ (r = 0 => Round(n, d) = q)
  BY <1>1 DEF Round
<1> HIDE DEF q, r
<1>3. q <= m
  BY <1>1, NextMultiple
<1>4. q = m => r = 0
  <2> SUFFICES ASSUME q = m PROVE r = 0
    OBVIOUS
  <2>1. d * q = m * d
    BY <1>1
  <2> QED
    BY <1>1, <2>1
<1> QED
  BY <1>1, <1>2, <1>3, <1>4

\* A whole quotient is not rounded.
LEMMA RoundExact ==
  ASSUME NEW k \in Nat, NEW d \in Nat \ {0}
  PROVE  Round(k * d, d) = k
<1> DEFINE n == k * d
           q == n \div d
           r == n % d
<1>1. q \in Nat /\ r \in Nat /\ n = d * q + r /\ r < d
  BY Division
<1>2. r = 0 => Round(n, d) = q
  BY <1>1 DEF Round
<1> HIDE DEF q, r
<1>3. q <= k /\ k <= q
  BY <1>1, NextMultiple
<1>4. q = k
  BY <1>1, <1>3
<1>5. r = 0
  BY <1>1, <1>4
<1> QED
  BY <1>2, <1>4, <1>5

--------------------------------------------------------------------------------
(* The score.                                                                  *)

\* A signal is between 0 and 1, however many findings there are.
LEMMA ClampBounded == \A value \in Int : Clamp(value) \in 0..Scale
  BY DEF Clamp, Scale

\* What the loader asserts of the numbers of a policy.
LEMMA PolicyBounds ==
  ASSUME NEW policy \in Policies
  PROVE  /\ policy.weight \in 0..100 /\ policy.bonus \in Nat
         /\ policy.divisor \in Nat \ {0} /\ policy.baseline \subseteq Int
         /\ policy.strategy = "distance_below" => policy.baseline # {}
<1>1. PolicyIsValid(policy)
  BY PolicySetIsValid DEF PolicySetAssumption
<1>2. policy.bonus \in 0..Scale
  BY <1>1 DEF PolicyIsValid
<1>3. policy.bonus \in Nat
  BY <1>2, IntervalNumbers, Literals, Zenon
<1> QED
  BY <1>1, <1>3, ScaleAssumption DEF PolicyIsValid

\* The signal of a policy is between 0 and 1, and 0 without findings.
LEMMA SignalBounded ==
  ASSUME NEW policy \in Policies, NEW findings, IsFiniteSet(findings),
         \A f \in findings : f.signal \in 0..Scale
  PROVE  Signal(policy, findings) \in 0..Scale /\ Signal(policy, {}) = 0
<1>1. Signal(policy, {}) = 0
  BY DEF Signal
<1>2. CASE findings = {}
  BY <1>1, <1>2 DEF Scale
<1>3. CASE findings # {}
  <2> DEFINE of == [f \in findings |-> f.signal]
             signals == {of[f] : f \in findings}
  <2>1. IsFiniteSet(signals)
    <3>1. of = [f \in findings |-> of[f]]
      OBVIOUS
    <3> HIDE DEF of
    <3> QED
      BY <3>1, ImageIsFinite
  <2>2. signals = {f.signal : f \in findings}
    OBVIOUS
  <2>3. signals # {} /\ signals \in SUBSET Int
    <3>1. \A f \in findings : f.signal \in Int
      BY IntervalNumbers, Literals, Zenon
    <3> QED
      BY <1>3, <2>2, <3>1, Zenon
  <2> HIDE DEF signals
  <2>4. Max(signals) \in Int
    BY <2>1, <2>3, MaxIsElement
  <2>5. Cardinality(findings) \in Nat /\ policy.bonus \in Nat
    BY FS_CardinalityType, PolicyBounds
  <2>6. policy.bonus * (Cardinality(findings) - 1) \in Int
    BY <2>5
  <2>7. Max(signals) + policy.bonus * (Cardinality(findings) - 1) \in Int
    BY <2>4, <2>6
  <2>8. Clamp(Max(signals) + policy.bonus * (Cardinality(findings) - 1)) \in 0..Scale
    BY <2>7, ClampBounded
  <2> QED
    BY <1>1, <1>3, <2>2, <2>8 DEF Signal
<1> QED
  BY <1>1, <1>2, <1>3

\* The policies by which a score is made up, each known by its id.
LEMMA EnabledById ==
  /\ IsFiniteSet({policy.id : policy \in Enabled})
  /\ \A id \in {policy.id : policy \in Enabled} :
       (CHOOSE policy \in Enabled : policy.id = id) \in Policies
<1>1. IsFiniteSet(Policies)
  BY PolicySetIsValid DEF PolicySetAssumption
<1>2. Enabled \in SUBSET Policies
  BY DEF Enabled
<1>3. IsFiniteSet(Enabled)
  BY <1>1, <1>2, FS_Subset
<1> DEFINE ids == [policy \in Enabled |-> policy.id]
<1>4. IsFiniteSet({ids[policy] : policy \in Enabled})
  <2>1. ids = [policy \in Enabled |-> ids[policy]]
    OBVIOUS
  <2> HIDE DEF ids
  <2> QED
    BY <1>3, <2>1, ImageIsFinite
<1> QED
  BY <1>2, <1>4

\* No contribution of a policy exceeds its weight, and without findings there is none.
LEMMA ContributionsBounded ==
  ASSUME NEW findings, IsFiniteSet(findings), \A f \in findings : f.signal \in 0..Scale
  PROVE  /\ DOMAIN Contributions(findings) = {policy.id : policy \in Enabled}
         /\ \A id \in DOMAIN Contributions(findings) :
              /\ Contributions(findings)[id] \in 0..FullTotal
              /\ findings = {} => Contributions(findings)[id] = 0
<1>1. DOMAIN Contributions(findings) = {policy.id : policy \in Enabled}
  BY DEF Contributions
<1>2. ASSUME NEW id \in DOMAIN Contributions(findings)
      PROVE  /\ Contributions(findings)[id] \in 0..FullTotal
             /\ findings = {} => Contributions(findings)[id] = 0
  <2> DEFINE policy == CHOOSE policy \in Enabled : policy.id = id
             signal == Signal(policy, OfPolicy(policy, findings))
  <2>1. policy \in Policies
    BY <1>1, <1>2, EnabledById
  <2>2. policy.weight \in 0..100
    <3> HIDE DEF policy
    <3> QED
      BY <2>1, PolicyBounds
  <2>3. signal \in 0..Scale
    <3>1. IsFiniteSet(OfPolicy(policy, findings))
      BY FS_Subset DEF OfPolicy
    <3>2. \A f \in OfPolicy(policy, findings) : f.signal \in 0..Scale
      BY DEF OfPolicy
    <3> HIDE DEF policy
    <3> QED
      BY <2>1, <3>1, <3>2, SignalBounded
  <2>4. findings = {} => signal = 0
    BY <2>1 DEF OfPolicy, Signal
  <2>5. Contributions(findings)[id] = Round(100 * policy.weight * signal, Scale)
    BY <1>1 DEF Contributions
  <2> HIDE DEF policy, signal
  <2>6. /\ 100 * policy.weight \in Nat /\ 100 * policy.weight <= FullTotal
        /\ signal \in Nat /\ signal <= Scale
    <3>1. 100 * policy.weight \in Nat /\ 100 * policy.weight <= FullTotal
      BY <2>2 DEF FullTotal
    <3>2. signal \in Nat /\ signal <= Scale
      BY <2>3, IntervalNumbers, Literals, Zenon
    <3> QED
      BY <3>1, <3>2
  <2>7. Round(100 * policy.weight * signal, Scale) \in 0..FullTotal
    <3> DEFINE weight == 100 * policy.weight
               product == weight * signal
    <3>1. weight \in Nat /\ weight <= FullTotal /\ signal \in Nat /\ signal <= Scale
      BY <2>6
    <3> HIDE DEF weight
    <3>2. product \in Nat /\ product <= FullTotal * Scale
      BY <3>1, Literals, ProductBounded, Zenon
    <3> HIDE DEF product
    <3>3. Round(product, Scale) \in 0..FullTotal
      BY <3>2, Literals, RoundBounded, Zenon
    <3> QED
      BY <3>3 DEF product, weight
  <2>8. signal = 0 => Round(100 * policy.weight * signal, Scale) = 0
    <3>1. signal = 0 => 100 * policy.weight * signal = 0 * Scale
      BY <2>6, Literals
    <3>2. Round(0 * Scale, Scale) = 0
      BY RoundExact, Literals
    <3> QED
      BY <3>1, <3>2
  <2> QED
    BY <2>4, <2>5, <2>7, <2>8, Zenon
<1> QED
  BY <1>1, <1>2

\* A score is between 0 and 100, and 0 without findings.
LEMMA ScoreBounded ==
  ASSUME NEW findings, IsFiniteSet(findings), \A f \in findings : f.signal \in 0..Scale
  PROVE  /\ Score(Contributions(findings)) \in 0..FullScore
         /\ findings = {} => Score(Contributions(findings)) = 0
<1> DEFINE contributions == Contributions(findings)
<1>1. /\ DOMAIN contributions = {policy.id : policy \in Enabled}
      /\ \A id \in DOMAIN contributions :
           contributions[id] \in Nat /\ (findings = {} => contributions[id] = 0)
  <2>1. /\ DOMAIN contributions = {policy.id : policy \in Enabled}
        /\ \A id \in DOMAIN contributions :
             /\ contributions[id] \in 0..FullTotal
             /\ findings = {} => contributions[id] = 0
    BY ContributionsBounded, Zenon
  <2> HIDE DEF contributions
  <2> QED
    BY <2>1, IntervalNumbers, Literals, Zenon
<1>2. IsFiniteSet(DOMAIN contributions)
  BY <1>1, EnabledById
<1> HIDE DEF contributions
<1>3. TotalOf(contributions) \in Nat /\ (findings = {} => TotalOf(contributions) = 0)
  BY <1>1, <1>2, TotalOfNumbers
<1> DEFINE total == IF TotalOf(contributions) > 10000 THEN 10000 ELSE TotalOf(contributions)
<1>4. total \in Nat /\ total <= FullScore * 10 /\ (findings = {} => total = 0)
  BY <1>3 DEF FullScore
<1>5. Score(contributions) = Round(total, 10)
  BY DEF Score
<1> HIDE DEF total
<1>6. Round(total, 10) \in 0..FullScore
  BY <1>4, Literals, RoundBounded, 10 \in Nat \ {0}
<1>7. Round(0, 10) = 0
  <2>1. Round(0 * 10, 10) = 0
    BY RoundExact
  <2> QED
    BY <2>1
<1> QED
  BY <1>4, <1>5, <1>6, <1>7, Zenon DEF contributions
--------------------------------------------------------------------------------
(* Facts and findings.                                                         *)

\* Tables an analysis looks at: finite sets of rows, of one payload or of several.
AreTables(d) ==
  /\ IsFiniteSet(d.tickets) /\ d.tickets \subseteq Tickets
  /\ IsFiniteSet(d.builds) /\ d.builds \subseteq Builds
  /\ IsFiniteSet(d.metrics) /\ d.metrics \subseteq Metrics
  /\ IsFiniteSet(d.sprints) /\ d.sprints \subseteq Sprints

\* The tables of a payload are finite sets of rows.
LEMMA TablesAreFinite ==
  ASSUME NEW p \in Payloads
  PROVE  /\ IsFiniteSet(Datasets[p].tickets) /\ Datasets[p].tickets \subseteq Tickets
         /\ IsFiniteSet(Datasets[p].builds) /\ Datasets[p].builds \subseteq Builds
         /\ IsFiniteSet(Datasets[p].metrics) /\ Datasets[p].metrics \subseteq Metrics
         /\ IsFiniteSet(Datasets[p].sprints) /\ Datasets[p].sprints \subseteq Sprints
         /\ Datasets[p].reference \in Nat \ {0}
  BY QaProjectAssumption DEF QaProjectAssumption, IsDataset, Days, Null

\* What an analysis looks at, in a context of a payload.
IsContext(c) ==
  /\ IsFiniteSet(c.tickets) /\ c.tickets \subseteq Tickets
  /\ IsFiniteSet(c.builds) /\ c.builds \subseteq Builds
  /\ IsFiniteSet(c.metrics) /\ c.metrics \subseteq Metrics
  /\ c.reference \in Nat

\* So are those of an analysis, whatever was loaded between its SELECTs; when
\* nothing was, they are as good as the payload.
Readings == [1..6 -> Payloads]

LEMMA PayloadsAreTables == \A p \in Payloads : AreTables(Datasets[p])
  BY TablesAreFinite DEF AreTables

LEMMA SequenceIsFunction ==
  ASSUME NEW S, NEW s \in Seq(S)
  PROVE  s \in [1..Len(s) -> S]
  OBVIOUS

LEMMA SixTablesRead ==
  ASSUME NEW seen \in Seq(Payloads), Len(seen) = 6
  PROVE  seen \in Readings
  BY SequenceIsFunction DEF Readings

LEMMA ReadingsAreTables ==
  ASSUME NEW seen \in Readings
  PROVE  AreTables(TablesRead(seen))
<1>1. \A i \in 1..6 : AreTables(Datasets[seen[i]])
  BY PayloadsAreTables DEF Readings
<1> QED
  BY <1>1 DEF AreTables, TablesRead

LEMMA ReadingOfOne ==
  ASSUME NEW p, NEW seen, \A i \in 1..6 : seen[i] = p, NEW sprint, NEW reference
  PROVE  Assessment(TablesRead(seen), sprint, reference) = Assessment(Datasets[p], sprint, reference)
<1> DEFINE d == TablesRead(seen)
           e == Datasets[p]
           c == Context(e, sprint, reference)
<1>1. /\ d.tickets = e.tickets /\ d.builds = e.builds /\ d.metrics = e.metrics
      /\ d.sprints = e.sprints /\ d.testResults = e.testResults
      /\ d.pullRequests = e.pullRequests
  BY DEF TablesRead
<1> HIDE DEF d, e
<1>2. Context(d, sprint, reference) = c
  BY <1>1 DEF Context
<1> HIDE DEF c
<1>3. Tested(c, d) = Tested(c, e) /\ ReviewedBuilds(c, d) = ReviewedBuilds(c, e)
      /\ TestedBuilds(c, d) = TestedBuilds(c, e)
  BY <1>1 DEF Tested, TestedBuilds, ReviewedBuilds
<1>4. Quality(c, d) = Quality(c, e) /\ MissingInformation(c, d) = MissingInformation(c, e)
  BY <1>3 DEF Quality, MissingInformation
<1>5. Assessment(d, sprint, reference) = Assessment(e, sprint, reference)
  BY <1>2, <1>4 DEF Assessment, c
<1> QED
  BY <1>5 DEF d, e

LEMMA ContextOfTables ==
  ASSUME NEW d, AreTables(d), NEW sprint, NEW reference \in Nat
  PROVE  IsContext(Context(d, sprint, reference))
<1>1. ASSUME NEW rows, IsFiniteSet(rows)
      PROVE  IsFiniteSet(InScope(rows, sprint)) /\ InScope(rows, sprint) \subseteq rows
  BY <1>1, FS_Subset DEF InScope
<1> QED
  BY <1>1 DEF AreTables, Context, IsContext

LEMMA ContextOfPayload ==
  ASSUME NEW p \in Payloads, NEW sprint, NEW reference \in Nat
  PROVE  IsContext(Context(Datasets[p], sprint, reference))
  BY PayloadsAreTables, ContextOfTables

\* Each kind of fact is drawn from the rows of one table: there are finitely many
\* and their values are numbers.
AreFacts(facts) == IsFiniteSet(facts) /\ \A f \in facts : f.value \in Int

LEMMA BlockedFactsAreFacts ==
  ASSUME NEW c, IsContext(c)
  PROVE  AreFacts(BlockedFacts(c))
<1> DEFINE rows == {t \in VisibleTickets(c) : t.status = "blocked" /\ t.blockedSince # Null}
           fact == [t \in rows |-> Fact("blocked_hours", BlockedHours(t, c), "ticket", t,
                                        t.blockedSince, Flag(ActiveHighPriority(t, c)))]
<1>1. rows \in SUBSET c.tickets
  BY DEF VisibleTickets
<1>2. IsFiniteSet(rows)
  BY <1>1, FS_Subset DEF IsContext
<1>3. \A t \in rows : fact[t].value \in Int
  <2> TAKE t \in rows
  <2>1. t.blockedSince \in Nat /\ c.reference \in Nat
    BY <1>1 DEF IsContext, Tickets
  <2>2. BlockedHours(t, c) \in Int
    BY <2>1 DEF BlockedHours, Midnight
  <2> QED
    BY <2>2 DEF Fact
<1>4. BlockedFacts(c) = {fact[t] : t \in rows}
  BY DEF BlockedFacts
<1>5. fact = [t \in rows |-> fact[t]]
  OBVIOUS
<1> HIDE DEF rows, fact
<1> QED
  BY <1>2, <1>3, <1>4, <1>5, ImageIsFinite DEF AreFacts

LEMMA OverdueFactsAreFacts ==
  ASSUME NEW c, IsContext(c)
  PROVE  AreFacts(OverdueFacts(c))
<1> DEFINE rows == {t \in VisibleTickets(c) : t.status # "done" /\ t.due # Null}
           fact == [t \in rows |-> Fact("overdue_days", c.reference - t.due, "ticket", t,
                                        t.updated, Flag(ActiveHighPriority(t, c)))]
<1>1. rows \in SUBSET c.tickets
  BY DEF VisibleTickets
<1>2. IsFiniteSet(rows)
  BY <1>1, FS_Subset DEF IsContext
<1>3. \A t \in rows : fact[t].value \in Int
  <2> TAKE t \in rows
  <2>1. t.due \in Nat /\ c.reference \in Nat
    BY <1>1 DEF IsContext, Tickets
  <2>2. c.reference - t.due \in Int
    BY <2>1
  <2> QED
    BY <2>2 DEF Fact
<1>4. OverdueFacts(c) = {fact[t] : t \in rows}
  BY DEF OverdueFacts
<1>5. fact = [t \in rows |-> fact[t]]
  OBVIOUS
<1> HIDE DEF rows, fact
<1> QED
  BY <1>2, <1>3, <1>4, <1>5, ImageIsFinite DEF AreFacts

LEMMA CriticalBugFactsAreFacts ==
  ASSUME NEW c, IsContext(c)
  PROVE  AreFacts(CriticalBugFacts(c))
<1> DEFINE rows == {t \in VisibleTickets(c) :
                      t.type = "bug" /\ t.priority = "critical" /\ t.status # "done"}
           fact == [t \in rows |-> Fact("open_critical_bug", 1, "ticket", t, t.updated,
                                        Flag(ActiveHighPriority(t, c)))]
<1>1. rows \in SUBSET c.tickets
  BY DEF VisibleTickets
<1>2. IsFiniteSet(rows)
  BY <1>1, FS_Subset DEF IsContext
<1>3. \A t \in rows : fact[t].value \in Int
  BY DEF Fact
<1>4. CriticalBugFacts(c) = {fact[t] : t \in rows}
  BY DEF CriticalBugFacts
<1>5. fact = [t \in rows |-> fact[t]]
  OBVIOUS
<1> HIDE DEF rows, fact
<1> QED
  BY <1>2, <1>3, <1>4, <1>5, ImageIsFinite DEF AreFacts

LEMMA BuildFactsAreFacts ==
  ASSUME NEW c, IsContext(c)
  PROVE  AreFacts(BuildFacts(c))
<1> DEFINE OfSprint(b) == {other \in VisibleBuilds(c) : other.sprint = b.sprint}
           rows == {b \in VisibleBuilds(c) : IsLatestBuild(b, OfSprint(b))}
           fact == [b \in rows |-> Fact("consecutive_failed_builds", FailureStreak(OfSprint(b)),
                                        "build", b, b.started, {})]
<1>1. VisibleBuilds(c) \in SUBSET c.builds /\ rows \in SUBSET c.builds
  BY DEF VisibleBuilds
<1>2. IsFiniteSet(rows)
  BY <1>1, FS_Subset DEF IsContext
<1>3. \A t \in rows : fact[t].value \in Int
  <2> TAKE b \in rows
  <2>1. {x \in OfSprint(b) : \A other \in OfSprint(b) :
           other = x \/ StartedAfter(other, x) => other.status = "failed"} \in SUBSET c.builds
    BY <1>1
  <2>2. FailureStreak(OfSprint(b)) \in Nat
    BY <2>1, FS_Subset, FS_CardinalityType DEF FailureStreak, IsContext
  <2> HIDE DEF OfSprint
  <2> QED
    BY <2>2 DEF Fact
<1>4. BuildFacts(c) = {fact[t] : t \in rows}
  BY DEF BuildFacts
<1>5. fact = [t \in rows |-> fact[t]]
  OBVIOUS
<1> HIDE DEF rows, fact
<1> QED
  BY <1>2, <1>3, <1>4, <1>5, ImageIsFinite DEF AreFacts

LEMMA MetricFactsAreFacts ==
  ASSUME NEW c, IsContext(c)
  PROVE  AreFacts(MetricFacts(c))
<1> DEFINE rows == LatestCoverages(c)
           fact == [m \in rows |-> Fact("coverage_percent", m.value, "metric", m, m.measured, {})]
<1>1. rows \in SUBSET c.metrics
  BY DEF LatestCoverages, VisibleCoverages
<1>2. IsFiniteSet(rows)
  BY <1>1, FS_Subset DEF IsContext
<1>3. \A t \in rows : fact[t].value \in Int
  <2> TAKE m \in rows
  <2>1. m.value \in Int
    BY <1>1 DEF IsContext, Metrics
  <2> HIDE DEF rows
  <2> QED
    BY <2>1 DEF Fact
<1>4. MetricFacts(c) = {fact[t] : t \in rows}
  BY DEF MetricFacts
<1>5. fact = [t \in rows |-> fact[t]]
  OBVIOUS
<1> HIDE DEF rows, fact
<1> QED
  BY <1>2, <1>3, <1>4, <1>5, ImageIsFinite DEF AreFacts

\* Each kind of fact has a metric of its own.
LEMMA MetricsOfFacts ==
  ASSUME NEW c
  PROVE  /\ \A f \in BlockedFacts(c) : f.metric = "blocked_hours"
         /\ \A f \in OverdueFacts(c) : f.metric = "overdue_days"
         /\ \A f \in CriticalBugFacts(c) : f.metric = "open_critical_bug"
         /\ \A f \in BuildFacts(c) : f.metric = "consecutive_failed_builds"
         /\ \A f \in MetricFacts(c) : f.metric = "coverage_percent"
<1>1. \A f \in BlockedFacts(c) : f.metric = "blocked_hours"
  BY DEF BlockedFacts, Fact
<1>2. \A f \in OverdueFacts(c) : f.metric = "overdue_days"
  BY DEF OverdueFacts, Fact
<1>3. \A f \in CriticalBugFacts(c) : f.metric = "open_critical_bug"
  BY DEF CriticalBugFacts, Fact
<1>4. \A f \in BuildFacts(c) : f.metric = "consecutive_failed_builds"
  <2> DEFINE OfSprint(b) == {other \in VisibleBuilds(c) : other.sprint = b.sprint}
             rows == {b \in VisibleBuilds(c) : IsLatestBuild(b, OfSprint(b))}
             fact == [b \in rows |-> Fact("consecutive_failed_builds", FailureStreak(OfSprint(b)),
                                          "build", b, b.started, {})]
  <2>1. BuildFacts(c) = {fact[b] : b \in rows}
    BY DEF BuildFacts
  <2>2. \A b \in rows : fact[b].metric = "consecutive_failed_builds"
    <3> HIDE DEF OfSprint
    <3> QED
      BY DEF Fact
  <2> HIDE DEF rows, fact
  <2> QED
    BY <2>1, <2>2
<1>5. \A f \in MetricFacts(c) : f.metric = "coverage_percent"
  BY DEF MetricFacts, Fact
<1> QED
  BY <1>1, <1>2, <1>3, <1>4, <1>5

LEMMA CollectedFactsAreFacts ==
  ASSUME NEW c, IsContext(c)
  PROVE  AreFacts(CollectFacts(c))
<1>1. ASSUME NEW a, NEW b, AreFacts(a), AreFacts(b) PROVE AreFacts(a \cup b)
  BY <1>1, FS_Union DEF AreFacts
<1> QED
  BY <1>1, BlockedFactsAreFacts, OverdueFactsAreFacts, CriticalBugFactsAreFacts,
     BuildFactsAreFacts, MetricFactsAreFacts DEF CollectFacts, TicketFacts

\* A fact is of one of five metrics, and each signal it gives is in its range.
LEMMA NormalizeBounded ==
  ASSUME NEW policy \in Policies, NEW fact, fact.value \in Int
  PROVE  Normalize(policy, fact) \in 0..Scale
<1> DEFINE distance == IF policy.strategy = "distance_below"
                       THEN (CHOOSE baseline \in policy.baseline : TRUE) - fact.value
                       ELSE fact.value
           value == IF policy.strategy = "boolean"
                    THEN IF fact.metric = "open_critical_bug" THEN fact.value * Scale ELSE 0
                    ELSE distance * (Scale \div policy.divisor)
<1>1. distance \in Int
  <2>1. CASE policy.strategy = "distance_below"
    <3>1. (CHOOSE baseline \in policy.baseline : TRUE) \in policy.baseline
      BY <2>1, PolicyBounds
    <3>2. (CHOOSE baseline \in policy.baseline : TRUE) \in Int
      BY <3>1, PolicyBounds
    <3> QED
      BY <2>1, <3>2
  <2>2. CASE policy.strategy # "distance_below"
    BY <2>2
  <2> QED
    BY <2>1, <2>2
<1>2. Scale \div policy.divisor \in Nat
  BY PolicyBounds, Literals, Division
<1>3. distance * (Scale \div policy.divisor) \in Int
  <2> HIDE DEF distance
  <2> QED
    BY <1>1, <1>2
<1>4. fact.value * Scale \in Int
  BY Literals
<1>5. value \in Int
  <2> HIDE DEF distance
  <2> QED
    BY <1>3, <1>4
<1>6. Normalize(policy, fact) = Clamp(value)
  BY DEF Normalize
<1> HIDE DEF value
<1> QED
  BY <1>5, <1>6, ClampBounded

LEMMA FindingsSound ==
  ASSUME NEW c, IsContext(c)
  PROVE  IsFiniteSet(EvaluateRules(c)) /\ \A f \in EvaluateRules(c) : f.signal \in 0..Scale
<1> DEFINE facts == CollectFacts(c)
           of == [policy \in Policies |-> EvaluatePolicy(policy, facts)]
<1>1. AreFacts(facts)
  BY CollectedFactsAreFacts
<1> HIDE DEF facts
<1>2. ASSUME NEW policy \in Policies
      PROVE  /\ IsFiniteSet(of[policy])
             /\ \A f \in of[policy] : f.signal \in 0..Scale
  <2> DEFINE rows == {f \in facts : f.metric = policy.condition.metric
                                      /\ Compares(f.value, policy.condition)}
             finding == [fact \in rows |-> Finding(policy, fact)]
  <2>1. IsFiniteSet(rows)
    BY <1>1, FS_Subset DEF AreFacts
  <2>2. \A fact \in rows : finding[fact].signal \in 0..Scale
    <3> TAKE fact \in rows
    <3>1. Normalize(policy, fact) \in 0..Scale
      BY <1>1, NormalizeBounded DEF AreFacts
    <3> QED
      BY <3>1 DEF Finding
  <2>3. of[policy] = {} \/ of[policy] = {finding[fact] : fact \in rows}
    BY DEF EvaluatePolicy
  <2>4. finding = [fact \in rows |-> finding[fact]]
    OBVIOUS
  <2> HIDE DEF rows, finding, of
  <2>5. IsFiniteSet({finding[fact] : fact \in rows}) /\ IsFiniteSet({})
    BY <2>1, <2>4, ImageIsFinite, FS_EmptySet
  <2>6. IsFiniteSet(of[policy])
    BY <2>3, <2>5
  <2>7. \A f \in of[policy] : f.signal \in 0..Scale
    BY <2>2, <2>3
  <2> QED
    BY <2>6, <2>7
<1>3. EvaluateRules(c) = UNION {of[policy] : policy \in Policies}
  BY DEF EvaluateRules, facts
<1>4. of = [policy \in Policies |-> of[policy]]
  OBVIOUS
<1>5. IsFiniteSet(Policies)
  BY PolicySetIsValid DEF PolicySetAssumption
<1> HIDE DEF of
<1>6. IsFiniteSet({of[policy] : policy \in Policies})
  BY <1>4, <1>5, ImageIsFinite
<1>7. IsFiniteSet(UNION {of[policy] : policy \in Policies})
  BY <1>2, <1>6, FS_UNION
<1> QED
  BY <1>2, <1>3, <1>7
--------------------------------------------------------------------------------
(* Quality.                                                                    *)

\* What the quality of a context is made up of: b, at least the number of its
\* builds, is not exceeded by the builds tested or reviewed.
LEMMA SharesBounded ==
  ASSUME NEW c, IsContext(c), NEW d
  PROVE  LET b == Max({Cardinality(VisibleBuilds(c)), 1})
         IN  /\ b \in Nat \ {0}
             /\ Tested(c, d) \in Nat /\ Tested(c, d) <= b
             /\ Cardinality(ReviewedBuilds(c, d)) \in Nat
             /\ Cardinality(ReviewedBuilds(c, d)) <= b
<1> DEFINE seen == Cardinality(VisibleBuilds(c))
           b == Max({seen, 1})
<1>1. VisibleBuilds(c) \in SUBSET c.builds /\ IsFiniteSet(c.builds)
  BY DEF VisibleBuilds, IsContext
<1>2. IsFiniteSet(VisibleBuilds(c)) /\ seen \in Nat
  BY <1>1, FS_Subset, FS_CardinalityType
<1>3. /\ TestedBuilds(c, d) \in SUBSET VisibleBuilds(c)
      /\ ReviewedBuilds(c, d) \in SUBSET VisibleBuilds(c)
  BY DEF TestedBuilds, ReviewedBuilds
<1>4. /\ Tested(c, d) \in Nat /\ Tested(c, d) <= seen
      /\ Cardinality(ReviewedBuilds(c, d)) \in Nat /\ Cardinality(ReviewedBuilds(c, d)) <= seen
  BY <1>2, <1>3, FS_Subset, FS_CardinalityType DEF Tested
<1> HIDE DEF seen
<1>5. IsFiniteSet({seen, 1}) /\ {seen, 1} \in SUBSET Int /\ {seen, 1} # {}
  <2>1. IsFiniteSet({seen}) /\ IsFiniteSet({1}) /\ {seen, 1} = {seen} \cup {1}
    BY FS_Singleton
  <2>2. IsFiniteSet({seen, 1})
    BY <2>1, FS_Union
  <2> QED
    BY <1>2, <2>2
<1>6. b \in {seen, 1} /\ seen <= b /\ 1 <= b
  BY <1>5, MaxIsElement
<1> HIDE DEF b
<1>7. b \in Nat \ {0}
  BY <1>2, <1>6
<1> QED
  BY <1>4, <1>6, <1>7, <1>2 DEF seen, b

\* Confidence and evidence coverage are shares of 100.
LEMMA SharesAreShares ==
  ASSUME NEW b \in Nat \ {0}, NEW tested \in Nat, NEW reviewed \in Nat, NEW present \in 0..3,
         NEW fresh \in 0..2, tested <= b, reviewed <= b
  PROVE  LET sources == present * b + tested
             relations == tested + reviewed
         IN  /\ Round(15 * sources + 10 * fresh * b + 10 * relations, b) \in 0..100
             /\ Round(100 * (sources + 2 * relations), 8 * b) \in 0..100
<1> DEFINE sources == present * b + tested
           relations == tested + reviewed
           ages == 10 * fresh * b
<1>1. present \in {0, 1, 2, 3} /\ fresh \in {0, 1, 2}
  OBVIOUS
<1>2. sources \in Nat /\ sources <= 4 * b
  BY <1>1
<1>3. relations \in Nat /\ relations <= 2 * b
  OBVIOUS
<1>4. ages \in Nat /\ ages <= 20 * b
  BY <1>1
<1> HIDE DEF sources, relations, ages
<1> DEFINE n == 15 * sources + ages + 10 * relations
           m == 100 * (sources + 2 * relations)
<1>5. n \in Nat /\ n <= 100 * b
  BY <1>2, <1>3, <1>4
<1>6. m \in Nat /\ m <= 100 * (8 * b) /\ 8 * b \in Nat \ {0}
  BY <1>2, <1>3
<1> HIDE DEF n, m
<1>7. Round(n, b) \in 0..100
  BY <1>5, RoundBounded
<1>8. Round(m, 8 * b) \in 0..100
  BY <1>6, RoundBounded
<1> QED
  BY <1>7, <1>8 DEF n, m, sources, relations, ages

LEMMA QualityBounded ==
  ASSUME NEW c, IsContext(c), NEW d
  PROVE  /\ Quality(c, d).confidence \in 0..100
         /\ Quality(c, d).evidenceCoverage \in 0..100
         /\ Quality(c, d).freshness \in 0..100
<1> DEFINE b == Max({Cardinality(VisibleBuilds(c)), 1})
           reviewed == Cardinality(ReviewedBuilds(c, d))
           present == One(c.tickets # {}) + One(VisibleBuilds(c) # {}) + One(VisibleCoverages(c) # {})
           fresh == One(IsFresh(BuildMoments(c), c)) + One(IsFresh(CoverageMoments(c), c))
<1>1. b \in Nat \ {0} /\ Tested(c, d) \in Nat /\ Tested(c, d) <= b
      /\ reviewed \in Nat /\ reviewed <= b
  BY SharesBounded
<1>2. present \in 0..3 /\ fresh \in 0..2
  BY DEF One
<1>3. Quality(c, d) =
        [freshness |-> 50 * fresh,
         confidence |-> Round(15 * (present * b + Tested(c, d)) + 10 * fresh * b
                                + 10 * (Tested(c, d) + reviewed), b),
         evidenceCoverage |-> Round(100 * (present * b + Tested(c, d)
                                             + 2 * (Tested(c, d) + reviewed)), 8 * b)]
  BY DEF Quality
<1> HIDE DEF b, reviewed, present, fresh
<1>4. 50 * fresh \in 0..100
  BY <1>2
<1>5. /\ Round(15 * (present * b + Tested(c, d)) + 10 * fresh * b
                 + 10 * (Tested(c, d) + reviewed), b) \in 0..100
      /\ Round(100 * (present * b + Tested(c, d) + 2 * (Tested(c, d) + reviewed)), 8 * b) \in 0..100
  BY <1>1, <1>2, SharesAreShares
<1> QED
  BY <1>3, <1>4, <1>5

\* Nothing missing, the confidence is at least 80.
LEMMA NothingMissing ==
  ASSUME NEW c, IsContext(c), NEW d, MissingInformation(c, d) = {}
  PROVE  Quality(c, d).confidence >= 80
<1> DEFINE b == Max({Cardinality(VisibleBuilds(c)), 1})
           fresh == One(IsFresh(BuildMoments(c), c)) + One(IsFresh(CoverageMoments(c), c))
<1>1. /\ c.tickets # {} /\ VisibleBuilds(c) # {} /\ VisibleCoverages(c) # {}
      /\ TestedBuilds(c, d) = VisibleBuilds(c) /\ ReviewedBuilds(c, d) = VisibleBuilds(c)
  BY DEF MissingInformation, Codes
<1>2. b \in Nat \ {0} /\ Cardinality(VisibleBuilds(c)) = b
  <2> DEFINE seen == Cardinality(VisibleBuilds(c))
  <2>1. IsFiniteSet(VisibleBuilds(c))
    BY FS_Subset DEF VisibleBuilds, IsContext
  <2>2. seen \in Nat /\ seen # 0
    BY <1>1, <2>1, FS_CardinalityType, FS_EmptySet
  <2> HIDE DEF seen
  <2>3. IsFiniteSet({seen}) /\ IsFiniteSet({1}) /\ {seen, 1} = {seen} \cup {1}
    BY FS_Singleton
  <2>4. IsFiniteSet({seen, 1}) /\ {seen, 1} \in SUBSET Int /\ {seen, 1} # {}
    BY <2>2, <2>3, FS_Union
  <2>5. Max({seen, 1}) \in {seen, 1} /\ seen <= Max({seen, 1}) /\ 1 <= Max({seen, 1})
    BY <2>4, MaxIsElement
  <2>6. Max({seen, 1}) = seen
    BY <2>2, <2>5
  <2> QED
    BY <2>2, <2>6 DEF seen
<1>3. fresh \in 0..2
  BY DEF One
<1>4. Quality(c, d).confidence =
        Round(15 * ((One(TRUE) + One(TRUE) + One(TRUE)) * b + b) + 10 * fresh * b
                + 10 * (b + b), b)
  BY <1>1, <1>2 DEF Quality, Tested
<1> HIDE DEF b, fresh
<1>5. 15 * ((One(TRUE) + One(TRUE) + One(TRUE)) * b + b) + 10 * fresh * b + 10 * (b + b)
        = (80 + 10 * fresh) * b
  <2>1. fresh = 0 \/ fresh = 1 \/ fresh = 2
    BY <1>3
  <2> QED
    BY <1>2, <2>1 DEF One
<1>6. 80 + 10 * fresh \in Nat /\ 80 + 10 * fresh >= 80
  BY <1>3
<1>7. Round((80 + 10 * fresh) * b, b) = 80 + 10 * fresh
  <2> DEFINE k == 80 + 10 * fresh
  <2> HIDE DEF k
  <2>1. k \in Nat => Round(k * b, b) = k
    BY <1>2, RoundExact
  <2> QED
    BY <1>6, <2>1 DEF k
<1> QED
  BY <1>4, <1>5, <1>6, <1>7

--------------------------------------------------------------------------------
(* What an analysis stores.                                                    *)

\* The numbers of an assessment are in their ranges.
LEMMA AssessmentBounded ==
  ASSUME NEW d, AreTables(d), NEW sprint, NEW reference \in Nat, NEW e
  PROVE  LET result == Assessment(d, sprint, reference)
         IN  SignalsAreValid([Signals(e, result) EXCEPT !.testCoverage = {}])
<1> DEFINE c == Context(d, sprint, reference)
           result == Assessment(d, sprint, reference)
<1>1. IsContext(c)
  BY ContextOfTables
<1>2. result.score \in 0..FullScore
  <2>1. IsFiniteSet(EvaluateRules(c)) /\ \A f \in EvaluateRules(c) : f.signal \in 0..Scale
    BY <1>1, FindingsSound
  <2>2. Score(Contributions(EvaluateRules(c))) \in 0..FullScore
    BY <2>1, ScoreBounded
  <2> QED
    BY <2>2 DEF Assessment
<1>3. /\ result.confidence \in 0..100 /\ result.evidenceCoverage \in 0..100
      /\ result.freshness \in 0..100
  <2>1. /\ result.confidence = Quality(c, d).confidence
        /\ result.evidenceCoverage = Quality(c, d).evidenceCoverage
        /\ result.freshness = Quality(c, d).freshness
    BY DEF Assessment
  <2> HIDE DEF c, result
  <2> QED
    BY <1>1, <2>1, QualityBounded
<1>4. /\ Signals(e, result).riskScore = result.score
      /\ Signals(e, result).confidence = result.confidence
      /\ Signals(e, result).evidenceCoverage = result.evidenceCoverage
      /\ Signals(e, result).dataFreshness = result.freshness
  BY DEF Signals
<1> DEFINE signals == [Signals(e, result) EXCEPT !.testCoverage = {}]
<1>5. /\ signals.riskScore = result.score /\ signals.confidence = result.confidence
      /\ signals.evidenceCoverage = result.evidenceCoverage
      /\ signals.dataFreshness = result.freshness /\ signals.testCoverage = {}
  BY DEF Signals
<1> HIDE DEF signals, result
<1>6. SignalsAreValid(signals)
  BY <1>2, <1>3, <1>5 DEF SignalsAreValid, FullScore
<1> QED
  BY <1>6 DEF signals, result

\* The two advisers agree on an assessment, whatever coverages there are by now.
LEMMA AdvisersAgreeOnAssessment ==
  ASSUME NEW d, AreTables(d), NEW sprint, NEW reference \in Nat, NEW e
  PROVE  LET result == Assessment(d, sprint, reference)
             suggested == Suggestion(e, result)
             ready == ReleaseReadiness(result, Cardinality(result.findings))
         IN  /\ suggested = "GO" => ready = "GO"
             /\ ready = "NO-GO" => suggested \in {"NO_GO", "error"}
<1> DEFINE c == Context(d, sprint, reference)
           result == Assessment(d, sprint, reference)
           signals == Signals(e, result)
           suggested == Suggestion(e, result)
           ready == ReleaseReadiness(result, Cardinality(result.findings))
<1>1. /\ suggested = "GO" =>
           Blockers(signals) = {} /\ InformationGaps(signals) = {} /\ Conditions(signals) = {}
      /\ Blockers(signals) # {} => suggested \in {"NO_GO", "error"}
  BY DEF Suggestion, EvaluateDecision
<1>2. CriticalRisks(result) # {} => Blockers(signals) # {}
  BY DEF Signals, Blockers, Codes
<1>3. ready = "NO-GO" => CriticalRisks(result) # {}
  BY DEF ReleaseReadiness
<1>4. ASSUME suggested = "GO" PROVE ready = "GO"
  <2>1. result.missing = {} /\ result.findings = {}
    <3>1. signals.missing = {} /\ signals.violatedPolicies = {}
      BY <1>1, <1>4 DEF InformationGaps, Conditions, Codes
    <3>2. signals.missing = result.missing
          /\ signals.violatedPolicies = PoliciesOf(result.findings)
      BY DEF Signals
    <3> QED
      BY <3>1, <3>2 DEF PoliciesOf
  <2>2. result.findings = EvaluateRules(c) /\ result.missing = MissingInformation(c, d)
        /\ result.confidence = Quality(c, d).confidence
        /\ result.score = Score(Contributions(EvaluateRules(c)))
        /\ result.severity = ScoreSeverity(result.score)
    BY DEF Assessment
  <2>3. IsContext(c)
    BY ContextOfTables
  <2> HIDE DEF c, result
  <2>4. result.confidence >= 80 /\ result.confidence \in 0..100
    BY <2>1, <2>2, <2>3, NothingMissing, QualityBounded
  <2>5. result.score = 0
    BY <2>1, <2>2, ScoreBounded, FS_EmptySet
  <2>6. result.severity = "low"
    BY <2>2, <2>5 DEF ScoreSeverity
  <2>7. CriticalRisks(result) = {} /\ Cardinality(result.findings) = 0
    BY <2>1, FS_EmptySet DEF CriticalRisks
  <2>8. ~(result.confidence < 70)
    BY <2>4
  <2> QED
    BY <2>1, <2>6, <2>7, <2>8 DEF ReleaseReadiness, MinimumConfidence
<1> QED
  BY <1>1, <1>2, <1>3, <1>4
--------------------------------------------------------------------------------
(* The invariant of the project.                                               *)

\* What a log says.
LogRows == [ofProject : BOOLEAN, status : {"success", "skipped", "failed"}, reference : Nat]

\* A snapshot is one of the moments counted, linked to an earlier one or none, of
\* a date.
RowsAreCounted ==
  \A row \in snapshots :
    /\ row.analyzedAt \in 1..analyses /\ row.previous \in 0..(row.analyzedAt - 1)
    /\ row.result.reference \in Nat

\* A call under way knows its payload, and once that is loaded or skipped which.
JobsAreKnown ==
  /\ pc \in [Callers -> {"idle", "seeding", "logging"}] /\ DOMAIN job = Callers
  /\ \A c \in Callers :
       /\ pc[c] # "idle" => job[c].payload \in Payloads
       /\ pc[c] = "logging" => job[c].status \in {"success", "skipped"}

\* An analysis under way has read payloads, those of the data if no load fell into it.
DraftIsKnown ==
  /\ overtaken \subseteq 1..(analyses + 1)
  /\ draft = NoDraft => analyses + 1 \notin overtaken
  /\ draft # NoDraft =>
       /\ draft \in Drafts /\ analyses < MaxAnalyses
       /\ Len(draft.seen) <= 6 /\ draft.link \subseteq 0..analyses
       /\ draft.link # {} => Len(draft.seen) = 6
       /\ data # NoData
       /\ analyses + 1 \notin overtaken => \A i \in 1..Len(draft.seen) : draft.seen[i] = data

\* Every snapshot is the assessment of tables that have been there.
SnapshotsAreOfReadings ==
  \A row \in snapshots : \E seen \in Readings :
    row.result = Assessment(TablesRead(seen), row.result.sprint, row.result.reference)

\* What is said of the analyses.
AnalysisInv ==
  /\ data \in Payloads \cup {NoData}
  /\ analyses \in 0..MaxAnalyses
  /\ snapshots # {} => data # NoData
  /\ DraftIsKnown /\ RowsAreCounted /\ SnapshotsAreOfReadings /\ SnapshotsAreOfTheData

\* The inductive invariant: the snapshots no load fell into are those of the data,
\* the others of tables that have been there, and the data, the log and the callers
\* are of their types.
ProjectInv ==
  /\ calls \in 0..MaxIngestions
  /\ logs \in Seq(LogRows)
  /\ JobsAreKnown /\ AnalysisInv

\* The latest of some dates is a date.
LEMMA LatestDayIsDay ==
  ASSUME NEW moments \in SUBSET Nat, IsFiniteSet(moments)
  PROVE  LatestDay(moments) \in SUBSET Nat
<1>1. CASE moments = {}
  BY <1>1 DEF LatestDay
<1>2. CASE moments # {}
  <2>1. Max(moments) \in Nat
    <3>1. moments \in SUBSET Int
      OBVIOUS
    <3> QED
      BY <1>2, <3>1, MaxIsElement
  <2>2. Day(Max(moments)) \in Nat
    <3> DEFINE latest == Max(moments)
    <3> HIDE DEF latest
    <3>1. latest \in Nat => latest \div 2 \in Nat
      OBVIOUS
    <3> QED
      BY <2>1, <3>1 DEF Day, latest
  <2> QED
    BY <1>2, <2>2 DEF LatestDay
<1> QED
  BY <1>1, <1>2

LEMMA GuessedDateIsDay ==
  ASSUME NEW p \in Payloads
  PROVE  GuessedDate(Datasets[p]) \in SUBSET Nat
<1> DEFINE d == Datasets[p]
           measured == [m \in d.metrics |-> m.measured]
           started == [b \in d.builds |-> b.started]
           updated == [t \in d.tickets |-> t.updated]
<1>1. /\ IsFiniteSet(d.tickets) /\ d.tickets \subseteq Tickets
      /\ IsFiniteSet(d.builds) /\ d.builds \subseteq Builds
      /\ IsFiniteSet(d.metrics) /\ d.metrics \subseteq Metrics
  BY TablesAreFinite
<1> HIDE DEF d
<1>2. /\ \A m \in d.metrics : measured[m] \in Nat
      /\ \A b \in d.builds : started[b] \in Nat
      /\ \A t \in d.tickets : updated[t] \in Nat
  BY <1>1 DEF Tickets, Builds, Metrics, Moments
<1>3. /\ measured = [m \in d.metrics |-> measured[m]]
      /\ started = [b \in d.builds |-> started[b]]
      /\ updated = [t \in d.tickets |-> updated[t]]
  OBVIOUS
<1>4. /\ {m.measured : m \in d.metrics} = {measured[m] : m \in d.metrics}
      /\ {b.started : b \in d.builds} = {started[b] : b \in d.builds}
      /\ {t.updated : t \in d.tickets} = {updated[t] : t \in d.tickets}
  OBVIOUS
<1> HIDE DEF measured, started, updated
<1>5. /\ IsFiniteSet({measured[m] : m \in d.metrics})
      /\ IsFiniteSet({started[b] : b \in d.builds})
      /\ IsFiniteSet({updated[t] : t \in d.tickets})
  BY <1>1, <1>3, ImageIsFinite
<1>6. /\ {measured[m] : m \in d.metrics} \in SUBSET Nat
      /\ {started[b] : b \in d.builds} \in SUBSET Nat
      /\ {updated[t] : t \in d.tickets} \in SUBSET Nat
  BY <1>2
<1>7. /\ LatestDay({m.measured : m \in d.metrics}) \in SUBSET Nat
      /\ LatestDay({b.started : b \in d.builds}) \in SUBSET Nat
      /\ LatestDay({t.updated : t \in d.tickets}) \in SUBSET Nat
  BY <1>4, <1>5, <1>6, LatestDayIsDay
<1> QED
  BY <1>7 DEF GuessedDate, d

\* The date an analysis without as_of is made at is one.
LEMMA ReferenceIsDay ==
  ASSUME logs \in Seq(LogRows), data \in Payloads
  PROVE  LatestReferenceDate \in SUBSET Nat
<1>1. CASE LogsOfProject = {}
  BY <1>1, GuessedDateIsDay DEF LatestReferenceDate
<1>2. CASE LogsOfProject # {}
  <2>1. LogsOfProject \in SUBSET (1..Len(logs)) /\ Len(logs) \in Nat
    BY DEF LogsOfProject
  <2>2. IsFiniteSet(LogsOfProject)
    BY <2>1, IntervalIsFinite
  <2>3. LogsOfProject \in SUBSET Int
    BY <2>1
  <2>4. Max(LogsOfProject) \in 1..Len(logs)
    BY <1>2, <2>1, <2>2, <2>3, MaxIsElement
  <2>5. logs[Max(LogsOfProject)] \in LogRows
    BY <2>4
  <2>6. logs[Max(LogsOfProject)].reference \in Nat
    BY <2>5 DEF LogRows
  <2> QED
    BY <1>2, <2>6 DEF LatestReferenceDate
<1> QED
  BY <1>1, <1>2

\* The latest of some snapshots is one of them.
LEMMA LatestRowIsRow ==
  ASSUME NEW n \in Nat, NEW rows, rows # {}, \A row \in rows : row.analyzedAt \in 1..n
  PROVE  LatestRow(rows) \in rows
<1> DEFINE dates == {row.analyzedAt : row \in rows}
<1>1. dates \in SUBSET (1..n) /\ dates # {} /\ dates \in SUBSET Int
  OBVIOUS
<1>2. \A row \in rows : row.analyzedAt \in dates
  OBVIOUS
<1>3. \A date \in dates : \E row \in rows : row.analyzedAt = date
  OBVIOUS
<1> HIDE DEF dates
<1>4. IsFiniteSet(dates)
  BY <1>1, IntervalIsFinite
<1>5. Max(dates) \in dates /\ \A date \in dates : date <= Max(dates)
  BY <1>1, <1>4, MaxIsElement
<1>6. \E row \in rows : \A other \in rows : other.analyzedAt <= row.analyzedAt
  BY <1>2, <1>3, <1>5
<1> QED
  BY <1>6 DEF LatestRow

LEMMA ProjectInitInv == ProjectInit => ProjectInv
<1> SUFFICES ASSUME ProjectInit PROVE ProjectInv
  OBVIOUS
<1>1. /\ JobsAreKnown /\ RowsAreCounted /\ SnapshotsAreOfTheData /\ SnapshotsAreOfReadings
      /\ DraftIsKnown
  BY DEF ProjectInit, JobsAreKnown, RowsAreCounted, SnapshotsAreOfTheData, SnapshotsAreOfReadings,
         DraftIsKnown, Current
<1>2. 0 \in 0..MaxAnalyses /\ 0 \in 0..MaxIngestions
  BY QaProjectAssumption DEF QaProjectAssumption
<1> QED
  BY <1>1, <1>2 DEF ProjectInit, ProjectInv, AnalysisInv

\* What a step does not touch stays as it is.
LEMMA UntouchedAnalyses ==
  ASSUME AnalysisInv, UNCHANGED serverVars
  PROVE  AnalysisInv'
  BY DEF AnalysisInv, serverVars, analysisVars, DraftIsKnown, RowsAreCounted,
         SnapshotsAreOfReadings, SnapshotsAreOfTheData, Current

\* An analysis that has not stored its snapshot leaves the others as they are.
LEMMA UntouchedSnapshots ==
  ASSUME ProjectInv, UNCHANGED <<data, snapshots, analyses, ingestVars>>, DraftIsKnown',
         overtaken' = overtaken \/ overtaken' = overtaken \ {analyses + 1}
  PROVE  ProjectInv'
<1>1. UNCHANGED <<data, snapshots, analyses, logs, calls, pc, job>>
  BY DEF ingestVars
<1>2. \A row \in snapshots : row.analyzedAt # analyses + 1
  BY DEF ProjectInv, AnalysisInv, RowsAreCounted
<1>3. Current' = Current
  BY <1>1, <1>2 DEF Current
<1>4. RowsAreCounted' /\ SnapshotsAreOfReadings' /\ SnapshotsAreOfTheData'
  BY <1>1, <1>3 DEF ProjectInv, AnalysisInv, RowsAreCounted, SnapshotsAreOfReadings,
                    SnapshotsAreOfTheData
<1>5. JobsAreKnown'
  BY <1>1 DEF ProjectInv, JobsAreKnown
<1> QED
  BY <1>1, <1>4, <1>5 DEF ProjectInv, AnalysisInv

\* An analysis begins with a date and has read nothing.
LEMMA BeginKeepsInv ==
  ASSUME ProjectInv, NEW sprint \in Scopes, NEW asOf \in AsOf, BeginAnalysis(sprint, asOf)
  PROVE  ProjectInv'
<1>1. /\ draft = NoDraft /\ data # NoData /\ data \in Payloads /\ analyses < MaxAnalyses
      /\ UNCHANGED <<data, snapshots, analyses, overtaken, ingestVars>>
  BY DEF ProjectInv, AnalysisInv, BeginAnalysis
<1>2. PICK reference \in IF asOf # Null THEN {asOf} ELSE LatestReferenceDate :
        draft' = [sprint |-> sprint, reference |-> reference, seen |-> <<>>, link |-> {}]
  BY DEF BeginAnalysis
<1>3. reference \in Nat
  <2>1. LatestReferenceDate \in SUBSET Nat
    BY <1>1, ReferenceIsDay DEF ProjectInv
  <2> QED
    BY <2>1, QaProjectAssumption DEF QaProjectAssumption
<1>4. draft' \in Drafts /\ draft'.link = {} /\ draft'.seen = <<>>
  BY <1>2, <1>3 DEF Drafts
<1>5. DraftIsKnown'
  BY <1>1, <1>4, QaProjectAssumption
  DEF DraftIsKnown, ProjectInv, AnalysisInv, QaProjectAssumption
<1> QED
  BY <1>1, <1>5, UntouchedSnapshots

\* Each SELECT reads the data that is there.
LEMMA ReadKeepsInv ==
  ASSUME ProjectInv, ReadTable
  PROVE  ProjectInv'
<1> DEFINE seen == draft.seen
           new == Append(seen, data)
<1>1. /\ draft # NoDraft /\ Len(seen) < 6 /\ draft' = [draft EXCEPT !.seen = new]
      /\ UNCHANGED <<data, snapshots, analyses, overtaken, ingestVars>>
  BY DEF ReadTable
<1>2. /\ draft \in Drafts /\ analyses < MaxAnalyses
      /\ draft.link # {} => Len(seen) = 6
      /\ data \in Payloads
      /\ analyses + 1 \notin overtaken => \A i \in 1..Len(seen) : seen[i] = data
  BY <1>1 DEF ProjectInv, AnalysisInv, DraftIsKnown
<1>3. /\ new \in Seq(Payloads) /\ Len(new) = Len(seen) + 1 /\ Len(seen) \in Nat
      /\ \A i \in 1..Len(new) : new[i] = IF i <= Len(seen) THEN seen[i] ELSE data
  <2>1. seen \in Seq(Payloads)
    BY <1>2 DEF Drafts
  <2> HIDE DEF seen
  <2> QED
    BY <1>2, <2>1
<1>4. draft.link = {}
  <2> DEFINE n == Len(seen)
  <2>1. n \in Nat /\ n < 6 /\ (draft.link # {} => n = 6)
    BY <1>1, <1>2, <1>3
  <2> HIDE DEF n
  <2> QED
    BY <2>1
<1>5. draft' \in Drafts /\ draft'.seen = new /\ draft'.link = {}
  <2>1. new \in Seq(Payloads)
    BY <1>3
  <2> HIDE DEF new
  <2> QED
    BY <1>1, <1>2, <1>4, <2>1 DEF Drafts
<1> HIDE DEF new
<1>6. DraftIsKnown'
  <2>1. analyses + 1 \notin overtaken => \A i \in 1..Len(new) : new[i] = data
    BY <1>2, <1>3
  <2>2. Len(new) <= 6
    BY <1>1, <1>3
  <2> QED
    BY <1>1, <1>2, <1>5, <2>1, <2>2, QaProjectAssumption
      DEF DraftIsKnown, ProjectInv, AnalysisInv, QaProjectAssumption
<1> QED
  BY <1>1, <1>6, UntouchedSnapshots

\* The link is to a snapshot there is, or none.
LEMMA LinkKeepsInv ==
  ASSUME ProjectInv, LinkSnapshot
  PROVE  ProjectInv'
<1> DEFINE earlier == OfScope(snapshots, draft.sprint)
           link == IF earlier = {} THEN Null ELSE LatestRow(earlier).analyzedAt
<1>1. /\ draft # NoDraft /\ Len(draft.seen) = 6 /\ draft' = [draft EXCEPT !.link = {link}]
      /\ UNCHANGED <<data, snapshots, analyses, overtaken, ingestVars>>
  BY DEF LinkSnapshot
<1>2. draft \in Drafts /\ analyses \in Nat /\ analyses < MaxAnalyses /\ MaxAnalyses \in Nat
  BY <1>1, QaProjectAssumption DEF ProjectInv, AnalysisInv, DraftIsKnown, QaProjectAssumption
<1>3. link \in 0..analyses
  <2>1. CASE earlier = {}
    BY <1>2, <2>1 DEF Null
  <2>2. CASE earlier # {}
    <3>1. \A row \in earlier : row.analyzedAt \in 1..analyses
      BY DEF ProjectInv, AnalysisInv, RowsAreCounted, OfScope
    <3> HIDE DEF earlier
    <3>2. LatestRow(earlier) \in earlier
      BY <1>2, <2>2, <3>1, LatestRowIsRow
    <3> QED
      BY <1>2, <2>2, <3>1, <3>2
  <2> QED
    BY <2>1, <2>2
<1> HIDE DEF link
<1>4. /\ draft' \in Drafts /\ draft'.seen = draft.seen
      /\ draft'.link \subseteq 0..analyses
  BY <1>1, <1>2, <1>3 DEF Drafts
<1>5. DraftIsKnown'
  BY <1>1, <1>2, <1>4, QaProjectAssumption
  DEF DraftIsKnown, ProjectInv, AnalysisInv, QaProjectAssumption
<1> QED
  BY <1>1, <1>5, UntouchedSnapshots

\* An analysis that ends without a snapshot is forgotten.
LEMMA EndKeepsInv ==
  ASSUME ProjectInv, EndAnalysis
  PROVE  ProjectInv'
<1>1. /\ draft' = NoDraft /\ overtaken' = overtaken \ {analyses + 1}
      /\ UNCHANGED <<data, snapshots, analyses, ingestVars>>
  BY DEF EndAnalysis
<1>2. DraftIsKnown'
  BY <1>1 DEF DraftIsKnown, ProjectInv, AnalysisInv
<1> QED
  BY <1>1, <1>2, UntouchedSnapshots

\* What is stored is the assessment of the tables read: those of the data, if no
\* load fell in between.
LEMMA InsertKeepsInv ==
  ASSUME ProjectInv, InsertSnapshot
  PROVE  ProjectInv'
<1>1. /\ draft # NoDraft /\ draft.link # {} /\ draft' = NoDraft /\ analyses' = analyses + 1
      /\ UNCHANGED <<data, overtaken, ingestVars>>
  BY DEF InsertSnapshot
<1>2. PICK previous \in draft.link :
        snapshots' = snapshots \cup {Row(analyses + 1, previous, Drafted)}
  BY DEF InsertSnapshot
<1>3. /\ draft \in Drafts /\ analyses < MaxAnalyses /\ draft.link \subseteq 0..analyses
      /\ Len(draft.seen) = 6 /\ data # NoData
      /\ analyses + 1 \notin overtaken => \A i \in 1..6 : draft.seen[i] = data
  BY <1>1 DEF ProjectInv, AnalysisInv, DraftIsKnown
<1>4. analyses \in Nat /\ analyses + 1 \in 0..MaxAnalyses /\ overtaken \subseteq 1..(analyses + 1)
  <2>1. analyses \in 0..MaxAnalyses /\ MaxAnalyses \in Nat
    BY QaProjectAssumption DEF ProjectInv, AnalysisInv, QaProjectAssumption
  <2> QED
    BY <1>3, <2>1 DEF ProjectInv, AnalysisInv, DraftIsKnown
<1>5. draft.seen \in Readings
  <2>1. draft.seen \in Seq(Payloads) /\ Len(draft.seen) = 6
    BY <1>3 DEF Drafts
  <2> QED
    BY <2>1, SixTablesRead
<1> DEFINE result == Drafted
           new == Row(analyses + 1, previous, result)
<1>6. /\ result = Assessment(TablesRead(draft.seen), result.sprint, result.reference)
      /\ result.sprint = draft.sprint /\ result.reference = draft.reference
  BY DEF Drafted, Assessment
<1> HIDE DEF result
<1>7. new.analyzedAt = analyses + 1 /\ new.previous = previous /\ new.result = result
  BY DEF Row
<1>8. previous \in 0..analyses /\ result.reference \in Nat
  BY <1>2, <1>3, <1>6 DEF Drafts
<1>9. snapshots' = snapshots \cup {new}
  BY <1>2 DEF result
<1> HIDE DEF new
<1>10. RowsAreCounted'
  <2> SUFFICES ASSUME NEW row \in snapshots'
               PROVE  /\ row.analyzedAt \in 1..analyses'
                      /\ row.previous \in 0..(row.analyzedAt - 1)
                      /\ row.result.reference \in Nat
    BY DEF RowsAreCounted
  <2>1. CASE row \in snapshots
    BY <1>1, <1>4, <2>1 DEF ProjectInv, AnalysisInv, RowsAreCounted
  <2>2. CASE row = new
    BY <1>1, <1>4, <1>7, <1>8, <2>2
  <2> QED
    BY <1>9, <2>1, <2>2
<1>11. SnapshotsAreOfReadings'
  BY <1>5, <1>6, <1>7, <1>9 DEF ProjectInv, AnalysisInv, SnapshotsAreOfReadings
<1>12. SnapshotsAreOfTheData'
  <2>1. \A row \in Current :
          row.result = Assessment(Datasets[data], row.result.sprint, row.result.reference)
    BY DEF ProjectInv, AnalysisInv, SnapshotsAreOfTheData
  <2>2. Current' \subseteq Current \cup {new} /\ (new \in Current' => analyses + 1 \notin overtaken)
    BY <1>1, <1>7, <1>9 DEF Current
  <2>3. ASSUME analyses + 1 \notin overtaken
        PROVE  new.result = Assessment(Datasets[data], new.result.sprint, new.result.reference)
    BY <1>3, <1>6, <1>7, <2>3, ReadingOfOne
  <2> QED
    BY <1>1, <1>3, <2>1, <2>2, <2>3 DEF SnapshotsAreOfTheData
<1>13. DraftIsKnown'
  BY <1>1, <1>4 DEF DraftIsKnown
<1>14. JobsAreKnown' /\ UNCHANGED <<logs, calls>>
  BY <1>1 DEF ProjectInv, JobsAreKnown, ingestVars
<1> QED
  BY <1>1, <1>3, <1>4, <1>10, <1>11, <1>12, <1>13, <1>14 DEF ProjectInv, AnalysisInv

\* The steps of an analysis.
LEMMA AnalysesKeepInv ==
  ASSUME ProjectInv, Analyses
  PROVE  ProjectInv'
  BY BeginKeepsInv, ReadKeepsInv, LinkKeepsInv, InsertKeepsInv, EndKeepsInv DEF Analyses

\* A log is added, or the earlier ones are detached.
LEMMA LogsStayTyped ==
  ASSUME logs \in Seq(LogRows)
  PROVE  /\ \A ofProject \in BOOLEAN, status \in {"success", "skipped", "failed"},
               reference \in Nat :
              Append(logs, Log(ofProject, status, reference)) \in Seq(LogRows)
         /\ [i \in DOMAIN logs |-> [logs[i] EXCEPT !.ofProject = FALSE]] \in Seq(LogRows)
<1>1. ASSUME NEW ofProject \in BOOLEAN, NEW status \in {"success", "skipped", "failed"},
             NEW reference \in Nat
      PROVE  Append(logs, Log(ofProject, status, reference)) \in Seq(LogRows)
  <2>1. Log(ofProject, status, reference) \in LogRows
    BY DEF Log, LogRows
  <2> QED
    BY <2>1
<1>2. [i \in DOMAIN logs |-> [logs[i] EXCEPT !.ofProject = FALSE]] \in Seq(LogRows)
  <2>1. DOMAIN logs = 1..Len(logs) /\ Len(logs) \in Nat
    OBVIOUS
  <2>2. \A row \in LogRows : [row EXCEPT !.ofProject = FALSE] \in LogRows
    BY DEF LogRows
  <2>3. \A i \in 1..Len(logs) : [logs[i] EXCEPT !.ofProject = FALSE] \in LogRows
    BY <2>2
  <2> QED
    BY <2>1, <2>3
<1> QED
  BY <1>1, <1>2

\* The steps of the ingestion.
LEMMA IngestKeepsInv ==
  ASSUME ProjectInv, NEW c \in Callers, Ingest(c)
  PROVE  ProjectInv'
<1> USE DEF ProjectInv
<1>1. MaxIngestions \in Nat /\ \A p \in Payloads : Datasets[p].reference \in Nat
  BY QaProjectAssumption, TablesAreFinite DEF QaProjectAssumption
<1>2. Begin(c) => calls' \in 0..MaxIngestions
  BY <1>1 DEF Begin
<1>3. ASSUME NEW payload \in Payloads, Refuse(c, payload) PROVE ProjectInv'
  <2>1. UNCHANGED <<serverVars, pc, job>> /\ Begin(c)
    BY <1>3 DEF Refuse
  <2>2. logs' \in Seq(LogRows)
    BY <1>3, LogsStayTyped DEF Refuse, Null
  <2> QED
    BY <1>2, <2>1, <2>2, UntouchedAnalyses DEF JobsAreKnown
<1>4. ASSUME NEW payload \in Payloads, Unhandled(c, payload) PROVE ProjectInv'
  <2>1. UNCHANGED <<serverVars, logs, pc, job>> /\ Begin(c)
    BY <1>4 DEF Unhandled
  <2> QED
    BY <1>2, <2>1, UntouchedAnalyses DEF JobsAreKnown
<1>5. ASSUME NEW payload \in Payloads, NEW reset \in BOOLEAN, LookUp(c, payload, reset)
      PROVE  ProjectInv'
  <2>1. UNCHANGED <<serverVars, logs>> /\ Begin(c)
    BY <1>5 DEF LookUp
  <2>2. /\ pc' = [pc EXCEPT ![c] = "seeding"] /\ DOMAIN job' = DOMAIN job
        /\ job'[c].payload = payload /\ \A o \in Callers \ {c} : job'[o] = job[o]
    BY <1>5 DEF LookUp, JobsAreKnown
  <2>3. JobsAreKnown'
    BY <2>2 DEF JobsAreKnown
  <2> QED
    BY <1>2, <2>1, <2>3, UntouchedAnalyses
<1>6. ASSUME pc[c] # "idle", NEW status \in {"success", "skipped"}, ToLog(c, status)
      PROVE  JobsAreKnown'
  <2>1. /\ pc' = [pc EXCEPT ![c] = "logging"] /\ DOMAIN job' = DOMAIN job
        /\ \A o \in Callers : job'[o].payload = job[o].payload
        /\ job'[c].status = status /\ \A o \in Callers \ {c} : job'[o] = job[o]
    BY <1>6 DEF ToLog, JobsAreKnown
  <2> QED
    BY <1>6, <2>1 DEF JobsAreKnown
<1>7. ASSUME EndCall(c) PROVE JobsAreKnown'
  <2>1. /\ pc' = [pc EXCEPT ![c] = "idle"] /\ DOMAIN job' = DOMAIN job
        /\ \A o \in Callers \ {c} : job'[o] = job[o]
    BY <1>7 DEF EndCall, JobsAreKnown
  <2> QED
    BY <2>1 DEF JobsAreKnown
<1>8. ASSUME Skip(c) PROVE ProjectInv'
  <2>1. UNCHANGED <<serverVars, logs, calls>>
    BY <1>8 DEF Skip
  <2>2. JobsAreKnown'
    BY <1>6, <1>8 DEF Skip
  <2> QED
    BY <2>1, <2>2, UntouchedAnalyses
<1>9. ASSUME Load(c) PROVE ProjectInv'
  <2>1. /\ snapshots' = {} /\ UNCHANGED <<analyses, draft, calls>>
        /\ overtaken' = IF draft = NoDraft THEN {} ELSE {analyses + 1}
    BY <1>9 DEF Load, ClearSnapshots
  <2>2. data' \in Payloads
    BY <1>9 DEF Load, JobsAreKnown
  <2>3. logs' \in Seq(LogRows)
    <3>1. logs' = [i \in DOMAIN logs |-> [logs[i] EXCEPT !.ofProject = FALSE]] \/ logs' = logs
      BY <1>9 DEF Load
    <3> QED
      BY <3>1, LogsStayTyped
  <2>4. JobsAreKnown'
    BY <1>6, <1>9 DEF Load
  <2>5. AnalysisInv'
    <3>1. /\ RowsAreCounted' /\ SnapshotsAreOfTheData' /\ SnapshotsAreOfReadings'
      BY <2>1 DEF RowsAreCounted, SnapshotsAreOfTheData, SnapshotsAreOfReadings, Current
    <3>2. data' # NoData /\ analyses \in Nat
      BY <2>2, QaProjectAssumption DEF QaProjectAssumption, AnalysisInv
    <3>3. DraftIsKnown'
      BY <2>1, <3>2 DEF DraftIsKnown, AnalysisInv
    <3> QED
      BY <2>1, <2>2, <3>1, <3>3 DEF AnalysisInv
  <2> QED
    BY <2>1, <2>3, <2>4, <2>5
<1>10. ASSUME LoadError(c) PROVE ProjectInv'
  <2>1. UNCHANGED <<serverVars, logs, calls>> /\ JobsAreKnown'
    BY <1>7, <1>10 DEF LoadError
  <2> QED
    BY <2>1, UntouchedAnalyses
<1>11. ASSUME WriteLog(c) PROVE ProjectInv'
  <2>1. UNCHANGED <<serverVars, calls>> /\ JobsAreKnown'
    BY <1>7, <1>11 DEF WriteLog
  <2>2. /\ job[c].status \in {"success", "skipped", "failed"} /\ job[c].payload \in Payloads
        /\ logs' = Append(logs, Log(TRUE, job[c].status, Datasets[job[c].payload].reference))
    BY <1>11 DEF WriteLog, JobsAreKnown
  <2>3. logs' \in Seq(LogRows)
    BY <1>1, <2>2, LogsStayTyped
  <2> QED
    BY <2>1, <2>3, UntouchedAnalyses
<1>12. ASSUME Die(c) PROVE ProjectInv'
  <2>1. UNCHANGED <<serverVars, logs, calls>> /\ JobsAreKnown'
    BY <1>7, <1>12 DEF Die
  <2> QED
    BY <2>1, UntouchedAnalyses
<1> QED
  BY <1>3, <1>4, <1>5, <1>8, <1>9, <1>10, <1>11, <1>12 DEF Ingest

LEMMA ProjectStepInv == ProjectInv /\ [ProjectNext]_projectVars => ProjectInv'
<1> SUFFICES ASSUME ProjectInv, [ProjectNext]_projectVars PROVE ProjectInv'
  OBVIOUS
<1>1. CASE UNCHANGED projectVars
  BY <1>1, UntouchedAnalyses DEF projectVars, serverVars, ingestVars, ProjectInv, JobsAreKnown
<1>2. CASE Analyses
  BY <1>2, AnalysesKeepInv
<1>3. ASSUME NEW c \in Callers, Ingest(c) PROVE ProjectInv'
  BY <1>3, IngestKeepsInv
<1> QED
  BY <1>1, <1>2, <1>3 DEF ProjectNext

\* Every reachable state satisfies the invariant.
THEOREM ProjectInvariant == ProjectSpec => []ProjectInv
  BY ProjectInitInv, ProjectStepInv, PTL DEF ProjectSpec

\* Whatever was loaded, skipped or lost in between, the stored snapshots are what
\* an analysis of the data that is there now gives, but for those of analyses that
\* a load fell into.
THEOREM SnapshotsAreOfTheDataHolds == ProjectSpec => []SnapshotsAreOfTheData
<1>1. ProjectInv => SnapshotsAreOfTheData
  BY DEF ProjectInv, AnalysisInv
<1> QED
  BY <1>1, ProjectInvariant, PTL

\* What is used of a snapshot no load fell into.
LEMMA CurrentIsOfTheData ==
  ASSUME ProjectInv, NEW row \in Current
  PROVE  /\ row \in snapshots /\ data \in Payloads
         /\ row.result.reference \in Nat /\ row.analyzedAt \in Nat
         /\ row.result = Assessment(Datasets[data], row.result.sprint, row.result.reference)
<1>1. row \in snapshots
  BY DEF Current
<1> QED
  BY <1>1 DEF ProjectInv, AnalysisInv, SnapshotsAreOfTheData, RowsAreCounted

\* The data, the log and the callers are of their types and the numbers of every
\* snapshot in the ranges DecisionSignals insists on.
THEOREM ProjectTypeOKHolds == ProjectSpec => []ProjectTypeOK
<1>1. ProjectInv => ProjectTypeOK
  <2> SUFFICES ASSUME ProjectInv PROVE ProjectTypeOK
    OBVIOUS
  <2>1. ASSUME NEW row \in snapshots
        PROVE  /\ row.analyzedAt \in 1..analyses /\ row.previous \in 0..(row.analyzedAt - 1)
               /\ SignalsAreValid([Signals(Datasets[data], row.result) EXCEPT !.testCoverage = {}])
    <3>1. /\ row.result.reference \in Nat
          /\ row.analyzedAt \in 1..analyses /\ row.previous \in 0..(row.analyzedAt - 1)
      BY DEF ProjectInv, AnalysisInv, RowsAreCounted
    <3>2. PICK seen \in Readings :
            row.result = Assessment(TablesRead(seen), row.result.sprint, row.result.reference)
      BY DEF ProjectInv, AnalysisInv, SnapshotsAreOfReadings
    <3>3. LET result == Assessment(TablesRead(seen), row.result.sprint, row.result.reference)
          IN  SignalsAreValid([Signals(Datasets[data], result) EXCEPT !.testCoverage = {}])
      BY <3>1, ReadingsAreTables, AssessmentBounded
    <3> QED
      BY <3>1, <3>2, <3>3
  <2>2. overtaken \subseteq 1..(analyses + 1) /\ draft \in Drafts \cup {NoDraft}
    BY DEF ProjectInv, AnalysisInv, DraftIsKnown
  <2> QED
    BY <2>1, <2>2 DEF ProjectInv, AnalysisInv, ProjectTypeOK, JobsAreKnown, LogRows
<1> QED
  BY <1>1, ProjectInvariant, PTL

\* The release the Decision Brief suggests is one the risk summary does not hold
\* back, and what the summary forbids the brief forbids, whatever the policies.
THEOREM AdvisersAgreeHolds == ProjectSpec => []AdvisersAgree
<1>1. ProjectInv => AdvisersAgree
  <2> SUFFICES ASSUME ProjectInv, NEW row \in snapshots
               PROVE  LET suggested == Suggestion(Datasets[data], row.result)
                          ready == ReleaseReadiness(row.result, Cardinality(row.result.findings))
                      IN  /\ suggested = "GO" => ready = "GO"
                          /\ ready = "NO-GO" => suggested \in {"NO_GO", "error"}
    BY DEF AdvisersAgree
  <2>1. row.result.reference \in Nat
    BY DEF ProjectInv, AnalysisInv, RowsAreCounted
  <2>2. PICK seen \in Readings :
          row.result = Assessment(TablesRead(seen), row.result.sprint, row.result.reference)
    BY DEF ProjectInv, AnalysisInv, SnapshotsAreOfReadings
  <2>3. LET result == Assessment(TablesRead(seen), row.result.sprint, row.result.reference)
            suggested == Suggestion(Datasets[data], result)
            ready == ReleaseReadiness(result, Cardinality(result.findings))
        IN  /\ suggested = "GO" => ready = "GO"
            /\ ready = "NO-GO" => suggested \in {"NO_GO", "error"}
    BY <2>1, ReadingsAreTables, AdvisersAgreeOnAssessment
  <2> QED
    BY <2>2, <2>3
<1> QED
  BY <1>1, ProjectInvariant, PTL
--------------------------------------------------------------------------------
(* What a GO says of the builds and coverages of its scope.                    *)

\* An enabled policy that asks for findings when a metric compares so to a value.
HasPolicy(metric, operator, value) ==
  \E policy \in Policies :
    /\ policy.enabled
    /\ policy.condition = [metric |-> metric, operator |-> operator, isList |-> FALSE,
                           values |-> {value}]

\* The policies of qa-rules-v1.0 on builds and coverages, whatever their weights
\* and severities.
HasReleasePolicies ==
  /\ HasPolicy("consecutive_failed_builds", "greater_than", 0)
  /\ HasPolicy("coverage_percent", "less_than", 70)

\* Rows with two columns to be ordered by have a last one.
LEMMA LastExists ==
  ASSUME NEW S, IsFiniteSet(S), S # {}, NEW first \in [S -> Int], NEW second \in [S -> Int]
  PROVE  \E x \in S : \A y \in S :
           first[y] < first[x] \/ (first[y] = first[x] /\ second[y] <= second[x])
<1> DEFINE m == Max({first[x] : x \in S})
           T == {x \in S : first[x] = m}
           k == Max({second[x] : x \in T})
           secondOfT == [x \in T |-> second[x]]
<1>1. IsFiniteSet({first[x] : x \in S}) /\ {first[x] : x \in S} \in SUBSET Int
      /\ {first[x] : x \in S} # {}
  BY ImageIsFinite
<1>2. m \in {first[x] : x \in S} /\ \A y \in {first[x] : x \in S} : y <= m
  BY <1>1, MaxIsElement
<1> HIDE DEF m
<1>3. T # {} /\ T \in SUBSET S /\ IsFiniteSet(T) /\ \A x \in T : first[x] = m
  BY <1>2, FS_Subset
<1>4. \A x \in S : first[x] < m \/ x \in T
  BY <1>2
<1> HIDE DEF T
<1>5. secondOfT = [x \in T |-> secondOfT[x]]
  OBVIOUS
<1>6. {second[x] : x \in T} = {secondOfT[x] : x \in T}
  OBVIOUS
<1> HIDE DEF secondOfT
<1>7. IsFiniteSet({second[x] : x \in T})
  BY <1>3, <1>5, <1>6, ImageIsFinite
<1>8. {second[x] : x \in T} \in SUBSET Int /\ {second[x] : x \in T} # {}
  BY <1>3
<1>9. k \in {second[x] : x \in T} /\ \A y \in {second[x] : x \in T} : y <= k
  BY <1>7, <1>8, MaxIsElement
<1> HIDE DEF k
<1>10. PICK x \in T : second[x] = k
  BY <1>9
<1>11. \A y \in T : second[y] <= second[x] /\ first[y] = first[x]
  BY <1>3, <1>9, <1>10
<1> QED
  BY <1>3, <1>4, <1>10, <1>11

\* When nothing is found, no fact is what an enabled policy asks for.
LEMMA NothingFound ==
  ASSUME NEW c, EvaluateRules(c) = {}, NEW policy \in Policies, policy.enabled,
         NEW fact \in CollectFacts(c), fact.metric = policy.condition.metric
  PROVE  ~Compares(fact.value, policy.condition)
<1> SUFFICES ASSUME Compares(fact.value, policy.condition) PROVE FALSE
  OBVIOUS
<1>1. Finding(policy, fact) \in EvaluatePolicy(policy, CollectFacts(c))
  BY DEF EvaluatePolicy
<1> QED
  BY <1>1 DEF EvaluateRules

\* Then every failed build is made up for in its sprint.
LEMMA FailuresAreMadeUpFor ==
  ASSUME NEW c, IsContext(c), EvaluateRules(c) = {}, HasReleasePolicies,
         NEW b \in VisibleBuilds(c), b.status = "failed"
  PROVE  \E other \in VisibleBuilds(c) :
           other.sprint = b.sprint /\ other.started >= b.started /\ other.status # "failed"
<1> DEFINE OfSprint(x) == {other \in VisibleBuilds(c) : other.sprint = x.sprint}
           rows == OfSprint(b)
           started == [x \in rows |-> x.started]
           id == [x \in rows |-> x.id]
<1>1. rows \in SUBSET c.builds /\ rows \in SUBSET VisibleBuilds(c) /\ b \in rows
  BY DEF VisibleBuilds
<1>2. IsFiniteSet(rows)
  BY <1>1, FS_Subset DEF IsContext
<1>3. \A x \in rows : x.started \in Nat /\ x.id \in Nat /\ x.sprint = b.sprint
  BY <1>1 DEF IsContext, Builds, Moments, Keys
<1> HIDE DEF rows
<1>4. started \in [rows -> Int] /\ id \in [rows -> Int]
  BY <1>3
<1>5. PICK last \in rows : \A y \in rows :
        started[y] < started[last] \/ (started[y] = started[last] /\ id[y] <= id[last])
  <2> HIDE DEF started, id
  <2> QED
    BY <1>1, <1>2, <1>4, LastExists
<1>6. \A y \in rows : ~StartedAfter(y, last) /\ last.started >= y.started
  BY <1>3, <1>5 DEF StartedAfter
<1>7. OfSprint(last) = rows /\ last \in VisibleBuilds(c)
  BY <1>1, <1>3 DEF rows
<1> DEFINE streak == {x \in rows : \A other \in rows :
                        other = x \/ StartedAfter(other, x) => other.status = "failed"}
           fact == Fact("consecutive_failed_builds", FailureStreak(rows), "build", last,
                        last.started, {})
<1>8. fact \in CollectFacts(c)
  <2>1. IsLatestBuild(last, OfSprint(last))
    BY <1>6, <1>7 DEF IsLatestBuild
  <2>2. Fact("consecutive_failed_builds", FailureStreak(OfSprint(last)), "build", last,
             last.started, {}) \in BuildFacts(c)
    BY <1>7, <2>1 DEF BuildFacts
  <2> QED
    BY <1>7, <2>2 DEF CollectFacts
<1>9. fact.metric = "consecutive_failed_builds" /\ fact.value = FailureStreak(rows)
  BY DEF Fact
<1> HIDE DEF fact
<1>10. FailureStreak(rows) = 0
  <2>1. PICK policy \in Policies :
          /\ policy.enabled
          /\ policy.condition = [metric |-> "consecutive_failed_builds",
                                 operator |-> "greater_than", isList |-> FALSE, values |-> {0}]
    BY DEF HasReleasePolicies, HasPolicy
  <2>2. ~Compares(FailureStreak(rows), policy.condition)
    BY <1>8, <1>9, <2>1, NothingFound
  <2>3. ~(FailureStreak(rows) > 0)
    BY <2>1, <2>2 DEF Compares, Collections
  <2>4. FailureStreak(rows) \in Nat
    BY <1>2, FS_Subset, FS_CardinalityType DEF FailureStreak
  <2> QED
    BY <2>3, <2>4
<1>11. streak = {}
  BY <1>2, <1>10, FS_Subset, FS_EmptySet DEF FailureStreak
<1>12. last.status # "failed"
  BY <1>6, <1>11
<1> QED
  BY <1>1, <1>3, <1>6, <1>7, <1>12

\* And every coverage below 70 is.
LEMMA CoveragesAreMadeUpFor ==
  ASSUME NEW c, IsContext(c), EvaluateRules(c) = {}, HasReleasePolicies,
         NEW m \in VisibleCoverages(c)
  PROVE  \E other \in VisibleCoverages(c) :
           other.sprint = m.sprint /\ other.measured >= m.measured /\ other.value >= 70
<1> DEFINE rows == {other \in VisibleCoverages(c) : other.sprint = m.sprint}
           measured == [x \in rows |-> x.measured]
           id == [x \in rows |-> 0 - x.id]
<1>1. rows \in SUBSET c.metrics /\ rows \in SUBSET VisibleCoverages(c) /\ m \in rows
  BY DEF VisibleCoverages
<1>2. IsFiniteSet(rows)
  BY <1>1, FS_Subset DEF IsContext
<1>3. \A x \in rows : x.measured \in Nat /\ x.id \in Nat /\ x.value \in Int /\ x.sprint = m.sprint
  BY <1>1 DEF IsContext, Metrics, Moments, Keys
<1>4. \A x \in VisibleCoverages(c) : x.sprint = m.sprint => x \in rows
  OBVIOUS
<1> HIDE DEF rows
<1>5. measured \in [rows -> Int] /\ id \in [rows -> Int]
  BY <1>3
<1>6. PICK last \in rows : \A y \in rows :
        measured[y] < measured[last] \/ (measured[y] = measured[last] /\ id[y] <= id[last])
  <2> HIDE DEF measured, id
  <2> QED
    BY <1>1, <1>2, <1>5, LastExists
<1>7. \A y \in rows : ~MeasuredBefore(last, y) /\ last.measured >= y.measured
  BY <1>3, <1>6 DEF MeasuredBefore
<1>8. last \in LatestCoverages(c)
  BY <1>1, <1>3, <1>4, <1>7 DEF LatestCoverages
<1> DEFINE fact == Fact("coverage_percent", last.value, "metric", last, last.measured, {})
<1>9. fact \in CollectFacts(c)
  BY <1>8 DEF CollectFacts, MetricFacts
<1>10. fact.metric = "coverage_percent" /\ fact.value = last.value
  BY DEF Fact
<1> HIDE DEF fact
<1>11. last.value >= 70
  <2>1. PICK policy \in Policies :
          /\ policy.enabled
          /\ policy.condition = [metric |-> "coverage_percent",
                                 operator |-> "less_than", isList |-> FALSE, values |-> {70}]
    BY DEF HasReleasePolicies, HasPolicy
  <2>2. ~Compares(last.value, policy.condition)
    BY <1>9, <1>10, <2>1, NothingFound
  <2>3. ~(last.value < 70)
    BY <2>1, <2>2 DEF Compares, Collections
  <2> QED
    BY <1>3, <2>3
<1> QED
  BY <1>1, <1>3, <1>7, <1>11

\* A GO is never suggested on data that is missing, stale or untested, nor when a
\* failed build or a coverage below 70 has not been made up for in its sprint: with
\* any policies among which are the two on builds and coverages.
THEOREM GoIsCleanHolds ==
  ASSUME HasReleasePolicies
  PROVE  ProjectSpec => []GoIsClean
<1>1. ProjectInv => GoIsClean
  <2> SUFFICES ASSUME ProjectInv, NEW row \in Current,
                      Suggestion(Datasets[data], row.result) = "GO"
               PROVE  LET d == Datasets[data]
                          c == Context(d, row.result.sprint, row.result.reference)
                      IN  /\ TestedBuilds(c, d) = VisibleBuilds(c)
                          /\ IsFresh(BuildMoments(c), c) /\ IsFresh(CoverageMoments(c), c)
                          /\ \A b \in VisibleBuilds(c) : b.status = "failed" =>
                               \E other \in VisibleBuilds(c) :
                                 /\ other.sprint = b.sprint /\ other.started >= b.started
                                 /\ other.status # "failed"
                          /\ \A m \in VisibleCoverages(c) : m.value < 70 =>
                               \E other \in VisibleCoverages(c) :
                                 /\ other.sprint = m.sprint /\ other.measured >= m.measured
                                 /\ other.value >= 70
    BY DEF GoIsClean
  <2> DEFINE d == Datasets[data]
             c == Context(d, row.result.sprint, row.result.reference)
             result == Assessment(d, row.result.sprint, row.result.reference)
             signals == Signals(d, result)
  <2>1. data \in Payloads /\ row.result.reference \in Nat /\ row.result = result
    BY CurrentIsOfTheData
  <2>2. IsContext(c)
    BY <2>1, ContextOfPayload
  <2>3. InformationGaps(signals) = {} /\ Conditions(signals) = {}
    BY <2>1 DEF Suggestion, EvaluateDecision
  <2>4. /\ signals.missing = MissingInformation(c, d)
        /\ signals.dataFreshness = Quality(c, d).freshness
        /\ signals.violatedPolicies = PoliciesOf(EvaluateRules(c))
    BY DEF Assessment, Signals
  <2> HIDE DEF signals, result, c
  <2>5. /\ MissingInformation(c, d) = {} /\ ~(Quality(c, d).freshness < 60)
        /\ EvaluateRules(c) = {}
    <3>1. signals.missing = {} /\ ~(signals.dataFreshness < 60)
      BY <2>3 DEF InformationGaps, Codes, Thresholds
    <3>2. signals.violatedPolicies = {}
      BY <2>3 DEF Conditions, Codes
    <3> QED
      BY <2>4, <3>1, <3>2 DEF PoliciesOf
  <2>6. TestedBuilds(c, d) = VisibleBuilds(c)
    BY <2>5 DEF MissingInformation, Codes
  <2>7. IsFresh(BuildMoments(c), c) /\ IsFresh(CoverageMoments(c), c)
    BY <2>5 DEF Quality, One
  <2>8. \A b \in VisibleBuilds(c) : b.status = "failed" =>
          \E other \in VisibleBuilds(c) :
            other.sprint = b.sprint /\ other.started >= b.started /\ other.status # "failed"
    BY <2>2, <2>5, FailuresAreMadeUpFor
  <2>9. \A m \in VisibleCoverages(c) : m.value < 70 =>
          \E other \in VisibleCoverages(c) :
            other.sprint = m.sprint /\ other.measured >= m.measured /\ other.value >= 70
    BY <2>2, <2>5, CoveragesAreMadeUpFor
  <2> QED
    BY <2>6, <2>7, <2>8, <2>9 DEF c
<1> QED
  BY <1>1, ProjectInvariant, PTL
--------------------------------------------------------------------------------
(* More of totals: they are linear and do not depend on the order of the sum.  *)

\* The sums of some integers, over the subsets of a finite set.
IsSum(iter, f, D) ==
  /\ iter[{}] = 0 /\ \A s \in SUBSET D : iter[s] \in Int
  /\ \A s \in SUBSET D : s # {} =>
       /\ First(s) \in s /\ First(s) \in D
       /\ iter[s] = f[First(s)] + iter[s \ {First(s)}]

LEMMA SumsOfIntegers ==
  ASSUME NEW D, IsFiniteSet(D), NEW f, DOMAIN f = D, \A x \in D : f[x] \in Int,
         NEW iter, Summing(iter, f)
  PROVE  IsSum(iter, f, D)
<1>1. /\ iter[{}] = 0
      /\ \A s \in SUBSET D : s # {} =>
           /\ First(s) \in s /\ First(s) \in D
           /\ iter[s] = f[First(s)] + iter[s \ {First(s)}]
  BY DEF Summing, First
<1> DEFINE F == {s \in SUBSET D : iter[s] \in Int}
<1>2. {} \in F /\ F \in SUBSET (SUBSET D)
  BY <1>1
<1>3. ASSUME NEW s \in SUBSET D, s # {}, s \ {First(s)} \in F PROVE s \in F
  <2> DEFINE x == First(s)
             rest == s \ {x}
  <2>1. x \in D /\ iter[rest] \in Int /\ iter[s] = f[x] + iter[rest]
    BY <1>1, <1>3
  <2> HIDE DEF x, rest
  <2>2. f[x] \in Int
    BY <2>1
  <2>3. iter[s] \in Int
    BY <2>1, <2>2
  <2> QED
    BY <2>3
<1>4. F = SUBSET D
  <2> HIDE DEF F
  <2> QED
    BY <1>2, <1>3, SubsetsByInduction
<1> QED
  BY <1>1, <1>4 DEF IsSum

\* A total is the sum over the whole set.
LEMMA TotalIsIntegerSum ==
  ASSUME NEW D, IsFiniteSet(D), NEW f, DOMAIN f = D, \A x \in D : f[x] \in Int
  PROVE  \E iter : Summing(iter, f) /\ IsSum(iter, f, D) /\ TotalOf(f) = iter[D]
  BY TotalIsSum, SumsOfIntegers

\* The sums of f are those of g where the two agree.
LEMMA SumsAgree ==
  ASSUME NEW D, IsFiniteSet(D), NEW f, NEW g, \A x \in D : g[x] = f[x],
         NEW i, IsSum(i, f, D), NEW j, IsSum(j, g, D)
  PROVE  i[D] = j[D]
<1> DEFINE F == {s \in SUBSET D : i[s] = j[s]}
<1>1. {} \in F /\ F \in SUBSET (SUBSET D)
  BY DEF IsSum
<1>2. ASSUME NEW s \in SUBSET D, s # {}, s \ {First(s)} \in F PROVE s \in F
  BY <1>2 DEF IsSum
<1>3. F = SUBSET D
  <2> HIDE DEF F
  <2> QED
    BY <1>1, <1>2, SubsetsByInduction
<1> QED
  BY <1>3

\* The total of differences is the difference of the totals.
LEMMA TotalOfDifferences ==
  ASSUME NEW D, IsFiniteSet(D), NEW f, DOMAIN f = D, \A x \in D : f[x] \in Int,
         NEW g, DOMAIN g = D, \A x \in D : g[x] \in Int,
         NEW h, DOMAIN h = D, \A x \in D : h[x] = f[x] - g[x]
  PROVE  /\ TotalOf(f) \in Int /\ TotalOf(g) \in Int
         /\ TotalOf(h) = TotalOf(f) - TotalOf(g)
<1>1. \A x \in D : h[x] \in Int
  OBVIOUS
<1>2. PICK i : IsSum(i, f, D) /\ TotalOf(f) = i[D]
  BY TotalIsIntegerSum
<1>3. PICK j : IsSum(j, g, D) /\ TotalOf(g) = j[D]
  BY TotalIsIntegerSum
<1>4. PICK k : IsSum(k, h, D) /\ TotalOf(h) = k[D]
  BY <1>1, TotalIsIntegerSum
<1> DEFINE F == {s \in SUBSET D : k[s] = i[s] - j[s]}
<1>5. {} \in F /\ F \in SUBSET (SUBSET D)
  BY <1>2, <1>3, <1>4 DEF IsSum
<1>6. ASSUME NEW s \in SUBSET D, s # {}, s \ {First(s)} \in F PROVE s \in F
  <2> DEFINE x == First(s)
             rest == s \ {x}
  <2>1. /\ x \in D /\ rest \in SUBSET D
        /\ i[s] = f[x] + i[rest] /\ j[s] = g[x] + j[rest] /\ k[s] = h[x] + k[rest]
        /\ k[rest] = i[rest] - j[rest]
    BY <1>2, <1>3, <1>4, <1>6 DEF IsSum
  <2> HIDE DEF x, rest
  <2>2. /\ f[x] \in Int /\ g[x] \in Int /\ h[x] = f[x] - g[x]
        /\ i[rest] \in Int /\ j[rest] \in Int
    BY <1>2, <1>3, <2>1 DEF IsSum
  <2>3. k[s] = i[s] - j[s]
    BY <2>1, <2>2
  <2> QED
    BY <2>3
<1>7. F = SUBSET D
  <2> HIDE DEF F
  <2> QED
    BY <1>5, <1>6, SubsetsByInduction
<1> QED
  BY <1>2, <1>3, <1>4, <1>7 DEF IsSum

\* A total of numbers none of which exceeds a hundred times another does not either.
LEMMA TotalIsMonotonic ==
  ASSUME NEW D, IsFiniteSet(D), NEW f, DOMAIN f = D, \A x \in D : f[x] \in Int,
         NEW g, DOMAIN g = D, \A x \in D : g[x] \in Int /\ f[x] <= 100 * g[x]
  PROVE  TotalOf(f) <= 100 * TotalOf(g)
<1>1. PICK i : IsSum(i, f, D) /\ TotalOf(f) = i[D]
  BY TotalIsIntegerSum
<1>2. PICK j : IsSum(j, g, D) /\ TotalOf(g) = j[D]
  BY TotalIsIntegerSum
<1> DEFINE F == {s \in SUBSET D : i[s] <= 100 * j[s]}
<1>3. {} \in F /\ F \in SUBSET (SUBSET D)
  BY <1>1, <1>2 DEF IsSum
<1>4. ASSUME NEW s \in SUBSET D, s # {}, s \ {First(s)} \in F PROVE s \in F
  <2> DEFINE x == First(s)
             rest == s \ {x}
  <2>1. /\ x \in D /\ rest \in SUBSET D
        /\ i[s] = f[x] + i[rest] /\ j[s] = g[x] + j[rest] /\ i[rest] <= 100 * j[rest]
    BY <1>1, <1>2, <1>4 DEF IsSum
  <2> HIDE DEF x, rest
  <2>2. /\ f[x] \in Int /\ g[x] \in Int /\ f[x] <= 100 * g[x]
        /\ i[rest] \in Int /\ j[rest] \in Int
    BY <1>1, <1>2, <2>1 DEF IsSum
  <2>3. i[s] <= 100 * j[s]
    BY <2>1, <2>2
  <2> QED
    BY <2>3
<1>5. F = SUBSET D
  <2> HIDE DEF F
  <2> QED
    BY <1>3, <1>4, SubsetsByInduction
<1> QED
  BY <1>1, <1>2, <1>5

\* Any element may be taken out first.
AnyFirst(iter, f, D) ==
  \A s \in SUBSET D : \A x \in s : iter[s] = f[x] + iter[s \ {x}]

LEMMA SumWithout ==
  ASSUME NEW D, IsFiniteSet(D), NEW f, \A x \in D : f[x] \in Int,
         NEW iter, IsSum(iter, f, D)
  PROVE  AnyFirst(iter, f, D)
<1> DEFINE Holds(s) == \A x \in s : iter[s] = f[x] + iter[s \ {x}]
           T == {n \in Nat : \A s \in SUBSET D : Cardinality(s) = n => Holds(s)}
<1>1. /\ \A s \in SUBSET D : iter[s] \in Int
      /\ \A s \in SUBSET D : s # {} =>
           First(s) \in s /\ iter[s] = f[First(s)] + iter[s \ {First(s)}]
  BY DEF IsSum
<1>2. \A s \in SUBSET D : IsFiniteSet(s) /\ Cardinality(s) \in Nat
  BY FS_Subset, FS_CardinalityType
<1>3. 0 \in T
  BY <1>2, FS_EmptySet
<1>4. ASSUME NEW n \in T PROVE n + 1 \in T
  <2> SUFFICES ASSUME NEW s \in SUBSET D, Cardinality(s) = n + 1, NEW x \in s
               PROVE  iter[s] = f[x] + iter[s \ {x}]
    OBVIOUS
  <2> DEFINE y == First(s)
             without == s \ {x, y}
  <2>1. y \in s /\ iter[s] = f[y] + iter[s \ {y}]
    BY <1>1
  <2>2. CASE x = y
    BY <2>1, <2>2
  <2>3. CASE x # y
    <3>1. Cardinality(s \ {x}) = n /\ Cardinality(s \ {y}) = n
      <4>1. IsFiniteSet(s) /\ n \in Nat /\ x \in s /\ y \in s
        BY <1>2, <2>1
      <4> HIDE DEF y
      <4>2. /\ Cardinality(s \ {x}) = Cardinality(s) - 1
            /\ Cardinality(s \ {y}) = Cardinality(s) - 1
        BY <4>1, FS_RemoveElement
      <4> QED
        BY <4>1, <4>2
    <3>2. s \ {x} \in SUBSET D /\ s \ {y} \in SUBSET D
      OBVIOUS
    <3>3. Holds(s \ {x}) /\ Holds(s \ {y})
      BY <3>1, <3>2
    <3>4. (s \ {x}) \ {y} = without /\ (s \ {y}) \ {x} = without
      OBVIOUS
    <3>5. y \in s \ {x} /\ x \in s \ {y}
      BY <2>1, <2>3
    <3>6. iter[s \ {x}] = f[y] + iter[without] /\ iter[s \ {y}] = f[x] + iter[without]
      BY <3>3, <3>4, <3>5
    <3>7. iter[without] \in Int /\ f[x] \in Int /\ f[y] \in Int
      BY <1>1, <2>1
    <3> HIDE DEF y, without
    <3> QED
      BY <2>1, <3>6, <3>7
  <2> QED
    BY <2>2, <2>3
<1>5. T = Nat
  <2>1. T \in SUBSET Nat
    OBVIOUS
  <2> HIDE DEF T
  <2> QED
    BY <1>3, <1>4, <2>1, NumbersByInduction
<1> QED
  BY <1>2, <1>5 DEF AnyFirst

\* A total is the same under other names.
LEMMA TotalRenamed ==
  ASSUME NEW D, IsFiniteSet(D), NEW f, DOMAIN f = D, \A x \in D : f[x] \in Int,
         NEW E, IsFiniteSet(E), NEW g, DOMAIN g = E, \A y \in E : g[y] \in Int,
         NEW name \in [D -> E], \A x, other \in D : name[x] = name[other] => x = other,
         \A y \in E : \E x \in D : name[x] = y, \A x \in D : f[x] = g[name[x]]
  PROVE  TotalOf(f) = TotalOf(g)
<1> DEFINE Image(s) == {name[x] : x \in s}
<1>1. PICK i : IsSum(i, f, D) /\ TotalOf(f) = i[D]
  BY TotalIsIntegerSum
<1>2. PICK j : IsSum(j, g, E) /\ TotalOf(g) = j[E]
  BY TotalIsIntegerSum
<1>3. \A s \in SUBSET E : \A y \in s : j[s] = g[y] + j[s \ {y}]
  <2>1. AnyFirst(j, g, E)
    BY <1>2, SumWithout
  <2> QED
    BY <2>1 DEF AnyFirst
<1> DEFINE F == {s \in SUBSET D : i[s] = j[Image(s)]}
<1>6. {} \in F /\ F \in SUBSET (SUBSET D)
  <2>1. Image({}) = {}
    OBVIOUS
  <2> QED
    BY <1>1, <1>2, <2>1 DEF IsSum
<1>7. ASSUME NEW s \in SUBSET D, s # {}, s \ {First(s)} \in F PROVE s \in F
  <2> DEFINE x == First(s)
  <2>1. x \in s /\ x \in D /\ i[s] = f[x] + i[s \ {x}]
    BY <1>1, <1>7 DEF IsSum
  <2> HIDE DEF x
  <2>2. Image(s) \in SUBSET E /\ name[x] \in Image(s)
    BY <2>1
  <2>3. Image(s \ {x}) = Image(s) \ {name[x]}
    BY <2>1
  <2>4. j[Image(s)] = g[name[x]] + j[Image(s) \ {name[x]}]
    <3> HIDE DEF Image
    <3> QED
      BY <1>3, <2>2
  <2>5. i[s \ {x}] = j[Image(s \ {x})]
    BY <1>7 DEF x
  <2>6. f[x] = g[name[x]]
    BY <2>1
  <2> HIDE DEF Image
  <2>7. i[s \ {x}] = j[Image(s) \ {name[x]}]
    BY <2>3, <2>5
  <2>8. i[s] = j[Image(s)]
    BY <2>1, <2>4, <2>6, <2>7
  <2> QED
    BY <2>8 DEF Image
<1>8. F = SUBSET D
  <2> HIDE DEF F
  <2> QED
    BY <1>6, <1>7, SubsetsByInduction
<1>9. i[D] = j[Image(D)]
  BY <1>8
<1> QED
  BY <1>1, <1>2, <1>9
--------------------------------------------------------------------------------
(* The weights of the policies bound the total, so that scores are not cut off.*)

\* The recursive function by which the library adds up the weights.
Weighing(iter) ==
  iter = [s \in SUBSET Enabled |->
            IF s = {} THEN 0 ELSE First(s).weight + iter[s \ {First(s)}]]

LEMMA WeightsAreTotal ==
  TotalOf([policy \in Enabled |-> policy.weight])
    = MapThenSumSet(LAMBDA policy : policy.weight, Enabled)
<1> DEFINE weights == [policy \in Enabled |-> policy.weight]
           it == CHOOSE iter : Weighing(iter)
<1>1. IsFiniteSet(Enabled) /\ \A policy \in Enabled : weights[policy] \in Int
  <2>1. Enabled \in SUBSET Policies /\ IsFiniteSet(Policies)
    BY PolicySetIsValid DEF Enabled, PolicySetAssumption
  <2>2. \A policy \in Enabled : policy.weight \in Int
    BY <2>1, PolicyBounds
  <2> QED
    BY <2>1, <2>2, FS_Subset
<1>2. PICK i : Summing(i, weights) /\ IsSum(i, weights, Enabled) /\ TotalOf(weights) = i[Enabled]
  BY <1>1, TotalIsIntegerSum
<1>3. ASSUME NEW iter PROVE Summing(iter, weights) <=> Weighing(iter)
  <2>1. \A s \in SUBSET Enabled : s # {} => weights[First(s)] = First(s).weight
    BY DEF First
  <2>2. [s \in SUBSET Enabled |->
           IF s = {} THEN 0 ELSE weights[First(s)] + iter[s \ {First(s)}]]
        = [s \in SUBSET Enabled |->
             IF s = {} THEN 0 ELSE First(s).weight + iter[s \ {First(s)}]]
    <3> HIDE DEF weights
    <3> QED
      BY <2>1
  <2>3. DOMAIN weights = Enabled
    OBVIOUS
  <2> HIDE DEF weights
  <2> QED
    BY <2>2, <2>3 DEF Summing, Weighing
<1>4. Weighing(it)
  BY <1>2, <1>3
<1>5. MapThenSumSet(LAMBDA policy : policy.weight, Enabled) = it[Enabled]
  BY DEF MapThenSumSet, MapThenFoldSet, Weighing, First
<1> HIDE DEF it
<1>6. Summing(it, weights) /\ DOMAIN weights = Enabled
  BY <1>3, <1>4
<1> HIDE DEF weights
<1>7. IsSum(it, weights, Enabled)
  BY <1>1, <1>6, SumsOfIntegers
<1>8. i[Enabled] = it[Enabled]
  BY <1>1, <1>2, <1>7, SumsAgree
<1> QED
  BY <1>2, <1>5, <1>8 DEF weights

\* The total of the weights by id is that of the policies, so at most 100.
LEMMA WeightsBounded ==
  LET ids == {policy.id : policy \in Enabled}
      weights == [id \in ids |-> (CHOOSE policy \in Enabled : policy.id = id).weight]
  IN  TotalOf(weights) <= 100 /\ TotalOf(weights) \in Int
<1> DEFINE ids == {policy.id : policy \in Enabled}
           weights == [id \in ids |-> (CHOOSE policy \in Enabled : policy.id = id).weight]
           byPolicy == [policy \in Enabled |-> policy.weight]
           name == [policy \in Enabled |-> policy.id]
<1>1. Enabled \in SUBSET Policies /\ IsFiniteSet(Policies) /\ IsFiniteSet(ids)
  BY PolicySetIsValid, EnabledById DEF Enabled, PolicySetAssumption
<1>2. IsFiniteSet(Enabled)
  BY <1>1, FS_Subset
<1>3. \A a, b \in Enabled : a.id = b.id => a = b
  BY <1>1, PolicySetIsValid DEF PolicySetAssumption
<1>4. \A policy \in Enabled : policy.weight \in Int
  BY <1>1, PolicyBounds
<1>5. \A policy \in Enabled : byPolicy[policy] \in Int
  BY <1>4
<1>6. \A id \in ids : weights[id] \in Int
  BY <1>4
<1>7. name \in [Enabled -> ids] /\ \A a, b \in Enabled : name[a] = name[b] => a = b
  BY <1>3
<1>8. \A id \in ids : \E policy \in Enabled : name[policy] = id
  OBVIOUS
<1>9. \A policy \in Enabled : byPolicy[policy] = weights[name[policy]]
  <2> TAKE policy \in Enabled
  <2>1. (CHOOSE other \in Enabled : other.id = policy.id) = policy
    BY <1>3
  <2> QED
    BY <2>1
<1>10. DOMAIN byPolicy = Enabled /\ DOMAIN weights = ids
  OBVIOUS
<1> HIDE DEF byPolicy, weights, ids, name
<1>11. TotalOf(byPolicy) = TotalOf(weights)
  BY <1>1, <1>2, <1>5, <1>6, <1>7, <1>8, <1>9, <1>10, TotalRenamed
<1>12. TotalOf(byPolicy) <= 100
  BY WeightsAreTotal, PolicySetIsValid DEF PolicySetAssumption, byPolicy
<1>13. TotalOf(weights) \in Int
  BY <1>1, <1>6, <1>10, TotalIsIntegerSum DEF IsSum
<1> QED
  BY <1>11, <1>12, <1>13 DEF weights, ids

\* Contributions do not add up to more than 100.
LEMMA TotalBounded ==
  ASSUME NEW findings, IsFiniteSet(findings), \A f \in findings : f.signal \in 0..Scale
  PROVE  /\ TotalOf(Contributions(findings)) \in Nat
         /\ TotalOf(Contributions(findings)) <= FullTotal
<1> DEFINE ids == {policy.id : policy \in Enabled}
           weights == [id \in ids |-> (CHOOSE policy \in Enabled : policy.id = id).weight]
           contributions == Contributions(findings)
<1>1. DOMAIN contributions = ids /\ DOMAIN weights = ids /\ IsFiniteSet(ids)
  BY EnabledById DEF Contributions
<1>2. \A id \in ids : contributions[id] \in Nat
  <2>1. \A id \in DOMAIN contributions : contributions[id] \in 0..FullTotal
    BY ContributionsBounded
  <2> HIDE DEF contributions
  <2> QED
    BY <1>1, <2>1, Literals, IntervalNumbers, Zenon
<1>3. ASSUME NEW id \in ids
      PROVE  weights[id] \in Int /\ contributions[id] <= 100 * weights[id]
  <2> DEFINE policy == CHOOSE policy \in Enabled : policy.id = id
             signal == Signal(policy, OfPolicy(policy, findings))
  <2>1. policy \in Policies
    BY EnabledById
  <2>2. contributions[id] = Round(100 * policy.weight * signal, Scale)
    BY DEF Contributions
  <2>3. weights[id] = policy.weight
    OBVIOUS
  <2>4. signal \in 0..Scale
    <3>1. IsFiniteSet(OfPolicy(policy, findings))
      BY FS_Subset DEF OfPolicy
    <3>2. \A f \in OfPolicy(policy, findings) : f.signal \in 0..Scale
      BY DEF OfPolicy
    <3> HIDE DEF policy
    <3> QED
      BY <2>1, <3>1, <3>2, SignalBounded
  <2> HIDE DEF contributions, policy, signal
  <2>5. policy.weight \in 0..100
    BY <2>1, PolicyBounds
  <2> DEFINE weight == 100 * policy.weight
  <2>6. weight \in Nat /\ policy.weight \in Int
    BY <2>5
  <2>7. signal \in Nat /\ signal <= Scale
    BY <2>4, IntervalNumbers, Literals, Zenon
  <2> HIDE DEF weight
  <2> DEFINE product == weight * signal
  <2>8. product \in Nat /\ product <= weight * Scale
    <3>1. weight <= weight
      BY <2>6
    <3> QED
      BY <2>6, <2>7, <3>1, Literals, ProductBounded, Zenon
  <2> HIDE DEF product
  <2>9. Round(product, Scale) \in 0..weight
    BY <2>6, <2>8, Literals, RoundBounded, Zenon
  <2>10. Round(product, Scale) <= weight
    BY <2>6, <2>9, IntervalNumbers, Zenon
  <2>11. contributions[id] = Round(product, Scale)
    BY <2>2 DEF product, weight
  <2>12. contributions[id] <= 100 * policy.weight
    BY <2>10, <2>11 DEF weight
  <2> QED
    BY <2>3, <2>6, <2>12
<1>4. TotalOf(weights) <= 100 /\ TotalOf(weights) \in Int
  BY WeightsBounded
<1> HIDE DEF contributions, weights, ids
<1>5. TotalOf(contributions) <= 100 * TotalOf(weights)
  <2>1. \A id \in ids : contributions[id] \in Int
    BY <1>2
  <2> QED
    BY <1>1, <1>3, <2>1, TotalIsMonotonic
<1>6. TotalOf(contributions) \in Nat
  BY <1>1, <1>2, TotalOfNumbers
<1>7. TotalOf(contributions) <= FullTotal
  BY <1>4, <1>5, <1>6 DEF FullTotal
<1> QED
  BY <1>6, <1>7 DEF contributions

\* Rounding to tenths is off by half a tenth at most.
LEMMA TenthsAreClose == \A n \in Nat : 10 * Round(n, 10) - n \in (-5)..5
  BY DEF Round

--------------------------------------------------------------------------------
(* The changes of the factors.                                                 *)

\* The contribution in a single snapshot.
LEMMA ContributionInOne ==
  ASSUME NEW row, NEW policy, row.result.contributions[policy] \in Int
  PROVE  ContributionIn({row}, policy) = row.result.contributions[policy]
<1> DEFINE of == [r \in {row} |-> r.result.contributions[policy]]
           Adding(iter) ==
             iter = [s \in SUBSET {row} |->
                       IF s = {} THEN 0
                       ELSE First(s).result.contributions[policy] + iter[s \ {First(s)}]]
           it == CHOOSE iter : Adding(iter)
<1>1. IsFiniteSet({row}) /\ DOMAIN of = {row} /\ \A r \in {row} : of[r] \in Int
  BY FS_Singleton
<1>2. PICK i : Summing(i, of) /\ IsSum(i, of, {row})
  <2> HIDE DEF of
  <2> QED
    BY <1>1, TotalIsIntegerSum
<1>3. ASSUME NEW iter PROVE Summing(iter, of) => Adding(iter)
  <2>1. \A s \in SUBSET {row} : s # {} => of[First(s)] = First(s).result.contributions[policy]
    BY DEF First
  <2>2. [s \in SUBSET {row} |->
           IF s = {} THEN 0 ELSE of[First(s)] + iter[s \ {First(s)}]]
        = [s \in SUBSET {row} |->
             IF s = {} THEN 0
             ELSE First(s).result.contributions[policy] + iter[s \ {First(s)}]]
    <3> HIDE DEF of
    <3> QED
      BY <2>1
  <2> HIDE DEF of
  <2> QED
    BY <1>1, <2>2 DEF Summing
<1>4. Adding(it)
  <2>1. \E iter : Adding(iter)
    BY <1>2, <1>3
  <2> HIDE DEF Adding
  <2> QED
    BY <2>1
<1>5. ContributionIn({row}, policy) = it[{row}]
  BY DEF ContributionIn, MapThenSumSet, MapThenFoldSet, First
<1> HIDE DEF it
<1>6. First({row}) = row
  BY DEF First
<1>7. it[{}] = 0 /\ it[{row}] = row.result.contributions[policy] + it[{}]
  <2>1. {row} # {} /\ {row} \ {row} = {} /\ {} \in SUBSET {row} /\ {row} \in SUBSET {row}
    OBVIOUS
  <2> QED
    BY <1>4, <1>6, <2>1
<1> QED
  BY <1>5, <1>7

\* An assessment has a contribution of each policy and their rounded total as score.
LEMMA ScoreOfAssessment ==
  ASSUME NEW d, AreTables(d), NEW sprint, NEW reference \in Nat
  PROVE  LET result == Assessment(d, sprint, reference)
         IN  /\ DOMAIN result.contributions = {policy.id : policy \in Enabled}
             /\ \A id \in DOMAIN result.contributions : result.contributions[id] \in Int
             /\ TotalOf(result.contributions) \in Nat
             /\ result.score = Round(TotalOf(result.contributions), 10)
<1> DEFINE c == Context(d, sprint, reference)
           findings == EvaluateRules(c)
           result == Assessment(d, sprint, reference)
           contributions == Contributions(findings)
<1>1. IsFiniteSet(findings) /\ \A f \in findings : f.signal \in 0..Scale
  <2>1. IsContext(c)
    BY ContextOfTables
  <2> HIDE DEF c
  <2> QED
    BY <2>1, FindingsSound
<1>2. result.contributions = contributions /\ result.score = Score(contributions)
  BY DEF Assessment
<1> HIDE DEF result, findings
<1>3. TotalOf(contributions) \in Nat /\ TotalOf(contributions) <= FullTotal
  BY <1>1, TotalBounded
<1>4. /\ DOMAIN contributions = {policy.id : policy \in Enabled}
      /\ \A id \in DOMAIN contributions : contributions[id] \in 0..FullTotal
  BY <1>1, ContributionsBounded
<1> HIDE DEF contributions
<1>5. \A id \in DOMAIN contributions : contributions[id] \in Int
  BY <1>4, Literals, IntervalNumbers, Zenon
<1>6. Score(contributions) = Round(TotalOf(contributions), 10)
  <2>1. ~(TotalOf(contributions) > 10000)
    BY <1>3 DEF FullTotal
  <2> QED
    BY <2>1 DEF Score
<1> QED
  BY <1>2, <1>3, <1>4, <1>5, <1>6 DEF result

\* The changes of the factors explain the change of the score, but for a tenth of a
\* point: whatever the policies, for the weights of a valid set are at most 100, so
\* that no score is cut off.
THEOREM DeltasExplainScoresHolds == ProjectSpec => []DeltasExplainScores
<1>1. ProjectInv => DeltasExplainScores
  <2> SUFFICES ASSUME ProjectInv, NEW row \in snapshots, NEW other \in snapshots
               PROVE  LET comparison == CompareSnapshots(row, {other}, snapshots)
                          explained ==
                            MapThenSumSet(LAMBDA policy : comparison.changes[policy],
                                          DOMAIN comparison.changes)
                      IN  \A delta \in comparison.delta : explained - 10 * delta \in (-10)..10
    BY DEF DeltasExplainScores
  <2> DEFINE comparison == CompareSnapshots(row, {other}, snapshots)
             changes == FactorDeltas(row, {other})
             a == row.result.contributions
             b == other.result.contributions
             ids == {policy.id : policy \in Enabled}
  <2>1. comparison.changes = changes /\ comparison.delta = {row.result.score - other.result.score}
    BY DEF CompareSnapshots, ComparedWith, ScoreDelta
  <2>2. MapThenSumSet(LAMBDA policy : comparison.changes[policy], DOMAIN comparison.changes)
          = TotalOf(comparison.changes)
    BY DEF TotalOf
  <2>3. ASSUME NEW r \in snapshots
        PROVE  /\ DOMAIN r.result.contributions = ids
               /\ \A id \in ids : r.result.contributions[id] \in Int
               /\ TotalOf(r.result.contributions) \in Nat
               /\ r.result.score = Round(TotalOf(r.result.contributions), 10)
    <3>1. r.result.reference \in Nat
      BY DEF ProjectInv, AnalysisInv, RowsAreCounted
    <3>2. PICK seen \in Readings :
            r.result = Assessment(TablesRead(seen), r.result.sprint, r.result.reference)
      BY DEF ProjectInv, AnalysisInv, SnapshotsAreOfReadings
    <3> DEFINE result == Assessment(TablesRead(seen), r.result.sprint, r.result.reference)
    <3>3. /\ DOMAIN result.contributions = ids
          /\ \A id \in DOMAIN result.contributions : result.contributions[id] \in Int
          /\ TotalOf(result.contributions) \in Nat
          /\ result.score = Round(TotalOf(result.contributions), 10)
      BY <3>1, ReadingsAreTables, ScoreOfAssessment
    <3> HIDE DEF result
    <3>4. r.result = result
      BY <3>2 DEF result
    <3> QED
      BY <3>3, <3>4
  <2>4. /\ DOMAIN a = ids /\ DOMAIN b = ids
        /\ \A id \in ids : a[id] \in Int /\ b[id] \in Int
        /\ TotalOf(a) \in Nat /\ TotalOf(b) \in Nat
        /\ row.result.score = Round(TotalOf(a), 10)
        /\ other.result.score = Round(TotalOf(b), 10)
    BY <2>3
  <2>5. DOMAIN changes = ids /\ \A id \in ids : changes[id] = a[id] - b[id]
    <3>1. \A id \in ids : ContributionIn({row}, id) = a[id] /\ ContributionIn({other}, id) = b[id]
      BY <2>4, ContributionInOne
    <3>2. DOMAIN changes = DOMAIN a
      BY DEF FactorDeltas
    <3> QED
      BY <2>4, <3>1, <3>2 DEF FactorDeltas
  <2>6. IsFiniteSet(ids)
    BY EnabledById
  <2> HIDE DEF changes, a, b, ids
  <2>7. TotalOf(changes) = TotalOf(a) - TotalOf(b)
    BY <2>4, <2>5, <2>6, TotalOfDifferences
  <2>8. /\ 10 * Round(TotalOf(a), 10) - TotalOf(a) \in (-5)..5
        /\ 10 * Round(TotalOf(b), 10) - TotalOf(b) \in (-5)..5
    BY <2>4, TenthsAreClose
  <2>9. Round(TotalOf(a), 10) \in Int /\ Round(TotalOf(b), 10) \in Int
    <3>1. \A n \in Nat : Round(n, 10) \in Int
      BY DEF Round
    <3> QED
      BY <2>4, <3>1
  <2>10. TotalOf(changes) - 10 * (row.result.score - other.result.score) \in (-10)..10
    <3> DEFINE s == TotalOf(a)
               t == TotalOf(b)
               v == Round(s, 10)
               w == Round(t, 10)
    <3>1. /\ s \in Nat /\ t \in Nat /\ v \in Int /\ w \in Int
          /\ 10 * v - s \in (-5)..5 /\ 10 * w - t \in (-5)..5
      BY <2>4, <2>8, <2>9
    <3>2. TotalOf(changes) - 10 * (row.result.score - other.result.score) = (s - t) - 10 * (v - w)
      BY <2>4, <2>7
    <3> HIDE DEF s, t, v, w
    <3>3. (s - t) - 10 * (v - w) \in (-10)..10
      BY <3>1
    <3> QED
      BY <3>2, <3>3
  <2>11. \A delta \in comparison.delta :
           TotalOf(comparison.changes) - 10 * delta \in (-10)..10
    BY <2>1, <2>10
  <2> QED
    BY <2>2, <2>11
<1> QED
  BY <1>1, ProjectInvariant, PTL
--------------------------------------------------------------------------------
(* What the overview shows of a snapshot.                                      *)

\* The policies the overview is compared with ask for what their names say, as those
\* of qa-rules-v1.0 do.
PoliciesAreAsNamed ==
  \A policy \in Policies :
    /\ policy.id = "QA-BLOCKED-LONG" => policy.condition.metric = "blocked_hours"
    /\ policy.id = "QA-TICKET-OVERDUE" =>
         /\ policy.condition.metric = "overdue_days"
         /\ policy.condition.operator = "greater_than" /\ policy.condition.values = {0}
    /\ policy.id = "QA-PIPELINE-FAILED" =>
         policy.condition.metric = "consecutive_failed_builds"

\* A finding is of a fact its policy asks for.
LEMMA FindingsAreOfFacts ==
  ASSUME NEW c, NEW f \in EvaluateRules(c)
  PROVE  \E policy \in Policies, fact \in CollectFacts(c) :
           /\ f.policy = policy.id /\ f.source = fact.source /\ f.value = fact.value
           /\ f.type = fact.type /\ fact.metric = policy.condition.metric
           /\ Compares(fact.value, policy.condition)
<1>1. PICK policy \in Policies : f \in EvaluatePolicy(policy, CollectFacts(c))
  BY DEF EvaluateRules
<1>2. PICK fact \in CollectFacts(c) :
        /\ f = Finding(policy, fact)
        /\ fact.metric = policy.condition.metric /\ Compares(fact.value, policy.condition)
  BY <1>1 DEF EvaluatePolicy
<1>3. /\ f.policy = policy.id /\ f.source = fact.source /\ f.value = fact.value
      /\ f.type = fact.type
  BY <1>2 DEF Finding
<1> QED
  BY <1>2, <1>3

\* A fact of a metric is of the kind that has it.
LEMMA FactsOfMetric ==
  ASSUME NEW c, NEW fact \in CollectFacts(c)
  PROVE  /\ fact.metric = "blocked_hours" => fact \in BlockedFacts(c)
         /\ fact.metric = "overdue_days" => fact \in OverdueFacts(c)
         /\ fact.metric = "consecutive_failed_builds" => fact \in BuildFacts(c)
  BY MetricsOfFacts DEF CollectFacts, TicketFacts

\* The fact on the builds of a sprint counts some of the failed builds of the scope.
LEMMA StreakIsOfFailures ==
  ASSUME NEW c, IsContext(c), NEW fact \in BuildFacts(c)
  PROVE  fact.value <= Cardinality({b \in c.builds : b.status = "failed"})
<1> DEFINE OfSprint(b) == {other \in VisibleBuilds(c) : other.sprint = b.sprint}
           rows == {b \in VisibleBuilds(c) : IsLatestBuild(b, OfSprint(b))}
           facts == [b \in rows |-> Fact("consecutive_failed_builds", FailureStreak(OfSprint(b)),
                                         "build", b, b.started, {})]
           failed == {b \in c.builds : b.status = "failed"}
<1>1. BuildFacts(c) = {facts[b] : b \in rows}
  BY DEF BuildFacts
<1>2. \A b \in rows : facts[b].value = FailureStreak(OfSprint(b))
  <2> HIDE DEF OfSprint
  <2> QED
    BY DEF Fact
<1>3. IsFiniteSet(failed)
  BY FS_Subset DEF IsContext
<1>4. ASSUME NEW builds, builds \in SUBSET c.builds
      PROVE  FailureStreak(builds) <= Cardinality(failed)
  <2> DEFINE streak == {b \in builds : \A other \in builds :
                          other = b \/ StartedAfter(other, b) => other.status = "failed"}
  <2>1. streak \in SUBSET failed
    BY <1>4
  <2>2. FailureStreak(builds) = Cardinality(streak)
    BY DEF FailureStreak
  <2> HIDE DEF streak, failed
  <2> QED
    BY <1>3, <2>1, <2>2, FS_Subset
<1>5. \A b \in rows : OfSprint(b) \in SUBSET c.builds
  BY DEF VisibleBuilds
<1> HIDE DEF OfSprint, rows, facts, failed
<1>6. \A b \in rows : facts[b].value <= Cardinality(failed)
  BY <1>2, <1>4, <1>5
<1> QED
  BY <1>1, <1>6 DEF failed

Coverages(d, sprint) == {m \in InScope(d.metrics, sprint) : m.name = "test_coverage"}

\* The blocked and overdue tickets of the findings are those of the overview, which
\* counts at least the failures of a finding on builds.
LEMMA FindingsAreShown ==
  ASSUME PoliciesAreAsNamed, NEW p \in Payloads, NEW sprint, NEW reference \in Nat,
         NEW f \in EvaluateRules(Context(Datasets[p], sprint, reference))
  PROVE  LET overview == ProjectOverview(Datasets[p], sprint, reference)
         IN  /\ f.policy = "QA-BLOCKED-LONG" => f.source \in overview.blockedTickets
             /\ f.policy = "QA-TICKET-OVERDUE" => f.source \in overview.overdueTickets
             /\ f.policy = "QA-PIPELINE-FAILED" => f.value <= overview.failedBuilds
<1> DEFINE d == Datasets[p]
           c == Context(d, sprint, reference)
           overview == ProjectOverview(d, sprint, reference)
<1>1. PICK policy \in Policies, fact \in CollectFacts(c) :
        /\ f.policy = policy.id /\ f.source = fact.source /\ f.value = fact.value
        /\ fact.metric = policy.condition.metric
        /\ Compares(fact.value, policy.condition)
  BY FindingsAreOfFacts
<1>2. /\ c.tickets = InScope(d.tickets, sprint) /\ c.builds = InScope(d.builds, sprint)
      /\ c.reference = reference /\ IsContext(c)
  BY ContextOfPayload DEF Context
<1>3. /\ overview.blockedTickets = IdsOf({t \in c.tickets : t.status = "blocked"})
      /\ overview.overdueTickets =
           IdsOf({t \in c.tickets : t.status # "done" /\ t.due # Null /\ t.due < reference})
      /\ overview.failedBuilds = Cardinality({b \in c.builds : b.status = "failed"})
  <2> HIDE DEF c, d
  <2>1. {t \in c.tickets \ {t \in c.tickets : t.status = "done"} : t.due # Null /\ t.due < reference}
          = {t \in c.tickets : t.status # "done" /\ t.due # Null /\ t.due < reference}
    OBVIOUS
  <2> QED
    BY <1>2, <2>1 DEF ProjectOverview
<1> HIDE DEF c, overview
<1>4. ASSUME f.policy = "QA-BLOCKED-LONG"
      PROVE  f.source \in overview.blockedTickets
  <2>1. fact \in BlockedFacts(c)
    BY <1>1, <1>4, FactsOfMetric DEF PoliciesAreAsNamed
  <2>2. PICK t \in c.tickets : t.status = "blocked" /\ fact.source = t.id
    BY <2>1 DEF BlockedFacts, VisibleTickets, Fact
  <2> QED
    BY <1>1, <1>3, <2>2 DEF IdsOf
<1>5. ASSUME f.policy = "QA-TICKET-OVERDUE"
      PROVE  f.source \in overview.overdueTickets
  <2>1. fact \in OverdueFacts(c) /\ fact.value > 0
    <3>1. fact.metric = "overdue_days"
      BY <1>1, <1>5 DEF PoliciesAreAsNamed
    <3>2. policy.condition.operator = "greater_than" /\ policy.condition.values = {0}
      BY <1>1, <1>5 DEF PoliciesAreAsNamed
    <3>3. fact.value > 0
      BY <1>1, <3>2 DEF Compares
    <3> QED
      BY <3>1, <3>3, FactsOfMetric
  <2>2. PICK t \in c.tickets : /\ t.status # "done" /\ t.due # Null
                               /\ fact.source = t.id /\ fact.value = c.reference - t.due
    BY <2>1 DEF OverdueFacts, VisibleTickets, Fact
  <2>3. t.due < reference
    <3>1. t.due \in Nat
      BY <1>2 DEF IsContext, Tickets
    <3> QED
      BY <1>2, <2>1, <2>2, <3>1
  <2>4. t \in {x \in c.tickets : x.status # "done" /\ x.due # Null /\ x.due < reference}
    BY <2>2, <2>3
  <2> QED
    BY <1>1, <1>3, <2>2, <2>4 DEF IdsOf
<1>6. ASSUME f.policy = "QA-PIPELINE-FAILED"
      PROVE  f.value <= overview.failedBuilds
  <2>1. fact \in BuildFacts(c)
    BY <1>1, <1>6, FactsOfMetric DEF PoliciesAreAsNamed
  <2> QED
    BY <1>1, <1>2, <1>3, <2>1, StreakIsOfFailures
<1> QED
  BY <1>4, <1>5, <1>6 DEF c, overview

\* The overview as of the date of a snapshot shows what its findings are about, and,
\* when no two coverages are simultaneous and none is later, the coverage its advice
\* is based on: for all payloads, and policies that ask for what their names say.
THEOREM OverviewCoversSnapshotsHolds ==
  ASSUME PoliciesAreAsNamed
  PROVE  ProjectSpec => []OverviewCoversSnapshots
<1>1. ProjectInv => OverviewCoversSnapshots
  <2> SUFFICES ASSUME ProjectInv, NEW row \in Current
               PROVE  LET d == Datasets[data]
                          s == row.result
                          overview == ProjectOverview(d, s.sprint, s.reference)
                          Sources(policy) ==
                            {f.source : f \in {f \in s.findings : f.policy = policy}}
                          coverages == {m \in InScope(d.metrics, s.sprint) :
                                          m.name = "test_coverage"}
                      IN  /\ Sources("QA-BLOCKED-LONG") \subseteq overview.blockedTickets
                          /\ Sources("QA-TICKET-OVERDUE") \subseteq overview.overdueTickets
                          /\ \A f \in s.findings :
                               f.policy = "QA-PIPELINE-FAILED" => f.value <= overview.failedBuilds
                          /\ (\A m, other \in coverages :
                                 m.measured = other.measured => m = other)
                               /\ (\A m \in coverages : Day(m.measured) <= s.reference)
                               => overview.testCoverage = TestCoverage(d, s)
    BY DEF OverviewCoversSnapshots
  <2> DEFINE d == Datasets[data]
             s == row.result
             sprint == s.sprint
             reference == s.reference
             overview == ProjectOverview(d, sprint, reference)
             coverages == Coverages(d, sprint)
  <2>1. data \in Payloads /\ reference \in Nat /\ s = Assessment(d, sprint, reference)
    BY CurrentIsOfTheData
  <2>2. s.findings = EvaluateRules(Context(d, sprint, reference))
    <3> HIDE DEF sprint, reference, s
    <3> QED
      BY <2>1 DEF Assessment
  <2>3. \A f \in s.findings :
          /\ f.policy = "QA-BLOCKED-LONG" => f.source \in overview.blockedTickets
          /\ f.policy = "QA-TICKET-OVERDUE" => f.source \in overview.overdueTickets
          /\ f.policy = "QA-PIPELINE-FAILED" => f.value <= overview.failedBuilds
    <3> HIDE DEF sprint, reference, s
    <3> QED
      BY <2>1, <2>2, FindingsAreShown
  <2>4. ASSUME \A m, other \in coverages : m.measured = other.measured => m = other,
               \A m \in coverages : Day(m.measured) <= reference
        PROVE  overview.testCoverage = TestCoverage(d, s)
    <3>1. \A m \in coverages : m.measured \in Nat /\ m.id \in Nat
      <4>1. coverages \subseteq d.metrics
        BY DEF Coverages, InScope
      <4> QED
        BY <2>1, <4>1, TablesAreFinite DEF Metrics, Moments, Keys
    <3>2. {m \in InScope(d.metrics, sprint) :
             m.name = "test_coverage" /\ Day(m.measured) <= reference} = coverages
      BY <2>4 DEF Coverages
    <3>3. overview.testCoverage =
            {m.value : m \in {m \in coverages : \A other \in coverages :
               other.measured < m.measured
                 \/ (other.measured = m.measured /\ other.id >= m.id)}}
      <4> HIDE DEF d, sprint, reference
      <4> QED
        BY DEF ProjectOverview, Coverages
    <3>4. TestCoverage(d, s) =
            {m.value : m \in {m \in coverages : \A other \in coverages :
               ~(other.measured > m.measured
                   \/ (other.measured = m.measured /\ other.id > m.id))}}
      BY <3>2 DEF TestCoverage
    <3> HIDE DEF coverages, overview
    <3>5. {m \in coverages : \A other \in coverages :
             other.measured < m.measured
               \/ (other.measured = m.measured /\ other.id >= m.id)}
            = {m \in coverages : \A other \in coverages :
                 ~(other.measured > m.measured
                     \/ (other.measured = m.measured /\ other.id > m.id))}
      BY <2>4, <3>1
    <3> QED
      BY <3>3, <3>4, <3>5
  <2> QED
    BY <2>3, <2>4 DEF Coverages
<1> QED
  BY <1>1, ProjectInvariant, PTL
--------------------------------------------------------------------------------
(* The evidence of a risk, part by part.                                       *)

LEMMA TogetherIsUnion ==
  ASSUME NEW parts
  PROVE  /\ \A node : node \in Together(parts).nodes <=> \E q \in parts : node \in q.nodes
         /\ \A edge : edge \in Together(parts).edges <=> \E q \in parts : edge \in q.edges
         /\ \A link : link \in Together(parts).missing <=> \E q \in parts : link \in q.missing
  BY DEF Together, Part

\* The rows a build leads to.
PullRequestsOf(b, d) == RowsWithId(d.pullRequests, b.pullRequest)
CommitsOf(b, d) == {c \in d.commits : c.sha = b.sha}
ResultsOf(b, d) == {r \in d.testResults : r.build = b.id}

LEMMA LinkOfPullRequests ==
  ASSUME NEW b, NEW d
  PROVE  LET q == PullRequestOfBuild(b, d)
         IN  /\ \A node : node \in q.nodes <=>
                  \E p \in PullRequestsOf(b, d) :
                    \/ node = PullRequestNode(p)
                    \/ \E t \in RowsWithId(d.tickets, p.ticket) : node = TicketNode(t)
             /\ \A edge : edge \in q.edges <=>
                  \E p \in PullRequestsOf(b, d) :
                    \/ edge = <<PullRequestNode(p), BuildNode(b)>>
                    \/ \E t \in RowsWithId(d.tickets, p.ticket) :
                         edge = <<TicketNode(t), PullRequestNode(p)>>
             /\ \A link : link \in q.missing =>
                  \/ PullRequestsOf(b, d) = {}
                  \/ \E p \in PullRequestsOf(b, d) : RowsWithId(d.tickets, p.ticket) = {}
<1> DEFINE P == PullRequestsOf(b, d)
           T(p) == RowsWithId(d.tickets, p.ticket)
           own(p) == Part({PullRequestNode(p)}, {<<PullRequestNode(p), BuildNode(b)>>}, {})
           parts == {own(p) : p \in P} \cup {TicketOfPullRequest(p, d) : p \in P}
           q == PullRequestOfBuild(b, d)
<1>1. \A p : /\ own(p).nodes = {PullRequestNode(p)}
             /\ own(p).edges = {<<PullRequestNode(p), BuildNode(b)>>}
             /\ own(p).missing = {}
  BY DEF Part
<1>2. \A p : /\ \A node : node \in TicketOfPullRequest(p, d).nodes <=>
                   \E t \in T(p) : node = TicketNode(t)
             /\ \A edge : edge \in TicketOfPullRequest(p, d).edges <=>
                   \E t \in T(p) : edge = <<TicketNode(t), PullRequestNode(p)>>
             /\ TicketOfPullRequest(p, d).missing # {} => T(p) = {}
  <2> HIDE DEF T
  <2> QED
    BY DEF TicketOfPullRequest, Part, Nothing, T
<1>3. CASE P = {}
  <2>1. q.nodes = {} /\ q.edges = {}
    BY <1>3 DEF PullRequestOfBuild, PullRequestsOf, Nothing, Part
  <2> QED
    BY <1>3, <2>1
<1>4. CASE P # {}
  <2>1. q = Together(parts)
    BY <1>4 DEF PullRequestOfBuild, PullRequestsOf
  <2>2. \A part : part \in parts <=> \E p \in P : part = own(p) \/ part = TicketOfPullRequest(p, d)
    OBVIOUS
  <2> HIDE DEF parts, own, T, P, q
  <2>3. \A node : node \in q.nodes <=>
          \E p \in P : node = PullRequestNode(p) \/ \E t \in T(p) : node = TicketNode(t)
    <3>1. \A node : node \in q.nodes <=>
            \E p \in P : node \in own(p).nodes \/ node \in TicketOfPullRequest(p, d).nodes
      BY <2>1, <2>2, TogetherIsUnion
    <3> QED
      BY <1>1, <1>2, <3>1
  <2>4. \A edge : edge \in q.edges <=>
          \E p \in P : \/ edge = <<PullRequestNode(p), BuildNode(b)>>
                      \/ \E t \in T(p) : edge = <<TicketNode(t), PullRequestNode(p)>>
    BY <1>1, <1>2, <2>1, <2>2, TogetherIsUnion
  <2>5. \A link : link \in q.missing => \E p \in P : T(p) = {}
    BY <1>1, <1>2, <2>1, <2>2, TogetherIsUnion
  <2> QED
    BY <2>3, <2>4, <2>5 DEF P, T, q
<1> QED
  BY <1>3, <1>4

LEMMA LinkOfCommits ==
  ASSUME NEW b, NEW d
  PROVE  LET q == CommitOfBuild(b, d)
         IN  /\ \A node : node \in q.nodes <=> \E c \in CommitsOf(b, d) : node = CommitNode(c)
             /\ \A edge : edge \in q.edges <=>
                  \E c \in CommitsOf(b, d) :
                    \/ edge = <<CommitNode(c), BuildNode(b)>>
                    \/ \E p \in PullRequestsOf(b, d) :
                         edge = <<PullRequestNode(p), CommitNode(c)>>
             /\ q.missing # {} => CommitsOf(b, d) = {}
  BY DEF CommitOfBuild, CommitsOf, PullRequestsOf, Nothing, Part

LEMMA LinkOfResults ==
  ASSUME NEW b, NEW d
  PROVE  LET q == TestsOfBuild(b, d)
         IN  /\ \A node : node \in q.nodes <=> \E r \in ResultsOf(b, d) : node = TestNode(r)
             /\ \A edge : edge \in q.edges <=>
                  \E r \in ResultsOf(b, d) : edge = <<BuildNode(b), TestNode(r)>>
             /\ \A link \in q.missing :
                  link.relation = "build_to_test_result" /\ ResultsOf(b, d) = {}
  BY DEF TestsOfBuild, ResultsOf, Nothing, Part, MissingLink

\* A part whose links lead from one of its nodes, or those around it, to another, and
\* in which everything hangs together with the root.
Hangs(q, root) ==
  /\ root \in q.nodes
  /\ \A edge \in q.edges : \E one, other \in q.nodes : edge = <<one, other>>
  /\ \A group : root \in group /\ (\A edge \in q.edges : edge[1] \in group <=> edge[2] \in group)
               => q.nodes \subseteq group

LEMMA LinkBuildHangs ==
  ASSUME NEW b, NEW d
  PROVE  /\ Hangs(LinkBuild(b, d), BuildNode(b))
         /\ \A p \in PullRequestsOf(b, d) :
              <<PullRequestNode(p), BuildNode(b)>> \in LinkBuild(b, d).edges
         /\ \A link \in LinkBuild(b, d).missing :
              \/ PullRequestsOf(b, d) = {} \/ CommitsOf(b, d) = {}
              \/ \E p \in PullRequestsOf(b, d) : RowsWithId(d.tickets, p.ticket) = {}
              \/ link.relation = "build_to_test_result" /\ ResultsOf(b, d) = {}
<1> DEFINE own == Part({BuildNode(b)}, {}, {})
           one == PullRequestOfBuild(b, d)
           two == CommitOfBuild(b, d)
           three == TestsOfBuild(b, d)
           q == LinkBuild(b, d)
           P == PullRequestsOf(b, d)
           C == CommitsOf(b, d)
           R == ResultsOf(b, d)
           T(p) == RowsWithId(d.tickets, p.ticket)
<1>1. /\ \A node : node \in q.nodes <=> \/ node = BuildNode(b) \/ node \in one.nodes
                                       \/ node \in two.nodes \/ node \in three.nodes
      /\ \A edge : edge \in q.edges <=> \/ edge \in one.edges \/ edge \in two.edges
                                       \/ edge \in three.edges
      /\ \A link : link \in q.missing <=> \/ link \in one.missing \/ link \in two.missing
                                         \/ link \in three.missing
  <2>1. own.nodes = {BuildNode(b)} /\ own.edges = {} /\ own.missing = {}
    BY DEF Part
  <2>2. q = Together({own, one, two, three})
    BY DEF LinkBuild
  <2> HIDE DEF own, one, two, three, q
  <2> QED
    BY <2>1, <2>2, TogetherIsUnion
<1>2. /\ \A node : node \in one.nodes <=>
           \E p \in P : node = PullRequestNode(p) \/ \E t \in T(p) : node = TicketNode(t)
      /\ \A edge : edge \in one.edges <=>
           \E p \in P : \/ edge = <<PullRequestNode(p), BuildNode(b)>>
                       \/ \E t \in T(p) : edge = <<TicketNode(t), PullRequestNode(p)>>
      /\ \A link : link \in one.missing => P = {} \/ \E p \in P : T(p) = {}
  BY LinkOfPullRequests
<1>3. /\ \A node : node \in two.nodes <=> \E c \in C : node = CommitNode(c)
      /\ \A edge : edge \in two.edges <=>
           \E c \in C : \/ edge = <<CommitNode(c), BuildNode(b)>>
                       \/ \E p \in P : edge = <<PullRequestNode(p), CommitNode(c)>>
      /\ two.missing # {} => C = {}
  BY LinkOfCommits
<1>4. /\ \A node : node \in three.nodes <=> \E r \in R : node = TestNode(r)
      /\ \A edge : edge \in three.edges <=> \E r \in R : edge = <<BuildNode(b), TestNode(r)>>
      /\ \A link \in three.missing : link.relation = "build_to_test_result" /\ R = {}
  BY LinkOfResults
<1> HIDE DEF own, one, two, three, q, P, C, R, T
<1>5. BuildNode(b) \in q.nodes
  BY <1>1
<1>6. \A edge \in q.edges : \E x, y \in q.nodes : edge = <<x, y>>
  <2>1. \A edge \in one.edges : \E x, y \in q.nodes : edge = <<x, y>>
    BY <1>1, <1>2
  <2>2. \A edge \in two.edges : \E x, y \in q.nodes : edge = <<x, y>>
    BY <1>1, <1>2, <1>3
  <2>3. \A edge \in three.edges : \E x, y \in q.nodes : edge = <<x, y>>
    BY <1>1, <1>4
  <2> QED
    BY <1>1, <2>1, <2>2, <2>3
<1>7. ASSUME NEW group, BuildNode(b) \in group,
             \A edge \in q.edges : edge[1] \in group <=> edge[2] \in group
      PROVE  q.nodes \subseteq group
  <2>1. \A x, y : <<x, y>> \in q.edges => (x \in group <=> y \in group)
    BY <1>7
  <2>2. \A p \in P : PullRequestNode(p) \in group
    BY <1>1, <1>2, <1>7, <2>1
  <2>3. \A p \in P : \A t \in T(p) : TicketNode(t) \in group
    BY <1>1, <1>2, <2>1, <2>2
  <2>4. \A c \in C : CommitNode(c) \in group
    BY <1>1, <1>3, <1>7, <2>1
  <2>5. \A r \in R : TestNode(r) \in group
    BY <1>1, <1>4, <1>7, <2>1
  <2> QED
    BY <1>1, <1>2, <1>3, <1>4, <1>7, <2>2, <2>3, <2>4, <2>5
<1>8. Hangs(q, BuildNode(b))
  BY <1>5, <1>6, <1>7 DEF Hangs
<1>9. \A link \in q.missing :
        \/ P = {} \/ C = {} \/ \E p \in P : T(p) = {}
        \/ link.relation = "build_to_test_result" /\ R = {}
  BY <1>1, <1>2, <1>3, <1>4
<1>10. \A p \in P : <<PullRequestNode(p), BuildNode(b)>> \in q.edges
  BY <1>1, <1>2
<1> QED
  BY <1>8, <1>9, <1>10 DEF q, P, C, R, T

\* A part in which everything hangs together with the risk, which it may link to.
Attached(q) ==
  /\ \A edge \in q.edges : \E one, other \in q.nodes \cup {RiskNode} : edge = <<one, other>>
  /\ \A group :
       RiskNode \in group /\ (\A edge \in q.edges : edge[1] \in group <=> edge[2] \in group)
         => q.nodes \subseteq group

LEMMA BuildIsAttached ==
  ASSUME NEW b, NEW d
  PROVE  /\ Attached(ChainOfBuild(b, d))
         /\ BuildNode(b) \in ChainOfBuild(b, d).nodes
         /\ ChainOfBuild(b, d).missing \subseteq LinkBuild(b, d).missing
<1> DEFINE q == ChainOfBuild(b, d)
           own == Part({}, {<<BuildNode(b), RiskNode>>}, {})
           link == LinkBuild(b, d)
<1>1. own.nodes = {} /\ own.edges = {<<BuildNode(b), RiskNode>>} /\ own.missing = {}
  BY DEF Part
<1>2. q = Together({own, link})
  BY DEF ChainOfBuild
<1>3. Hangs(link, BuildNode(b))
  BY LinkBuildHangs
<1> HIDE DEF q, own, link
<1>4. /\ \A node : node \in q.nodes <=> node \in link.nodes
      /\ \A edge : edge \in q.edges <=> edge = <<BuildNode(b), RiskNode>> \/ edge \in link.edges
      /\ \A x : x \in q.missing <=> x \in link.missing
  BY <1>1, <1>2, TogetherIsUnion
<1>5. \A edge \in q.edges : \E one, other \in q.nodes \cup {RiskNode} : edge = <<one, other>>
  BY <1>3, <1>4 DEF Hangs
<1>6. ASSUME NEW group, RiskNode \in group,
             \A edge \in q.edges : edge[1] \in group <=> edge[2] \in group
      PROVE  q.nodes \subseteq group
  <2>1. BuildNode(b) \in group
    <3>1. <<BuildNode(b), RiskNode>> \in q.edges
      BY <1>4
    <3>2. \A x, y : <<x, y>> \in q.edges => (x \in group <=> y \in group)
      BY <1>6
    <3> QED
      BY <1>6, <3>1, <3>2
  <2> QED
    BY <1>3, <1>4, <1>6, <2>1 DEF Hangs
<1> QED
  BY <1>3, <1>4, <1>5, <1>6 DEF Attached, Hangs, q, link

\* The builds of the pull requests of a ticket.
BuildsOfTicket(t, d) ==
  {b \in d.builds : \E p \in PullRequestsOf(b, d) : p.ticket = t.id}

LEMMA TicketIsAttached ==
  ASSUME NEW t, NEW d
  PROVE  /\ Attached(ChainOfTicket(t, d))
         /\ TicketNode(t) \in ChainOfTicket(t, d).nodes
         /\ \A link \in ChainOfTicket(t, d).missing : \E b \in BuildsOfTicket(t, d) :
              /\ link \in LinkBuild(b, d).missing
              /\ BuildNode(b) \in ChainOfTicket(t, d).nodes
<1> DEFINE q == ChainOfTicket(t, d)
           C == {c \in d.commits : c.ticket = t.id}
           P == {p \in d.pullRequests : p.ticket = t.id}
           B == {b \in d.builds : b.pullRequest \in IdsOf(P)}
           own == Part({TicketNode(t)} \cup {CommitNode(c) : c \in C}
                                       \cup {PullRequestNode(p) : p \in P},
                       {<<TicketNode(t), RiskNode>>}
                         \cup {<<TicketNode(t), CommitNode(c)>> : c \in C}
                         \cup {<<TicketNode(t), PullRequestNode(p)>> : p \in P}, {})
           parts == {own} \cup {LinkBuild(b, d) : b \in B}
<1>1. q = Together(parts)
  BY DEF ChainOfTicket
<1>2. /\ \A node : node \in own.nodes <=>
           \/ node = TicketNode(t)
           \/ \E c \in C : node = CommitNode(c)
           \/ \E p \in P : node = PullRequestNode(p)
      /\ \A edge : edge \in own.edges <=>
           \/ edge = <<TicketNode(t), RiskNode>>
           \/ \E c \in C : edge = <<TicketNode(t), CommitNode(c)>>
           \/ \E p \in P : edge = <<TicketNode(t), PullRequestNode(p)>>
      /\ own.missing = {}
  <2> HIDE DEF C, P
  <2> QED
    BY DEF Part
<1>3. \A b : b \in B => /\ b \in BuildsOfTicket(t, d)
                       /\ \E p \in P : p \in PullRequestsOf(b, d)
  BY DEF IdsOf, BuildsOfTicket, PullRequestsOf, RowsWithId
<1>4. \A part : part \in parts <=> part = own \/ \E b \in B : part = LinkBuild(b, d)
  OBVIOUS
<1>5. \A b : /\ Hangs(LinkBuild(b, d), BuildNode(b))
             /\ \A p \in PullRequestsOf(b, d) :
                  <<PullRequestNode(p), BuildNode(b)>> \in LinkBuild(b, d).edges
  BY LinkBuildHangs
<1> HIDE DEF q, C, P, B, own, parts
<1>6. /\ \A node : node \in q.nodes <=>
           node \in own.nodes \/ \E b \in B : node \in LinkBuild(b, d).nodes
      /\ \A edge : edge \in q.edges <=>
           edge \in own.edges \/ \E b \in B : edge \in LinkBuild(b, d).edges
      /\ \A link : link \in q.missing <=>
           link \in own.missing \/ \E b \in B : link \in LinkBuild(b, d).missing
  <2>1. \A node : node \in q.nodes <=>
          node \in own.nodes \/ \E b \in B : node \in LinkBuild(b, d).nodes
    BY <1>1, <1>4, TogetherIsUnion
  <2>2. \A edge : edge \in q.edges <=>
          edge \in own.edges \/ \E b \in B : edge \in LinkBuild(b, d).edges
    BY <1>1, <1>4, TogetherIsUnion
  <2>3. \A link : link \in q.missing <=>
          link \in own.missing \/ \E b \in B : link \in LinkBuild(b, d).missing
    BY <1>1, <1>4, TogetherIsUnion
  <2> QED
    BY <2>1, <2>2, <2>3
<1>7. \A edge \in q.edges : \E one, other \in q.nodes \cup {RiskNode} : edge = <<one, other>>
  <2>1. \A edge \in own.edges :
          \E one, other \in q.nodes \cup {RiskNode} : edge = <<one, other>>
    BY <1>2, <1>6
  <2>2. ASSUME NEW b \in B, NEW edge \in LinkBuild(b, d).edges
        PROVE  \E one, other \in q.nodes \cup {RiskNode} : edge = <<one, other>>
    <3>1. PICK one, other \in LinkBuild(b, d).nodes : edge = <<one, other>>
      BY <1>5 DEF Hangs
    <3> QED
      BY <1>6, <3>1
  <2> QED
    BY <1>6, <2>1, <2>2
<1>8. ASSUME NEW group, RiskNode \in group,
             \A edge \in q.edges : edge[1] \in group <=> edge[2] \in group
      PROVE  q.nodes \subseteq group
  <2>1. \A x, y : <<x, y>> \in q.edges => (x \in group <=> y \in group)
    BY <1>8
  <2>2. TicketNode(t) \in group
    BY <1>2, <1>6, <1>8, <2>1
  <2>3. \A c \in C : CommitNode(c) \in group
    BY <1>2, <1>6, <2>1, <2>2
  <2>4. \A p \in P : PullRequestNode(p) \in group
    BY <1>2, <1>6, <2>1, <2>2
  <2>5. ASSUME NEW b \in B
        PROVE  LinkBuild(b, d).nodes \subseteq group
    <3>1. PICK p \in P : p \in PullRequestsOf(b, d)
      BY <1>3
    <3>2. <<PullRequestNode(p), BuildNode(b)>> \in q.edges
      BY <1>5, <1>6, <3>1
    <3>3. BuildNode(b) \in group
      BY <2>1, <2>4, <3>2
    <3>4. \A edge \in LinkBuild(b, d).edges : edge[1] \in group <=> edge[2] \in group
      BY <1>6, <1>8
    <3> QED
      BY <1>5, <3>3, <3>4 DEF Hangs
  <2> QED
    BY <1>2, <1>6, <2>2, <2>3, <2>4, <2>5
<1>9. \A link \in q.missing : \E b \in BuildsOfTicket(t, d) :
        link \in LinkBuild(b, d).missing /\ BuildNode(b) \in q.nodes
  BY <1>2, <1>3, <1>5, <1>6 DEF Hangs
<1>10. TicketNode(t) \in q.nodes
  BY <1>2, <1>6
<1> QED
  BY <1>7, <1>8, <1>9, <1>10 DEF Attached, q

LEMMA MetricIsAttached ==
  ASSUME NEW m
  PROVE  /\ Attached(ChainOfMetric(m))
         /\ MetricNode(m) \in ChainOfMetric(m).nodes
         /\ ChainOfMetric(m).missing = {}
<1> DEFINE q == ChainOfMetric(m)
<1>1. /\ q.nodes = {MetricNode(m)} /\ q.edges = {<<MetricNode(m), RiskNode>>}
      /\ q.missing = {}
  BY DEF ChainOfMetric, Part
<1> HIDE DEF q
<1> QED
  BY <1>1 DEF Attached, q

LEMMA SourceIsAttached ==
  ASSUME NEW risk, NEW d, NEW q \in SourceChain(risk, d)
  PROVE  Attached(q)
  BY TicketIsAttached, BuildIsAttached, MetricIsAttached DEF SourceChain

\* Then so is the whole evidence.
LEMMA EvidenceIsAttached ==
  ASSUME NEW risk, NEW d, SourceChain(risk, d) # {}
  PROVE  LET chain == EvidenceOf(risk, d)
         IN  /\ \A q \in SourceChain(risk, d) : q.nodes \subseteq chain.nodes
             /\ \A link \in chain.missing : \E q \in SourceChain(risk, d) : link \in q.missing
             /\ chain.edges \subseteq chain.nodes \X chain.nodes
             /\ \A group \in SUBSET chain.nodes :
                  RiskNode \in group
                    /\ (\A edge \in chain.edges : edge[1] \in group <=> edge[2] \in group)
                    => group = chain.nodes
<1> DEFINE chain == EvidenceOf(risk, d)
           S == SourceChain(risk, d)
           own == Part({RiskNode}, {}, {})
           parts == {own} \cup S
<1>1. chain = Together(parts)
  BY DEF EvidenceOf
<1>2. own.nodes = {RiskNode} /\ own.edges = {} /\ own.missing = {}
  BY DEF Part
<1>3. \A q \in S : Attached(q)
  BY SourceIsAttached
<1>4. \A part : part \in parts <=> part = own \/ part \in S
  OBVIOUS
<1> HIDE DEF chain, S, own, parts
<1>5. /\ \A node : node \in chain.nodes <=> node = RiskNode \/ \E q \in S : node \in q.nodes
      /\ \A edge : edge \in chain.edges <=> \E q \in S : edge \in q.edges
      /\ \A link : link \in chain.missing <=> \E q \in S : link \in q.missing
  BY <1>1, <1>2, <1>4, TogetherIsUnion
<1>6. chain.edges \subseteq chain.nodes \X chain.nodes
  <2> SUFFICES ASSUME NEW edge \in chain.edges PROVE edge \in chain.nodes \X chain.nodes
    OBVIOUS
  <2>1. PICK q \in S : edge \in q.edges
    BY <1>5
  <2>2. PICK one, other \in q.nodes \cup {RiskNode} : edge = <<one, other>>
    BY <1>3, <2>1 DEF Attached
  <2> QED
    BY <1>5, <2>1, <2>2
<1>7. ASSUME NEW group \in SUBSET chain.nodes, RiskNode \in group,
             \A edge \in chain.edges : edge[1] \in group <=> edge[2] \in group
      PROVE  group = chain.nodes
  <2>1. ASSUME NEW q \in S
        PROVE  q.nodes \subseteq group
    <3>1. \A edge \in q.edges : edge[1] \in group <=> edge[2] \in group
      BY <1>5, <1>7
    <3> QED
      BY <1>3, <1>7, <3>1 DEF Attached
  <2> QED
    BY <1>5, <1>7, <2>1
<1> QED
  BY <1>5, <1>6, <1>7 DEF chain, S
--------------------------------------------------------------------------------
(* The evidence of a snapshot.                                                 *)

\* Rows that are as many as their ids have each an id of its own.
LEMMA IdsAreUnique ==
  ASSUME NEW rows, IsFiniteSet(rows), UniqueIds(rows)
  PROVE  \A x, y \in rows : x.id = y.id => x = y
<1> DEFINE id == [x \in rows |-> x.id]
<1>1. id \in Surjection(rows, IdsOf(rows))
  BY DEF Surjection, IdsOf
<1>2. Cardinality(rows) = Cardinality(IdsOf(rows))
  BY DEF UniqueIds
<1> HIDE DEF id
<1>3. id \in Injection(rows, IdsOf(rows))
  BY <1>1, <1>2, FS_SurjSameCardinalityImpliesInj
<1>4. \A x, y \in rows : id[x] = id[y] => x = y
  BY <1>3 DEF Injection, IsInjective
<1> QED
  BY <1>4 DEF id

\* A validated payload: no id twice, and each build has its pull request, of one
\* ticket of its sprint, and its commit.
LEMMA ValidRows ==
  ASSUME NEW p \in Payloads, Verdict(Datasets[p]) = "valid"
  PROVE  LET d == Datasets[p]
         IN  /\ \A t, u \in d.tickets : t.id = u.id => t = u
             /\ \A b, o \in d.builds : b.id = o.id => b = o
             /\ \A b \in d.builds :
                  /\ b.started <= Finish(b)
                  /\ PullRequestsOf(b, d) # {} /\ CommitsOf(b, d) # {}
                  /\ \A q \in PullRequestsOf(b, d) :
                       \E t \in RowsWithId(d.tickets, q.ticket) : t.sprint = b.sprint
<1> DEFINE d == Datasets[p]
<1>1. ReferencesResolve(d) /\ DatasetConsistent(d)
  BY DEF Verdict
<1>2. /\ IsFiniteSet(d.tickets) /\ IsFiniteSet(d.builds) /\ IsFiniteSet(d.pullRequests)
      /\ d.builds \subseteq Builds
  BY QaProjectAssumption DEF QaProjectAssumption, IsDataset
<1> HIDE DEF d
<1>3. /\ \A t, u \in d.tickets : t.id = u.id => t = u
      /\ \A b, o \in d.builds : b.id = o.id => b = o
      /\ \A q, o \in d.pullRequests : q.id = o.id => q = o
  BY <1>1, <1>2, IdsAreUnique DEF ReferencesResolve
<1>4. ASSUME NEW b \in d.builds
      PROVE  /\ b.started <= Finish(b)
             /\ PullRequestsOf(b, d) # {} /\ CommitsOf(b, d) # {}
             /\ \A q \in PullRequestsOf(b, d) :
                  \E t \in RowsWithId(d.tickets, q.ticket) : t.sprint = b.sprint
  <2>1. BuildConsistent(b, d)
    BY <1>1 DEF DatasetConsistent
  <2>2. PICK q \in d.pullRequests, c \in d.commits, t \in d.tickets :
          /\ q.id = b.pullRequest /\ c.sha = b.sha /\ q.ticket = t.id /\ b.sprint = t.sprint
    BY <2>1 DEF BuildConsistent, ChainConsistent
  <2>3. b.started <= Finish(b)
    <3>1. b.started \in Nat
      BY <1>2 DEF Builds, Moments
    <3> QED
      BY <2>1, <3>1 DEF BuildConsistent, Finish
  <2>4. q \in PullRequestsOf(b, d) /\ c \in CommitsOf(b, d)
    BY <2>2 DEF PullRequestsOf, CommitsOf, RowsWithId
  <2>5. \A o \in PullRequestsOf(b, d) : o = q
    BY <1>3, <2>2 DEF PullRequestsOf, RowsWithId
  <2>6. t \in RowsWithId(d.tickets, q.ticket)
    BY <2>2 DEF RowsWithId
  <2> QED
    BY <2>2, <2>3, <2>4, <2>5, <2>6
<1> QED
  BY <1>3, <1>4 DEF d

\* What lacks in the evidence of a build of a valid payload are its test results.
LEMMA OnlyResultsAreMissing ==
  ASSUME NEW p \in Payloads, Verdict(Datasets[p]) = "valid", NEW b \in Datasets[p].builds,
         NEW link \in LinkBuild(b, Datasets[p]).missing
  PROVE  link.relation = "build_to_test_result" /\ ResultsOf(b, Datasets[p]) = {}
  BY ValidRows, LinkBuildHangs

\* A fact is of a row its analysis saw.
LEMMA FactsAreOfRows ==
  ASSUME NEW c, NEW fact \in CollectFacts(c)
  PROVE  \/ fact.type = "ticket" /\ \E t \in VisibleTickets(c) : fact.source = t.id
         \/ fact.type = "build" /\ \E b \in VisibleBuilds(c) : fact.source = b.id
         \/ fact.type = "metric" /\ \E m \in VisibleCoverages(c) : fact.source = m.id
<1>1. CASE fact \in BlockedFacts(c)
  BY <1>1 DEF BlockedFacts, Fact
<1>2. CASE fact \in OverdueFacts(c)
  BY <1>2 DEF OverdueFacts, Fact
<1>3. CASE fact \in CriticalBugFacts(c)
  BY <1>3 DEF CriticalBugFacts, Fact
<1>4. CASE fact \in BuildFacts(c)
  <2> DEFINE OfSprint(b) == {other \in VisibleBuilds(c) : other.sprint = b.sprint}
             rows == {b \in VisibleBuilds(c) : IsLatestBuild(b, OfSprint(b))}
             facts == [b \in rows |-> Fact("consecutive_failed_builds", FailureStreak(OfSprint(b)),
                                           "build", b, b.started, {})]
  <2>1. BuildFacts(c) = {facts[b] : b \in rows}
    BY DEF BuildFacts
  <2>2. \A b \in rows : /\ b \in VisibleBuilds(c)
                       /\ facts[b].type = "build" /\ facts[b].source = b.id
    <3> HIDE DEF OfSprint
    <3> QED
      BY DEF Fact
  <2> HIDE DEF rows, facts
  <2> QED
    BY <1>4, <2>1, <2>2
<1>5. CASE fact \in MetricFacts(c)
  BY <1>5 DEF MetricFacts, LatestCoverages, Fact
<1> QED
  BY <1>1, <1>2, <1>3, <1>4, <1>5 DEF CollectFacts, TicketFacts

\* A build whose evidence is dated is one the analysis saw, if it is of its scope.
LEMMA DatedBuildIsVisible ==
  ASSUME NEW p \in Payloads, Verdict(Datasets[p]) = "valid", NEW sprint, NEW reference \in Nat,
         NEW b \in Datasets[p].builds, sprint = Null \/ b.sprint = sprint,
         BuildNode(b).observed <= ReferenceDayEnd(reference)
  PROVE  b \in VisibleBuilds(Context(Datasets[p], sprint, reference))
<1> DEFINE d == Datasets[p]
           c == Context(d, sprint, reference)
<1>1. b \in c.builds /\ c.reference = reference
  BY DEF Context, InScope
<1>2. b.started <= Finish(b)
  BY ValidRows
<1>3. b.started \in Nat /\ b.finished \in Nat
  BY TablesAreFinite DEF Builds, Moments
<1>4. Finish(b) \in Nat
  BY <1>3 DEF Finish
<1>5. BuildNode(b).observed = Finish(b)
  BY DEF BuildNode, Node
<1>6. b.started <= 2 * reference + 1
  BY <1>2, <1>3, <1>4, <1>5 DEF ReferenceDayEnd
<1>7. Day(b.started) <= reference
  BY <1>3, <1>6 DEF Day
<1> QED
  BY <1>1, <1>7 DEF VisibleBuilds

\* The evidence of a finding on valid data that an analysis has dated.
LEMMA EvidenceOfFinding ==
  ASSUME NEW p \in Payloads, Verdict(Datasets[p]) = "valid", NEW sprint, NEW reference \in Nat,
         EvidenceIsDated(Assessment(Datasets[p], sprint, reference), Datasets[p]),
         NEW risk \in Assessment(Datasets[p], sprint, reference).findings
  PROVE  LET chain == EvidenceOf(risk, Datasets[p])
         IN  /\ \E node \in chain.nodes : node.type = risk.type /\ node.id = risk.source
             /\ chain.edges \subseteq chain.nodes \X chain.nodes
             /\ \A group \in SUBSET chain.nodes :
                  RiskNode \in group
                    /\ (\A edge \in chain.edges : edge[1] \in group <=> edge[2] \in group)
                    => group = chain.nodes
             /\ \A link \in chain.missing :
                  /\ link.relation = "build_to_test_result"
                  /\ "test_results_incomplete" \in Assessment(Datasets[p], sprint, reference).missing
<1> DEFINE d == Datasets[p]
           c == Context(d, sprint, reference)
           s == Assessment(d, sprint, reference)
           chain == EvidenceOf(risk, d)
           S == SourceChain(risk, d)
<1>1. /\ s.findings = EvaluateRules(c) /\ s.missing = MissingInformation(c, d)
      /\ s.reference = reference
  BY DEF Assessment
<1>2. PICK fact \in CollectFacts(c) : risk.type = fact.type /\ risk.source = fact.source
  <2>1. risk \in EvaluateRules(c)
    BY <1>1
  <2> QED
    BY <2>1, FindingsAreOfFacts
<1>3. \/ risk.type = "ticket" /\ \E t \in VisibleTickets(c) : risk.source = t.id
      \/ risk.type = "build" /\ \E b \in VisibleBuilds(c) : risk.source = b.id
      \/ risk.type = "metric" /\ \E m \in VisibleCoverages(c) : risk.source = m.id
  BY <1>2, FactsAreOfRows
<1>4. /\ \A t \in VisibleTickets(c) : t \in d.tickets /\ (sprint = Null \/ t.sprint = sprint)
      /\ \A b \in VisibleBuilds(c) : b \in d.builds /\ (sprint = Null \/ b.sprint = sprint)
      /\ \A m \in VisibleCoverages(c) : m \in d.metrics
  BY DEF VisibleTickets, VisibleBuilds, VisibleCoverages, Context, InScope
<1>5. \A node \in chain.nodes : node # RiskNode => node.observed <= ReferenceDayEnd(reference)
  BY <1>1 DEF EvidenceIsDated, EvidenceRows
<1>6. /\ \A t, u \in d.tickets : t.id = u.id => t = u
      /\ \A b, o \in d.builds : b.id = o.id => b = o
  BY ValidRows
<1>7. /\ \A t : TicketNode(t).type = "ticket" /\ TicketNode(t).id = t.id
      /\ \A b : BuildNode(b).type = "build" /\ BuildNode(b).id = b.id
      /\ \A m : MetricNode(m).type = "metric" /\ MetricNode(m).id = m.id
      /\ RiskNode.type = "risk"
  BY DEF TicketNode, BuildNode, MetricNode, RiskNode, Node
<1>8. /\ risk.type = "ticket" => S = {ChainOfTicket(t, d) : t \in RowsWithId(d.tickets, risk.source)}
      /\ risk.type = "build" => S = {ChainOfBuild(b, d) : b \in RowsWithId(d.builds, risk.source)}
      /\ risk.type = "metric" => S = {ChainOfMetric(m) : m \in RowsWithId(d.metrics, risk.source)}
  BY DEF SourceChain
<1>9. \A rows, id : \A row : row \in RowsWithId(rows, id) <=> row \in rows /\ row.id = id
  BY DEF RowsWithId
\* A link is missing in the evidence of some build the analysis saw.
<1>10. ASSUME NEW q \in S, NEW link \in q.missing, q.nodes \subseteq chain.nodes
       PROVE  \E b \in VisibleBuilds(c) : link \in LinkBuild(b, d).missing
  <2>1. CASE risk.type = "ticket"
    <3>1. PICK t \in VisibleTickets(c) : risk.source = t.id
      BY <1>3, <2>1
    <3>2. q = ChainOfTicket(t, d)
      <4>1. PICK u \in RowsWithId(d.tickets, risk.source) : q = ChainOfTicket(u, d)
        BY <1>8, <2>1
      <4>2. u = t
        BY <1>4, <1>6, <1>9, <3>1, <4>1
      <4> QED
        BY <4>1, <4>2
    <3>3. PICK b \in BuildsOfTicket(t, d) :
            link \in LinkBuild(b, d).missing /\ BuildNode(b) \in chain.nodes
      BY <1>10, <3>2, TicketIsAttached
    <3>4. b \in d.builds /\ b.sprint = t.sprint
      <4>1. PICK r \in PullRequestsOf(b, d) : r.ticket = t.id
        BY DEF BuildsOfTicket
      <4>2. b \in d.builds
        BY DEF BuildsOfTicket
      <4>3. PICK u \in RowsWithId(d.tickets, r.ticket) : u.sprint = b.sprint
        BY <4>1, <4>2, ValidRows
      <4>4. u = t
        BY <1>4, <1>6, <1>9, <4>1, <4>3
      <4> QED
        BY <4>2, <4>3, <4>4
    <3>5. BuildNode(b).observed <= ReferenceDayEnd(reference)
      BY <1>5, <1>7, <3>3
    <3>6. b \in VisibleBuilds(c)
      BY <1>4, <3>4, <3>5, DatedBuildIsVisible
    <3> QED
      BY <3>3, <3>6
  <2>2. CASE risk.type = "build"
    <3>1. PICK b \in VisibleBuilds(c) : risk.source = b.id
      BY <1>3, <2>2
    <3>2. PICK o \in RowsWithId(d.builds, risk.source) : q = ChainOfBuild(o, d)
      BY <1>8, <2>2
    <3>3. o = b
      BY <1>4, <1>6, <1>9, <3>1, <3>2
    <3> QED
      BY <1>10, <3>2, <3>3, BuildIsAttached
  <2>3. CASE risk.type = "metric"
    <3>1. PICK m \in RowsWithId(d.metrics, risk.source) : q = ChainOfMetric(m)
      BY <1>8, <2>3
    <3> QED
      BY <1>10, <3>1, MetricIsAttached
  <2> QED
    BY <1>3, <2>1, <2>2, <2>3
<1>11. ASSUME NEW b \in VisibleBuilds(c), NEW link \in LinkBuild(b, d).missing
       PROVE  /\ link.relation = "build_to_test_result"
              /\ "test_results_incomplete" \in s.missing
  <2>1. link.relation = "build_to_test_result" /\ ResultsOf(b, d) = {}
    BY <1>4, <1>11, OnlyResultsAreMissing
  <2>2. b \notin TestedBuilds(c, d)
    BY <2>1 DEF TestedBuilds, ResultsOf
  <2>3. TestedBuilds(c, d) # VisibleBuilds(c)
    BY <2>2
  <2>4. "test_results_incomplete" \in MissingInformation(c, d)
    BY <2>3 DEF MissingInformation, Codes
  <2> QED
    BY <1>1, <2>1, <2>4
\* Its source is one of the tables, and in the evidence.
<1>12. \E q \in S : \E node \in q.nodes : node.type = risk.type /\ node.id = risk.source
  <2>1. CASE risk.type = "ticket"
    <3>1. PICK t \in VisibleTickets(c) : risk.source = t.id
      BY <1>3, <2>1
    <3>2. ChainOfTicket(t, d) \in S
      BY <1>4, <1>8, <1>9, <2>1, <3>1
    <3> QED
      BY <1>7, <2>1, <3>1, <3>2, TicketIsAttached
  <2>2. CASE risk.type = "build"
    <3>1. PICK b \in VisibleBuilds(c) : risk.source = b.id
      BY <1>3, <2>2
    <3>2. ChainOfBuild(b, d) \in S
      BY <1>4, <1>8, <1>9, <2>2, <3>1
    <3> QED
      BY <1>7, <2>2, <3>1, <3>2, BuildIsAttached
  <2>3. CASE risk.type = "metric"
    <3>1. PICK m \in VisibleCoverages(c) : risk.source = m.id
      BY <1>3, <2>3
    <3>2. ChainOfMetric(m) \in S
      BY <1>4, <1>8, <1>9, <2>3, <3>1
    <3> QED
      BY <1>7, <2>3, <3>1, <3>2, MetricIsAttached
  <2> QED
    BY <1>3, <2>1, <2>2, <2>3
<1>13. /\ \A q \in S : q.nodes \subseteq chain.nodes
       /\ \A link \in chain.missing : \E q \in S : link \in q.missing
       /\ chain.edges \subseteq chain.nodes \X chain.nodes
       /\ \A group \in SUBSET chain.nodes :
            RiskNode \in group
              /\ (\A edge \in chain.edges : edge[1] \in group <=> edge[2] \in group)
              => group = chain.nodes
  <2>1. SourceChain(risk, d) # {}
    BY <1>12
  <2> QED
    BY <2>1, EvidenceIsAttached
<1> HIDE DEF chain, S, c, s, d
<1>14. \E node \in chain.nodes : node.type = risk.type /\ node.id = risk.source
  BY <1>12, <1>13
<1>15. \A link \in chain.missing :
         link.relation = "build_to_test_result" /\ "test_results_incomplete" \in s.missing
  BY <1>10, <1>11, <1>13
<1> QED
  BY <1>13, <1>14, <1>15 DEF chain, s, d

\* The inductive invariant: what is loaded has been validated, and the evidence of
\* what is stored is not later than its date, if no load fell into its analysis.
EvidenceInv ==
  /\ ProjectInv
  /\ data # NoData => Verdict(Datasets[data]) = "valid"
  /\ \A c \in Callers : pc[c] = "seeding" => Verdict(Datasets[job[c].payload]) = "valid"
  /\ \A row \in Current : EvidenceIsDated(row.result, Datasets[data])

LEMMA NextEvidenceInv == EvidenceInv /\ [ProjectNext]_projectVars => EvidenceInv'
<1> SUFFICES ASSUME EvidenceInv, [ProjectNext]_projectVars PROVE EvidenceInv'
  OBVIOUS
<1>1. ProjectInv'
  BY ProjectStepInv DEF EvidenceInv
<1>2. DOMAIN pc = Callers /\ DOMAIN job = Callers
  BY DEF EvidenceInv, ProjectInv, JobsAreKnown
<1>3. CASE UNCHANGED projectVars
  BY <1>1, <1>3 DEF EvidenceInv, projectVars, analysisVars, ingestVars, Current
<1>4. CASE Analyses
  <2>1. UNCHANGED <<data, pc, job>>
    BY <1>4 DEF Analyses, BeginAnalysis, ReadTable, LinkSnapshot, InsertSnapshot, EndAnalysis,
                ingestVars
  <2>2. \A row \in snapshots : row.analyzedAt # analyses + 1
    BY DEF EvidenceInv, ProjectInv, AnalysisInv, RowsAreCounted
  <2>3. CASE InsertSnapshot
    <3>1. PICK previous : snapshots' = snapshots \cup {Row(analyses + 1, previous, Drafted)}
      BY <2>3 DEF InsertSnapshot
    <3>2. /\ overtaken' = overtaken
          /\ (\A i \in 1..6 : draft.seen[i] = data) => EvidenceIsDated(Drafted, Datasets[data])
      BY <2>3 DEF InsertSnapshot
    <3>3. analyses + 1 \notin overtaken => \A i \in 1..6 : draft.seen[i] = data
      BY <2>3 DEF InsertSnapshot, EvidenceInv, ProjectInv, AnalysisInv, DraftIsKnown
    <3> DEFINE new == Row(analyses + 1, previous, Drafted)
    <3>4. new.analyzedAt = analyses + 1 /\ new.result = Drafted
      BY DEF Row
    <3> HIDE DEF new
    <3>5. snapshots' = snapshots \cup {new}
      BY <3>1 DEF new
    <3>6. \A row \in Current' :
            row \in Current \/ (row = new /\ analyses + 1 \notin overtaken)
      BY <3>2, <3>4, <3>5 DEF Current
    <3>7. \A row \in Current' : EvidenceIsDated(row.result, Datasets[data])
      BY <3>2, <3>3, <3>4, <3>6 DEF EvidenceInv
    <3> QED
      BY <1>1, <2>1, <3>7 DEF EvidenceInv
  <2>4. CASE ~InsertSnapshot
    <3>1. snapshots' = snapshots /\ overtaken' \in {overtaken, overtaken \ {analyses + 1}}
      BY <1>4, <2>4 DEF Analyses, BeginAnalysis, ReadTable, LinkSnapshot, EndAnalysis
    <3>2. Current' = Current
      BY <2>2, <3>1 DEF Current
    <3> QED
      BY <1>1, <2>1, <3>2 DEF EvidenceInv
  <2> QED
    BY <2>3, <2>4
<1>5. ASSUME NEW c \in Callers, Ingest(c)
      PROVE  EvidenceInv'
  <2>1. CASE Load(c)
    <3>1. data' = job[c].payload /\ Current' = {} /\ pc[c] = "seeding"
      BY <2>1 DEF Load, ClearSnapshots, Current
    <3>2. pc' = [pc EXCEPT ![c] = "logging"] /\ \A o \in Callers : o # c => job'[o] = job[o]
      BY <1>2, <2>1 DEF Load, ToLog
    <3> QED
      BY <1>1, <1>2, <3>1, <3>2 DEF EvidenceInv
  <2>2. CASE ~Load(c)
    <3>1. data' = data /\ Current' = Current
      BY <1>5, <2>2 DEF Ingest, Refuse, Unhandled, LookUp, Skip, LoadError, WriteLog, Die,
                        serverVars, analysisVars, Current
    <3>2. \A o \in Callers : pc'[o] = "seeding" =>
            \/ pc[o] = "seeding" /\ job'[o] = job[o]
            \/ Verdict(Datasets[job'[o].payload]) = "valid"
      <4>1. CASE \E payload \in Payloads : Refuse(c, payload) \/ Unhandled(c, payload)
        BY <4>1 DEF Refuse, Unhandled
      <4>2. CASE \E payload \in Payloads, reset \in BOOLEAN : LookUp(c, payload, reset)
        <5>1. PICK payload \in Payloads, reset \in BOOLEAN : LookUp(c, payload, reset)
          BY <4>2
        <5>2. \A o \in Callers : o # c => pc'[o] = pc[o] /\ job'[o] = job[o]
          BY <1>2, <5>1 DEF LookUp
        <5>3. job'[c].payload = payload /\ Verdict(Datasets[payload]) = "valid"
          BY <1>2, <5>1 DEF LookUp
        <5> QED
          BY <5>2, <5>3
      <4>3. CASE Skip(c)
        BY <1>2, <4>3 DEF Skip, ToLog
      <4>4. CASE LoadError(c) \/ WriteLog(c) \/ Die(c)
        BY <1>2, <4>4 DEF LoadError, WriteLog, Die, EndCall
      <4> QED
        BY <1>5, <2>2, <4>1, <4>2, <4>3, <4>4 DEF Ingest
    <3> QED
      BY <1>1, <3>1, <3>2 DEF EvidenceInv
  <2> QED
    BY <2>1, <2>2
<1> QED
  BY <1>3, <1>4, <1>5 DEF ProjectNext

\* The evidence stored with a risk holds the row it was found in, hangs together, and
\* lacks nothing but test results that the snapshot reports as incomplete: for every
\* payload that is accepted, and any policies.
THEOREM EvidenceIsWholeHolds == ProjectSpec => []EvidenceIsWhole
<1>1. ProjectInit => EvidenceInv
  BY ProjectInitInv DEF ProjectInit, EvidenceInv, Current
<1>2. EvidenceInv => EvidenceIsWhole
  <2> SUFFICES ASSUME EvidenceInv, NEW row \in Current, NEW risk \in row.result.findings
               PROVE  LET chain == EvidenceOf(risk, Datasets[data])
                          Closed(group) == \A edge \in chain.edges :
                                             edge[1] \in group <=> edge[2] \in group
                      IN  /\ \E node \in chain.nodes :
                               node.type = risk.type /\ node.id = risk.source
                          /\ chain.edges \subseteq chain.nodes \X chain.nodes
                          /\ \A group \in SUBSET chain.nodes :
                               RiskNode \in group /\ Closed(group) => group = chain.nodes
                          /\ \A link \in chain.missing :
                               /\ link.relation = "build_to_test_result"
                               /\ "test_results_incomplete" \in row.result.missing
    BY DEF EvidenceIsWhole
  <2> DEFINE sprint == row.result.sprint
             reference == row.result.reference
             s == Assessment(Datasets[data], sprint, reference)
  <2>1. /\ data \in Payloads /\ reference \in Nat /\ row.result = s
        /\ Verdict(Datasets[data]) = "valid"
    BY CurrentIsOfTheData, QaProjectAssumption DEF EvidenceInv, QaProjectAssumption
  <2>2. EvidenceIsDated(s, Datasets[data]) /\ risk \in s.findings
    BY <2>1 DEF EvidenceInv
  <2>3. row.result.missing = s.missing
    BY <2>1
  <2> HIDE DEF sprint, reference
  <2> QED
    BY <2>1, <2>2, <2>3, EvidenceOfFinding
<1> QED
  BY <1>1, <1>2, NextEvidenceInv, PTL DEF ProjectSpec
--------------------------------------------------------------------------------
(* The daily reports of a period and its weekly report.                        *)

\* The last of some dates that is before a day.
JustBefore(dates, before, day) ==
  /\ before \in dates /\ before < day
  /\ \A other \in dates : other < day => other <= before

\* There is one, when there is a date before the day.
LEMMA JustBeforeExists ==
  ASSUME NEW dates \in SUBSET Nat, NEW day \in Nat, NEW start \in dates, start < day
  PROVE  \E before \in dates : JustBefore(dates, before, day) /\ start <= before
<1> DEFINE distances == {n \in Nat : \E date \in dates : date < day /\ n = day - date}
<1>1. distances \in SUBSET Nat /\ distances # {}
  <2>1. day - start \in Nat
    OBVIOUS
  <2> QED
    BY <2>1
<1>2. PICK n \in distances : \A other \in distances : n <= other
  <2> HIDE DEF distances
  <2> QED
    BY <1>1, LeastExists
<1>3. PICK before \in dates : before < day /\ n = day - before
  BY <1>2
<1>4. ASSUME NEW other \in dates, other < day PROVE other <= before
  <2>1. day - other \in Nat /\ other \in Nat /\ before \in Nat
    BY <1>4
  <2>2. day - other \in distances
    BY <1>4, <2>1
  <2>3. day - before <= day - other
    BY <1>2, <1>3, <2>2
  <2> QED
    BY <2>1, <2>3
<1> QED
  BY <1>3, <1>4 DEF JustBefore

\* The dates of a period but for its first.
LaterDates(dates, start, end) == {day \in dates : start < day /\ day <= end}

AreDifferences(f, score, dates, later) ==
  /\ \A day \in later : f[day] \in Int
  /\ \A day \in later, before \in dates :
       JustBefore(dates, before, day) => f[day] = score[day] - score[before]

\* The differences from one date to the next add up to that from the first to the last.
LEMMA DifferencesTelescope ==
  ASSUME NEW dates \in SUBSET Nat, NEW start \in dates, NEW end \in dates, start < end,
         NEW score, \A day \in dates : score[day] \in Int,
         NEW later, later = LaterDates(dates, start, end), IsFiniteSet(later),
         NEW f, AreDifferences(f, score, dates, later), NEW iter, IsSum(iter, f, later)
  PROVE  iter[later] = score[end] - score[start]
<1> DEFINE UpTo(day) == {date \in later : date <= day}
           wrong == {day \in dates : /\ start <= day /\ day <= end
                                     /\ iter[UpTo(day)] # score[day] - score[start]}
<1>1. /\ \A day \in later : day \in dates /\ start < day /\ day <= end
      /\ \A day \in dates : start < day /\ day <= end => day \in later
  BY DEF LaterDates
<1>2. /\ iter[{}] = 0 /\ \A s \in SUBSET later : iter[s] \in Int
      /\ \A s \in SUBSET later : \A day \in s : iter[s] = f[day] + iter[s \ {day}]
  <2>1. AnyFirst(iter, f, later)
    BY SumWithout DEF AreDifferences
  <2> QED
    BY <2>1 DEF AnyFirst, IsSum
<1>3. UpTo(start) = {} /\ UpTo(end) = later
  <2>1. start \in Nat /\ \A day \in later : day \in Nat
    BY <1>1
  <2>2. \A day \in later : ~(day <= start)
    BY <1>1, <2>1
  <2> QED
    BY <1>1, <2>2
<1>4. start \notin wrong
  <2>1. score[start] - score[start] = 0
    OBVIOUS
  <2>2. iter[UpTo(start)] = 0
    BY <1>2, <1>3
  <2> HIDE DEF UpTo
  <2> QED
    BY <2>1, <2>2
<1>5. ASSUME NEW day \in wrong, \A other \in wrong : day <= other PROVE FALSE
  <2>1. day \in later /\ day \in Nat
    <3>1. day \in dates /\ start <= day /\ day <= end /\ day # start
      BY <1>4, <1>5
    <3>2. start \in Nat /\ day \in Nat
      BY <3>1
    <3>3. start < day
      BY <3>1, <3>2
    <3> QED
      BY <1>1, <3>1, <3>2, <3>3
  <2>2. PICK before \in dates : JustBefore(dates, before, day) /\ start <= before
    BY <1>1, <2>1, JustBeforeExists
  <2>3. before < day /\ before <= end /\ before \in Nat
    BY <1>1, <2>1, <2>2 DEF JustBefore
  <2>4. iter[UpTo(before)] = score[before] - score[start]
    BY <1>5, <2>1, <2>2, <2>3
  <2>5. UpTo(day) \ {day} = UpTo(before) /\ day \in UpTo(day)
    <3>1. \A date \in later : date \in dates /\ date \in Nat
      BY <1>1
    <3>2. \A date \in later : date < day => date <= before
      BY <3>1, <2>2 DEF JustBefore
    <3>3. \A date \in later : date <= day /\ date # day <=> date <= before
      BY <2>1, <2>3, <3>1, <3>2
    <3>4. day <= day
      BY <2>1
    <3> QED
      BY <2>1, <3>3, <3>4
  <2>6. iter[UpTo(day)] = f[day] + iter[UpTo(before)]
    <3>1. UpTo(day) \in SUBSET later
      OBVIOUS
    <3> HIDE DEF UpTo
    <3> QED
      BY <1>2, <2>5, <3>1
  <2>7. f[day] = score[day] - score[before]
    BY <2>1, <2>2 DEF AreDifferences
  <2>8. score[day] \in Int /\ score[before] \in Int /\ score[start] \in Int
    BY <1>1, <2>1
  <2>9. iter[UpTo(day)] # score[day] - score[start]
    BY <1>5
  <2> HIDE DEF UpTo, wrong
  <2>10. iter[UpTo(day)] = (score[day] - score[before]) + (score[before] - score[start])
    BY <2>4, <2>6, <2>7
  <2> QED
    BY <2>8, <2>9, <2>10
<1>6. wrong = {}
  <2>1. wrong \in SUBSET Nat
    OBVIOUS
  <2> HIDE DEF wrong
  <2> QED
    BY <1>5, <2>1, LeastExists
<1>7. iter[UpTo(end)] = score[end] - score[start]
  <2>1. start \in Nat /\ end \in Nat /\ start <= end /\ end <= end
    OBVIOUS
  <2>2. end \notin wrong
    BY <1>6
  <2> HIDE DEF UpTo
  <2> QED
    BY <2>1, <2>2
<1> QED
  BY <1>3, <1>7

\* What is shown within a period, and what comes or goes at some of its dates.
ShownWithin(shown, dates, start, end) ==
  UNION {shown[day] : day \in {day \in dates : start <= day /\ day <= end}}

AllOf(keys, days) == UNION {keys[day] : day \in days}

Come(new, shown, dates, later) ==
  \A day \in later, before \in dates :
    JustBefore(dates, before, day) => new[day] = shown[day] \ shown[before]

Go(resolved, shown, dates, later) ==
  \A day \in later, before \in dates :
    JustBefore(dates, before, day) => resolved[day] = shown[before] \ shown[day]

\* What appears in a period is new at some date of it.
LEMMA NewOnesAppear ==
  ASSUME NEW dates \in SUBSET Nat, NEW start \in dates, NEW end \in dates, start < end,
         NEW later, later = LaterDates(dates, start, end),
         NEW shown, NEW new, Come(new, shown, dates, later)
  PROVE  ShownWithin(shown, dates, start, end) \ shown[start] = AllOf(new, later) \ shown[start]
<1> SUFFICES ASSUME NEW key
             PROVE  (key \notin shown[start] /\ \E day \in dates : /\ start <= day /\ day <= end
                                                                  /\ key \in shown[day])
                      <=> (key \notin shown[start] /\ \E day \in later : key \in new[day])
  BY DEF ShownWithin, AllOf
<1>1. /\ \A day \in later : day \in dates /\ start < day /\ day <= end /\ day \in Nat
      /\ \A day \in dates : start < day /\ day <= end => day \in later
  BY DEF LaterDates
<1>2. ASSUME NEW day \in later
      PROVE  \E before \in dates : /\ JustBefore(dates, before, day)
                                   /\ start <= before /\ before < day /\ before <= end
                                   /\ new[day] = shown[day] \ shown[before]
  <2>1. PICK before \in dates : JustBefore(dates, before, day) /\ start <= before
    BY <1>1, JustBeforeExists
  <2>2. before < day /\ before <= end
    BY <1>1, <2>1 DEF JustBefore
  <2> QED
    BY <2>1, <2>2 DEF Come
<1>3. ASSUME NEW day \in later, key \in new[day]
      PROVE  \E date \in dates : start <= date /\ date <= end /\ key \in shown[date]
  BY <1>1, <1>2, <1>3
<1>4. ASSUME key \notin shown[start], NEW date \in dates, start <= date, date <= end,
             key \in shown[date]
      PROVE  \E day \in later : key \in new[day]
  <2> DEFINE showing == {day \in later : key \in shown[day]}
  <2>1. date \in showing
    <3>1. date # start
      BY <1>4
    <3>2. date \in Nat /\ start \in Nat /\ start <= date /\ date <= end
      BY <1>4
    <3>3. start < date
      BY <3>1, <3>2
    <3>4. date \in later
      BY <1>1, <3>2, <3>3
    <3> QED
      BY <1>4, <3>4
  <2>2. PICK day \in showing : \A other \in showing : day <= other
    <3>1. showing \in SUBSET Nat /\ showing # {}
      BY <1>1, <2>1
    <3> HIDE DEF showing
    <3> QED
      BY <3>1, LeastExists
  <2>3. PICK before \in dates : /\ start <= before /\ before < day /\ before <= end
                                /\ new[day] = shown[day] \ shown[before]
    BY <1>2, <2>2
  <2>4. key \notin shown[before]
    <3>1. CASE before = start
      BY <1>4, <3>1
    <3>2. CASE before # start
      <4>1. before \in Nat /\ start \in Nat /\ day \in Nat
        BY <1>1, <2>2
      <4>2. start < before /\ ~(day <= before)
        BY <2>3, <3>2, <4>1
      <4>3. before \in later
        BY <1>1, <2>3, <4>2
      <4> QED
        BY <2>2, <4>2, <4>3
    <3> QED
      BY <3>1, <3>2
  <2> QED
    BY <2>2, <2>3, <2>4
<1> QED
  BY <1>3, <1>4

\* What goes away in a period is resolved at some date of it.
LEMMA ResolvedOnesGo ==
  ASSUME NEW dates \in SUBSET Nat, NEW start \in dates, NEW end \in dates, start < end,
         NEW later, later = LaterDates(dates, start, end),
         NEW shown, NEW resolved, Go(resolved, shown, dates, later)
  PROVE  ShownWithin(shown, dates, start, end) \ shown[end] = AllOf(resolved, later) \ shown[end]
<1> SUFFICES ASSUME NEW key
             PROVE  (key \notin shown[end] /\ \E day \in dates : /\ start <= day /\ day <= end
                                                                /\ key \in shown[day])
                      <=> (key \notin shown[end] /\ \E day \in later : key \in resolved[day])
  BY DEF ShownWithin, AllOf
<1>1. /\ \A day \in later : day \in dates /\ start < day /\ day <= end /\ day \in Nat
      /\ \A day \in dates : start < day /\ day <= end => day \in later
      /\ end \in later
  BY DEF LaterDates
<1>2. ASSUME NEW day \in later
      PROVE  \E before \in dates : /\ JustBefore(dates, before, day)
                                   /\ start <= before /\ before < day /\ before <= end
                                   /\ resolved[day] = shown[before] \ shown[day]
  <2>1. PICK before \in dates : JustBefore(dates, before, day) /\ start <= before
    BY <1>1, JustBeforeExists
  <2>2. before < day /\ before <= end
    BY <1>1, <2>1 DEF JustBefore
  <2> QED
    BY <2>1, <2>2 DEF Go
<1>3. ASSUME NEW day \in later, key \in resolved[day]
      PROVE  \E date \in dates : start <= date /\ date <= end /\ key \in shown[date]
  BY <1>2, <1>3
<1>4. ASSUME key \notin shown[end], NEW date \in dates, start <= date, date <= end,
             key \in shown[date]
      PROVE  \E day \in later : key \in resolved[day]
  <2> DEFINE gone == {day \in later : date < day /\ key \notin shown[day]}
  <2>1. end \in gone
    BY <1>1, <1>4
  <2>2. PICK day \in gone : \A other \in gone : day <= other
    <3>1. gone \in SUBSET Nat /\ gone # {}
      BY <1>1, <2>1
    <3> HIDE DEF gone
    <3> QED
      BY <3>1, LeastExists
  <2>3. PICK before \in dates : /\ JustBefore(dates, before, day)
                                /\ start <= before /\ before < day /\ before <= end
                                /\ resolved[day] = shown[before] \ shown[day]
    BY <1>2, <2>2
  <2>4. date <= before
    BY <2>2, <2>3 DEF JustBefore
  <2>5. key \in shown[before]
    <3>1. CASE before = date
      BY <1>4, <3>1
    <3>2. CASE before # date
      <4>1. before \in Nat /\ date \in Nat /\ start \in Nat /\ day \in Nat
        BY <1>1, <2>2
      <4>2. date < before /\ start < before /\ ~(day <= before)
        BY <1>4, <2>3, <2>4, <3>2, <4>1
      <4>3. before \in later
        BY <1>1, <2>3, <4>2
      <4> QED
        BY <2>2, <4>2, <4>3
    <3> QED
      BY <3>1, <3>2
  <2> QED
    BY <2>2, <2>3, <2>5
<1> QED
  BY <1>3, <1>4

\* The delta of a daily report, and the sum that the property writes down.
DeltaOf(daily, day) == CHOOSE n \in daily[day].riskDelta : TRUE

TotalOfDaily(daily, later) ==
  MapThenSumSet(LAMBDA day : CHOOSE n \in daily[day].riskDelta : TRUE, later)

LEMMA DailyTotalIsSum ==
  ASSUME NEW later, IsFiniteSet(later), NEW daily, NEW f, DOMAIN f = later,
         \A day \in later : f[day] \in Int /\ f[day] = DeltaOf(daily, day)
  PROVE  \E iter : IsSum(iter, f, later) /\ TotalOfDaily(daily, later) = iter[later]
<1> DEFINE Chosen(day) == DeltaOf(daily, day)
           Adding(iter) ==
             iter = [s \in SUBSET later |->
                       IF s = {} THEN 0 ELSE Chosen(First(s)) + iter[s \ {First(s)}]]
           it == CHOOSE iter : Adding(iter)
<1>1. PICK i : Summing(i, f)
  BY SummingExists
<1>2. ASSUME NEW iter PROVE Summing(iter, f) <=> Adding(iter)
  <2>1. \A s \in SUBSET later : s # {} => f[First(s)] = Chosen(First(s))
    <3>1. \A s \in SUBSET later : s # {} => First(s) \in later
      BY DEF First
    <3> QED
      BY <3>1
  <2> HIDE DEF Chosen
  <2>2. [s \in SUBSET later |->
           IF s = {} THEN 0 ELSE f[First(s)] + iter[s \ {First(s)}]]
        = [s \in SUBSET later |->
             IF s = {} THEN 0 ELSE Chosen(First(s)) + iter[s \ {First(s)}]]
    BY <2>1
  <2> QED
    BY <2>2 DEF Summing
<1>3. Adding(it)
  <2> HIDE DEF Adding
  <2>1. Adding(i)
    BY <1>1, <1>2
  <2> QED
    BY <2>1
<1>4. Summing(it, f)
  <2> HIDE DEF Adding, it
  <2> QED
    BY <1>2, <1>3
<1>5. TotalOfDaily(daily, later) = it[later]
  BY DEF TotalOfDaily, DeltaOf, MapThenSumSet, MapThenFoldSet, First
<1> HIDE DEF it
<1>6. IsSum(it, f, later)
  BY <1>4, SumsOfIntegers
<1> QED
  BY <1>5, <1>6

\* Snapshots with their numbers, no two of them of one date.
OnePerDate(rows) ==
  /\ \A row \in rows : /\ row.result.reference \in Nat /\ row.analyzedAt \in Nat
                       /\ row.result.score \in Int
  /\ \A row, other \in rows : row.result.reference = other.result.reference => row = other

DatesOf(rows) == {row.result.reference : row \in rows}

\* The row of the greatest date is the last one, that of the least date the first.
LEMMA EndsByDate ==
  ASSUME NEW rows, OnePerDate(rows), NEW S \in SUBSET rows, NEW row \in S
  PROVE  /\ (\A other \in S : other.result.reference <= row.result.reference)
              => LastByDate(S) = row
         /\ (\A other \in S : row.result.reference <= other.result.reference)
              => FirstByDate(S) = row
<1>1. /\ \A other \in S : other.result.reference \in Nat /\ other.analyzedAt \in Nat
      /\ \A one, other \in S : one.result.reference = other.result.reference => one = other
  BY DEF OnePerDate
<1>2. ASSUME NEW one \in S, NEW other \in S
      PROVE  Precedes(one, other) <=> one.result.reference < other.result.reference
  <2>1. one = other => ~(one.analyzedAt < other.analyzedAt)
    BY <1>1
  <2> QED
    BY <1>1, <2>1 DEF Precedes
<1>3. ASSUME \A other \in S : other.result.reference <= row.result.reference
      PROVE  LastByDate(S) = row
  <2>1. \A other \in S : ~Precedes(row, other)
    BY <1>1, <1>2, <1>3
  <2>2. ASSUME NEW one \in S, \A other \in S : ~Precedes(one, other) PROVE one = row
    <3>1. ~(one.result.reference < row.result.reference)
      BY <1>2, <2>2
    <3>2. one.result.reference = row.result.reference
      BY <1>1, <1>3, <3>1
    <3> QED
      BY <1>1, <3>2
  <2> QED
    BY <2>1, <2>2 DEF LastByDate
<1>4. ASSUME \A other \in S : row.result.reference <= other.result.reference
      PROVE  FirstByDate(S) = row
  <2>1. \A other \in S : ~Precedes(other, row)
    BY <1>1, <1>2, <1>4
  <2>2. ASSUME NEW one \in S, \A other \in S : ~Precedes(other, one) PROVE one = row
    <3>1. ~(row.result.reference < one.result.reference)
      BY <1>2, <2>2
    <3>2. one.result.reference = row.result.reference
      BY <1>1, <1>4, <3>1
    <3> QED
      BY <1>1, <3>2
  <2> QED
    BY <2>1, <2>2 DEF FirstByDate
<1> QED
  BY <1>3, <1>4

\* The row of a date.
LEMMA RowOfDate ==
  ASSUME NEW rows, OnePerDate(rows), NEW row \in rows
  PROVE  OnDate(rows, row.result.reference) = {row}
  BY DEF OnDate, OnePerDate

\* The risks of some rows are those of each.
LEMMA KeysOfRows ==
  ASSUME NEW d, NEW rows, NEW key
  PROVE  key \in RiskKeys(d, rows) <=> \E row \in rows : key \in RiskKeys(d, {row})
  BY DEF RiskKeys

ComparesTo(report, d, row, last) ==
  /\ report.riskDelta = {row.result.score - last.result.score}
  /\ report.newRisks = RiskKeys(d, {row}) \ RiskKeys(d, {last})
  /\ report.resolvedRisks = RiskKeys(d, {last}) \ RiskKeys(d, {row})

\* A daily report compares the row of its date with that of the date just before.
LEMMA DailyCompares ==
  ASSUME NEW d, NEW rows, OnePerDate(rows), NEW row \in rows, NEW last \in rows,
         JustBefore(DatesOf(rows), last.result.reference, row.result.reference)
  PROVE  ComparesTo(DailyReport(d, rows, row.result.reference), d, row, last)
<1> DEFINE day == row.result.reference
           earlier == {other \in rows : other.result.reference < day}
           report == DailyReport(d, rows, day)
<1>1. LastByDate(OnDate(rows, day)) = row
  <2>1. \A other \in {row} : other.result.reference <= row.result.reference
    BY DEF OnePerDate
  <2>2. LastByDate({row}) = row
    BY <2>1, EndsByDate
  <2> QED
    BY <2>2, RowOfDate
<1>2. Earlier(rows, day) = {last}
  <2>1. last \in earlier
    BY DEF JustBefore
  <2>2. \A other \in earlier : other.result.reference <= last.result.reference
    BY DEF JustBefore, DatesOf
  <2>3. LastByDate(earlier) = last
    <3>1. earlier \in SUBSET rows
      OBVIOUS
    <3> HIDE DEF earlier
    <3> QED
      BY <2>1, <2>2, <3>1, EndsByDate
  <2> QED
    BY <2>1, <2>3 DEF Earlier
<1>3. CompareSnapshots(row, {last}, rows).delta = {row.result.score - last.result.score}
  BY DEF CompareSnapshots, ComparedWith, ScoreDelta
<1> HIDE DEF day
<1>4. /\ report.riskDelta = CompareSnapshots(row, {last}, rows).delta
      /\ report.newRisks = RiskKeys(d, {row}) \ RiskKeys(d, {last})
      /\ report.resolvedRisks = RiskKeys(d, {last}) \ RiskKeys(d, {row})
  BY <1>1, <1>2 DEF DailyReport
<1> QED
  BY <1>3, <1>4 DEF day, ComparesTo

\* The reports of the rows of one scope tell the same story.
ReportsAddUp(d, rows) ==
  \A start, end \in DatesOf(rows) : start < end =>
    LET weekly == WeeklyReport(d, rows, start, end)
        later == LaterDates(DatesOf(rows), start, end)
        daily == [day \in later |-> DailyReport(d, rows, day)]
    IN  /\ \A day \in later : daily[day].riskDelta # {}
        /\ MapThenSumSet(LAMBDA day : CHOOSE n \in daily[day].riskDelta : TRUE, later)
              = weekly.scoreChange
        /\ weekly.newRisks = (UNION {daily[day].newRisks : day \in later})
                               \ RiskKeys(d, OnDate(rows, start))
        /\ weekly.resolvedRisks = (UNION {daily[day].resolvedRisks : day \in later})
                                    \ RiskKeys(d, OnDate(rows, end))

LEMMA ReportsOfRows ==
  ASSUME NEW d, NEW rows, OnePerDate(rows)
  PROVE  ReportsAddUp(d, rows)
<1> SUFFICES
      ASSUME NEW start \in DatesOf(rows), NEW end \in DatesOf(rows), start < end
      PROVE  LET weekly == WeeklyReport(d, rows, start, end)
                 later == LaterDates(DatesOf(rows), start, end)
                 daily == [day \in later |-> DailyReport(d, rows, day)]
             IN  /\ \A day \in later : daily[day].riskDelta # {}
                 /\ TotalOfDaily(daily, later) = weekly.scoreChange
                 /\ weekly.newRisks = (UNION {daily[day].newRisks : day \in later})
                                        \ RiskKeys(d, OnDate(rows, start))
                 /\ weekly.resolvedRisks = (UNION {daily[day].resolvedRisks : day \in later})
                                             \ RiskKeys(d, OnDate(rows, end))
  BY DEF ReportsAddUp, TotalOfDaily
<1> DEFINE dates == DatesOf(rows)
           weekly == WeeklyReport(d, rows, start, end)
           later == LaterDates(dates, start, end)
           daily == [day \in later |-> DailyReport(d, rows, day)]
           at == [day \in dates |-> CHOOSE row \in rows : row.result.reference = day]
           score == [day \in dates |-> at[day].result.score]
           keysAt == [day \in dates |-> RiskKeys(d, {at[day]})]
           f == [day \in later |-> CHOOSE n \in daily[day].riskDelta : TRUE]
           new == [day \in later |-> daily[day].newRisks]
           resolved == [day \in later |-> daily[day].resolvedRisks]
<1>1. /\ dates \in SUBSET Nat /\ start \in dates /\ end \in dates
      /\ \A day \in later : day \in dates /\ start < day /\ day <= end
  BY DEF DatesOf, OnePerDate, LaterDates
<1>2. \A day \in dates : at[day] \in rows /\ at[day].result.reference = day
  BY DEF DatesOf
<1>3. \A day \in dates : OnDate(rows, day) = {at[day]}
  <2>1. \A row \in rows : OnDate(rows, row.result.reference) = {row}
    BY RowOfDate
  <2> HIDE DEF at, dates
  <2> QED
    BY <1>2, <2>1
<1>4. ASSUME NEW day \in later, NEW before \in dates, JustBefore(dates, before, day)
      PROVE  /\ daily[day].riskDelta = {score[day] - score[before]}
             /\ daily[day].newRisks = keysAt[day] \ keysAt[before]
             /\ daily[day].resolvedRisks = keysAt[before] \ keysAt[day]
  <2> DEFINE report == DailyReport(d, rows, day)
  <2>1. /\ at[day] \in rows /\ at[day].result.reference = day
        /\ at[before] \in rows /\ at[before].result.reference = before
        /\ score[day] = at[day].result.score /\ score[before] = at[before].result.score
        /\ keysAt[day] = RiskKeys(d, {at[day]}) /\ keysAt[before] = RiskKeys(d, {at[before]})
        /\ daily[day] = report
    <3>1. day \in dates
      BY <1>1
    <3> QED
      BY <1>2, <3>1
  <2> HIDE DEF at, score, keysAt, daily, later
  <2> DEFINE row == at[day]
             last == at[before]
  <2>2. /\ row \in rows /\ last \in rows
        /\ JustBefore(DatesOf(rows), last.result.reference, row.result.reference)
    BY <1>4, <2>1
  <2> HIDE DEF row, last
  <2>3. ComparesTo(DailyReport(d, rows, row.result.reference), d, row, last)
    BY <2>2, DailyCompares
  <2>4. row.result.reference = day
    BY <2>1 DEF row
  <2> HIDE DEF report
  <2> QED
    BY <2>1, <2>3, <2>4 DEF report, row, last, ComparesTo
<1>5. \A day \in dates : score[day] \in Int
  BY <1>2 DEF OnePerDate
<1>6. \A day \in later : \E before \in dates : JustBefore(dates, before, day)
  <2>1. \A day \in later : day \in Nat /\ start < day
    BY <1>1
  <2> HIDE DEF dates, later
  <2> QED
    BY <1>1, <2>1, JustBeforeExists
<1>7. /\ \A day \in later : daily[day].riskDelta # {}
      /\ AreDifferences(f, score, dates, later)
  <2>1. \A day \in later : f[day] = CHOOSE n \in daily[day].riskDelta : TRUE
    OBVIOUS
  <2> HIDE DEF dates, later, daily, f, score, keysAt, at
  <2>2. \A day \in later : daily[day].riskDelta # {}
    BY <1>4, <1>6
  <2>3. \A day \in later, before \in dates :
          JustBefore(dates, before, day) => f[day] = score[day] - score[before]
    BY <1>4, <2>1
  <2>4. ASSUME NEW day \in later PROVE f[day] \in Int
    <3>1. PICK before \in dates : JustBefore(dates, before, day)
      BY <1>6
    <3>2. f[day] = score[day] - score[before] /\ day \in dates
      BY <1>1, <2>3, <3>1
    <3>3. score[day] \in Int /\ score[before] \in Int
      BY <1>5, <3>2
    <3> QED
      BY <3>2, <3>3
  <2> QED
    BY <2>2, <2>3, <2>4 DEF AreDifferences
<1>8. TotalOfDaily(daily, later) = score[end] - score[start]
  <2>1. IsFiniteSet(later)
    <3>1. start \in Nat /\ end \in Nat
      BY <1>1
    <3>2. \A day \in later : day \in 1..end
      BY <1>1, <3>1
    <3> HIDE DEF later
    <3> QED
      BY <3>1, <3>2, IntervalIsFinite
  <2>2. \A day \in later : f[day] = DeltaOf(daily, day)
    BY DEF DeltaOf
  <2>3. DOMAIN f = later /\ later = LaterDates(dates, start, end)
    OBVIOUS
  <2> HIDE DEF later, daily, f, score, dates
  <2>4. \A day \in later : f[day] \in Int
    BY <1>7 DEF AreDifferences
  <2>5. PICK iter : IsSum(iter, f, later) /\ TotalOfDaily(daily, later) = iter[later]
    BY <2>1, <2>2, <2>3, <2>4, DailyTotalIsSum
  <2>6. iter[later] = score[end] - score[start]
    BY <1>1, <1>5, <1>7, <2>1, <2>3, <2>5, DifferencesTelescope
  <2> QED
    BY <2>5, <2>6
<1> DEFINE within == Within(rows, start, end)
<1>9. LastByDate(within) = at[end] /\ FirstByDate(within) = at[start]
  <2>1. /\ within \in SUBSET rows /\ at[start] \in within /\ at[end] \in within
        /\ \A other \in within : other.result.reference <= at[end].result.reference
        /\ \A other \in within : at[start].result.reference <= other.result.reference
    <3>1. start \in Nat /\ end \in Nat
      BY <1>1
    <3> HIDE DEF at, dates
    <3> QED
      BY <1>1, <1>2, <3>1 DEF Within
  <2> HIDE DEF within, at
  <2> QED
    BY <2>1, EndsByDate
<1>10. /\ weekly.scoreChange = score[end] - score[start]
       /\ weekly.newRisks = RiskKeys(d, within) \ keysAt[start]
       /\ weekly.resolvedRisks = RiskKeys(d, within) \ keysAt[end]
  <2>1. /\ score[end] = at[end].result.score /\ score[start] = at[start].result.score
        /\ keysAt[end] = RiskKeys(d, {at[end]}) /\ keysAt[start] = RiskKeys(d, {at[start]})
    BY <1>1
  <2> HIDE DEF at, score, keysAt
  <2> QED
    BY <1>9, <2>1 DEF WeeklyReport
<1>11. RiskKeys(d, within) = ShownWithin(keysAt, dates, start, end)
  <2> SUFFICES ASSUME NEW key
               PROVE  key \in RiskKeys(d, within)
                        <=> \E day \in dates : start <= day /\ day <= end /\ key \in keysAt[day]
    BY DEF ShownWithin
  <2>1. \A day \in dates : keysAt[day] = RiskKeys(d, {at[day]})
    OBVIOUS
  <2>2. key \in RiskKeys(d, within) <=> \E row \in within : key \in RiskKeys(d, {row})
    BY KeysOfRows
  <2>3. \A row \in rows : row.result.reference \in dates /\ at[row.result.reference] = row
    BY DEF DatesOf, OnePerDate
  <2>4. /\ \A row \in within : /\ row \in rows /\ start <= row.result.reference
                               /\ row.result.reference <= end
        /\ \A day \in dates : start <= day /\ day <= end => at[day] \in within
    <3>1. /\ start \in Nat /\ end \in Nat
          /\ \A row \in rows : row.result.reference \in Nat
      BY <1>1 DEF OnePerDate
    <3> HIDE DEF dates, at
    <3> QED
      BY <1>2, <3>1 DEF Within
  <2> HIDE DEF dates, at, keysAt, within
  <2>5. ASSUME key \in RiskKeys(d, within)
        PROVE  \E day \in dates : start <= day /\ day <= end /\ key \in keysAt[day]
    <3>1. PICK row \in within : key \in RiskKeys(d, {row})
      BY <2>2, <2>5
    <3> DEFINE day == row.result.reference
    <3>2. day \in dates /\ at[day] = row /\ start <= day /\ day <= end
      BY <2>3, <2>4
    <3> HIDE DEF day
    <3>3. key \in keysAt[day]
      BY <2>1, <3>1, <3>2
    <3> QED
      BY <3>2, <3>3
  <2>6. ASSUME NEW day \in dates, start <= day, day <= end, key \in keysAt[day]
        PROVE  key \in RiskKeys(d, within)
    <3>1. at[day] \in within /\ keysAt[day] = RiskKeys(d, {at[day]})
      BY <2>1, <2>4, <2>6
    <3> QED
      BY <2>2, <2>6, <3>1
  <2> QED
    BY <2>5, <2>6
<1>12. RiskKeys(d, OnDate(rows, start)) = keysAt[start] /\ RiskKeys(d, OnDate(rows, end)) = keysAt[end]
  BY <1>1, <1>3
<1>13. /\ UNION {daily[day].newRisks : day \in later} = AllOf(new, later)
       /\ UNION {daily[day].resolvedRisks : day \in later} = AllOf(resolved, later)
  <2> HIDE DEF later, daily
  <2> QED
    BY DEF AllOf
<1>14. Come(new, keysAt, dates, later) /\ Go(resolved, keysAt, dates, later)
  <2>1. \A day \in later : new[day] = daily[day].newRisks /\ resolved[day] = daily[day].resolvedRisks
    OBVIOUS
  <2> HIDE DEF dates, at, keysAt, later, daily, new, resolved
  <2> QED
    BY <1>4, <2>1 DEF Come, Go
<1>15. /\ ShownWithin(keysAt, dates, start, end) \ keysAt[start] = AllOf(new, later) \ keysAt[start]
       /\ ShownWithin(keysAt, dates, start, end) \ keysAt[end] = AllOf(resolved, later) \ keysAt[end]
  <2>1. later = LaterDates(dates, start, end)
    OBVIOUS
  <2> HIDE DEF dates, keysAt, later, new, resolved
  <2>2. ShownWithin(keysAt, dates, start, end) \ keysAt[start] = AllOf(new, later) \ keysAt[start]
    BY <1>1, <1>14, <2>1, NewOnesAppear
  <2>3. ShownWithin(keysAt, dates, start, end) \ keysAt[end] = AllOf(resolved, later) \ keysAt[end]
    BY <1>1, <1>14, <2>1, ResolvedOnesGo
  <2> QED
    BY <2>2, <2>3
<1>16. /\ weekly.newRisks = (UNION {daily[day].newRisks : day \in later})
                              \ RiskKeys(d, OnDate(rows, start))
       /\ weekly.resolvedRisks = (UNION {daily[day].resolvedRisks : day \in later})
                                   \ RiskKeys(d, OnDate(rows, end))
  <2> DEFINE comes == UNION {daily[day].newRisks : day \in later}
             goes == UNION {daily[day].resolvedRisks : day \in later}
  <2>1. comes = AllOf(new, later) /\ goes = AllOf(resolved, later)
    BY <1>13
  <2> HIDE DEF weekly, keysAt, new, resolved, later, within, dates, comes, goes
  <2>2. /\ weekly.newRisks = comes \ RiskKeys(d, OnDate(rows, start))
        /\ weekly.resolvedRisks = goes \ RiskKeys(d, OnDate(rows, end))
    BY <1>10, <1>11, <1>12, <1>15, <2>1
  <2> HIDE DEF daily
  <2> QED
    BY <2>2 DEF comes, goes
<1>17. TotalOfDaily(daily, later) = weekly.scoreChange
  BY <1>8, <1>10
<1> QED
  BY <1>7, <1>16, <1>17

\* Two snapshots never hold the same result, since an analysis that gives it again
\* stores none.
RowsAreApart == \A row, other \in snapshots : row.result = other.result => row = other

ReportInv == ProjectInv /\ RowsAreApart

LEMMA NextReportInv == ReportInv /\ [ProjectNext]_projectVars => ReportInv'
<1> SUFFICES ASSUME ReportInv, [ProjectNext]_projectVars PROVE ReportInv'
  OBVIOUS
<1>1. ProjectInv'
  BY ProjectStepInv DEF ReportInv
<1>2. ASSUME InsertSnapshot
      PROVE  RowsAreApart'
  <2>1. PICK result, previous :
          /\ \A row \in snapshots : row.result # result
          /\ snapshots' = snapshots \cup {Row(analyses + 1, previous, result)}
    BY <1>2 DEF InsertSnapshot, Insertable, AlreadyStored
  <2> DEFINE added == Row(analyses + 1, previous, result)
  <2>2. added.result = result
    BY DEF Row
  <2> HIDE DEF added
  <2>3. snapshots' = snapshots \cup {added} /\ \A row \in snapshots : row.result # added.result
    BY <2>1, <2>2 DEF added
  <2> QED
    BY <2>3 DEF ReportInv, RowsAreApart
<1>3. ASSUME NEW c \in Callers, Ingest(c)
      PROVE  RowsAreApart'
  <2>1. snapshots' = snapshots \/ snapshots' = {}
    BY <1>3 DEF Ingest, Refuse, Unhandled, LookUp, Skip, Load, ClearSnapshots, LoadError,
                WriteLog, Die, serverVars, analysisVars
  <2> QED
    BY <2>1 DEF ReportInv, RowsAreApart
<1>4. ASSUME UNCHANGED projectVars PROVE RowsAreApart'
  BY <1>4 DEF ReportInv, RowsAreApart, projectVars, analysisVars
<1>5. ASSUME Analyses, ~InsertSnapshot PROVE RowsAreApart'
  <2>1. snapshots' = snapshots
    BY <1>5 DEF Analyses, BeginAnalysis, ReadTable, LinkSnapshot, EndAnalysis
  <2> QED
    BY <2>1 DEF ReportInv, RowsAreApart
<1>6. RowsAreApart'
  BY <1>2, <1>3, <1>4, <1>5 DEF ProjectNext
<1> QED
  BY <1>1, <1>6 DEF ReportInv

\* The daily reports of a period add up to its weekly report, for all payloads and
\* valid policies: one scope has one snapshot of a date, so that the last snapshot of
\* an earlier date, with which a daily report compares, is that of the report before.
THEOREM ReportsTelescopeHolds == ProjectSpec => []ReportsTelescope
<1>1. ProjectInit => ReportInv
  BY ProjectInitInv DEF ReportInv, RowsAreApart, ProjectInit
<1>2. ReportInv /\ [ProjectNext]_projectVars => ReportInv'
  BY NextReportInv
<1>3. ReportInv => ReportsTelescope
  <2> SUFFICES ASSUME ReportInv, NEW sprint \in Scopes, OfScope(snapshots, sprint) \subseteq Current
               PROVE  ReportsAddUp(Datasets[data], OfScope(snapshots, sprint))
    BY DEF ReportsTelescope, ReportsAddUp, DatesOf, LaterDates
  <2> DEFINE rows == OfScope(snapshots, sprint)
  <2>1. OnePerDate(rows)
    <3>1. ASSUME NEW row \in Current
          PROVE  /\ row.result.reference \in Nat /\ row.analyzedAt \in Nat
                 /\ row.result = Assessment(Datasets[data], row.result.sprint, row.result.reference)
                 /\ row.result.score \in Int
      <4>1. /\ data \in Payloads /\ row.result.reference \in Nat /\ row.analyzedAt \in Nat
            /\ row.result = Assessment(Datasets[data], row.result.sprint, row.result.reference)
        BY CurrentIsOfTheData DEF ReportInv
      <4> DEFINE result == Assessment(Datasets[data], row.result.sprint, row.result.reference)
      <4>2. TotalOf(result.contributions) \in Nat /\ result.score = Round(TotalOf(result.contributions), 10)
        BY <4>1, PayloadsAreTables, ScoreOfAssessment
      <4> HIDE DEF result
      <4>3. \A n \in Nat : Round(n, 10) \in Int
        BY DEF Round
      <4>4. row.result = result
        BY <4>1 DEF result
      <4> QED
        BY <4>1, <4>2, <4>3, <4>4
    <3>2. rows \in SUBSET Current /\ Current \in SUBSET snapshots
          /\ \A row \in rows : row.result.sprint = sprint
      BY DEF OfScope, Current
    <3> HIDE DEF rows
    <3>3. ASSUME NEW row \in rows, NEW other \in rows, row.result.reference = other.result.reference
          PROVE  row = other
      <4>1. row.result = other.result
        BY <3>1, <3>2, <3>3
      <4> QED
        BY <3>2, <4>1 DEF ReportInv, RowsAreApart
    <3> QED
      BY <3>1, <3>2, <3>3 DEF OnePerDate
  <2> HIDE DEF rows
  <2> QED
    BY <2>1, ReportsOfRows DEF rows
<1> QED
  BY <1>1, <1>2, <1>3, PTL DEF ProjectSpec
--------------------------------------------------------------------------------
(* Data that only ages.                                                        *)

\* Rounding keeps the order.
LEMMA RoundMonotonic ==
  ASSUME NEW d \in Nat \ {0}, NEW m \in Nat, NEW n \in Nat, m <= n
  PROVE  /\ Round(m, d) \in Nat /\ Round(n, d) \in Nat
         /\ Round(m, d) <= Round(n, d)
<1> DEFINE p == m \div d
           r == m % d
           q == n \div d
           s == n % d
<1>1. /\ p \in Nat /\ r \in Nat /\ m = d * p + r /\ r < d
      /\ q \in Nat /\ s \in Nat /\ n = d * q + s /\ s < d
  BY Division
<1>2. /\ Round(m, d) = IF 2 * r > d \/ (2 * r = d /\ p \in HalvesUp) THEN p + 1 ELSE p
      /\ Round(n, d) = IF 2 * s > d \/ (2 * s = d /\ q \in HalvesUp) THEN q + 1 ELSE q
  BY DEF Round
<1> HIDE DEF p, q, r, s
<1>3. p <= q
  <2> SUFFICES ASSUME p > q PROVE FALSE
    BY <1>1
  <2>1. d * p >= q * d + d
    BY <1>1, NextMultiple
  <2>2. d * q = q * d /\ d * q \in Nat /\ d * p \in Nat
    BY <1>1
  <2> QED
    BY <1>1, <2>1, <2>2
<1>4. CASE p = q
  <2>1. r <= s
    <3>1. d * p \in Nat /\ d * p = d * q
      BY <1>1, <1>4
    <3> QED
      BY <1>1, <3>1
  <2> QED
    BY <1>1, <1>2, <1>4, <2>1
<1>5. CASE p # q
  BY <1>1, <1>2, <1>3, <1>5
<1> QED
  BY <1>4, <1>5

LEMMA ClampMonotonic == \A m, n \in Int : m <= n => Clamp(m) <= Clamp(n)
  BY DEF Clamp, Scale

\* Findings are made up for by others if each has one of its own with at least its signal.
MadeUpFor(findings, others) ==
  \E other \in [findings -> others] :
    /\ \A f, g \in findings : other[f] = other[g] => f = g
    /\ \A f \in findings : f.signal <= other[f].signal

LEMMA SignalMonotonic ==
  ASSUME NEW policy \in Policies,
         NEW findings, IsFiniteSet(findings), \A f \in findings : f.signal \in 0..Scale,
         NEW others, IsFiniteSet(others), \A f \in others : f.signal \in 0..Scale,
         MadeUpFor(findings, others)
  PROVE  Signal(policy, findings) <= Signal(policy, others)
<1>1. Signal(policy, {}) = 0 /\ Signal(policy, others) \in 0..Scale
  BY SignalBounded
<1>2. CASE findings = {}
  <2>1. 0 <= Signal(policy, others)
    BY <1>1, Literals, IntervalNumbers
  <2> QED
    BY <1>1, <1>2, <2>1
<1>3. CASE findings # {}
  <2>1. PICK other \in [findings -> others] :
          /\ \A f, g \in findings : other[f] = other[g] => f = g
          /\ \A f \in findings : f.signal <= other[f].signal
    BY DEF MadeUpFor
  <2>2. others # {}
    BY <1>3, <2>1
  <2> DEFINE m == Max({f.signal : f \in findings})
             n == Max({f.signal : f \in others})
             a == Cardinality(findings) - 1
             b == Cardinality(others) - 1
  <2>3. ASSUME NEW S, IsFiniteSet(S), S # {}, \A f \in S : f.signal \in 0..Scale
        PROVE  /\ Max({f.signal : f \in S}) \in {f.signal : f \in S}
               /\ \A f \in S : f.signal \in Int /\ f.signal <= Max({g.signal : g \in S})
    <3> DEFINE of == [f \in S |-> f.signal]
               signals == {of[f] : f \in S}
    <3>1. \A f \in S : of[f] = f.signal /\ f.signal \in Int
      BY <2>3, IntervalNumbers, Literals
    <3>2. of = [f \in S |-> of[f]] /\ signals = {f.signal : f \in S}
      OBVIOUS
    <3> HIDE DEF of
    <3>3. IsFiniteSet(signals)
      BY <2>3, <3>2, ImageIsFinite
    <3>4. signals \in SUBSET Int /\ signals # {}
      BY <2>3, <3>1
    <3>5. \A f \in S : f.signal \in signals
      BY <3>1
    <3> HIDE DEF signals
    <3>6. Max(signals) \in signals /\ \A y \in signals : y <= Max(signals)
      BY <3>3, <3>4, MaxIsElement
    <3> QED
      BY <3>1, <3>2, <3>5, <3>6
  <2>4. m \in Int /\ n \in Int /\ m <= n
    <3>1. /\ m \in {f.signal : f \in findings} /\ n \in {f.signal : f \in others}
          /\ \A f \in findings : f.signal \in Int
          /\ \A f \in others : f.signal \in Int /\ f.signal <= n
      BY <1>3, <2>2, <2>3
    <3> HIDE DEF m, n
    <3>2. PICK f \in findings : m = f.signal
      BY <3>1
    <3>3. other[f] \in others
      BY <2>1
    <3> QED
      BY <2>1, <3>1, <3>2, <3>3
  <2>5. a \in Nat /\ b \in Nat /\ a <= b
    <3>1. Cardinality(findings) \in Nat /\ Cardinality(others) \in Nat
      BY FS_CardinalityType
    <3>2. Cardinality(findings) # 0
      BY <1>3, FS_EmptySet
    <3>3. other \in Injection(findings, others)
      BY <2>1 DEF Injection, IsInjective
    <3>4. Cardinality(findings) <= Cardinality(others)
      BY <3>3, FS_Injection
    <3> QED
      BY <3>1, <3>2, <3>4
  <2>6. /\ Signal(policy, findings) = Clamp(m + policy.bonus * a)
        /\ Signal(policy, others) = Clamp(n + policy.bonus * b)
    BY <1>3, <2>2 DEF Signal
  <2> HIDE DEF m, n, a, b
  <2>7. /\ policy.bonus * a \in Nat /\ policy.bonus * b \in Nat
        /\ policy.bonus * a <= policy.bonus * b
    <3>1. policy.bonus \in Nat /\ policy.bonus <= policy.bonus
      BY PolicyBounds
    <3> QED
      BY <2>5, <3>1, ProductBounded
  <2>8. /\ m + policy.bonus * a \in Int /\ n + policy.bonus * b \in Int
        /\ m + policy.bonus * a <= n + policy.bonus * b
    BY <2>4, <2>7
  <2> QED
    BY <2>6, <2>8, ClampMonotonic
<1> QED
  BY <1>2, <1>3

\* A score is no lower when the findings of each policy are made up for.
LEMMA ScoreMonotonic ==
  ASSUME NEW findings, IsFiniteSet(findings), \A f \in findings : f.signal \in 0..Scale,
         NEW others, IsFiniteSet(others), \A f \in others : f.signal \in 0..Scale,
         \A policy \in Enabled : MadeUpFor(OfPolicy(policy, findings), OfPolicy(policy, others))
  PROVE  TotalOf(Contributions(findings)) <= TotalOf(Contributions(others))
<1> DEFINE ids == {policy.id : policy \in Enabled}
           a == Contributions(findings)
           b == Contributions(others)
           more == [id \in ids |-> b[id] - a[id]]
<1>1. /\ DOMAIN a = ids /\ DOMAIN b = ids
      /\ \A id \in ids : a[id] \in Int /\ b[id] \in Int
  <2>1. /\ DOMAIN a = ids /\ \A id \in ids : a[id] \in 0..FullTotal
        /\ DOMAIN b = ids /\ \A id \in ids : b[id] \in 0..FullTotal
    BY ContributionsBounded
  <2> HIDE DEF a, b
  <2> QED
    BY <2>1, Literals, IntervalNumbers
<1>2. ASSUME NEW id \in ids PROVE a[id] <= b[id]
  <2> DEFINE policy == CHOOSE policy \in Enabled : policy.id = id
             v == Signal(policy, OfPolicy(policy, findings))
             w == Signal(policy, OfPolicy(policy, others))
             weight == 100 * policy.weight
  <2>1. policy \in Enabled /\ policy \in Policies
    BY EnabledById
  <2>2. a[id] = Round(weight * v, Scale) /\ b[id] = Round(weight * w, Scale)
    BY DEF Contributions
  <2> HIDE DEF policy
  <2>3. policy.weight \in 0..100
    BY <2>1, PolicyBounds
  <2>4. weight \in Nat /\ weight <= weight
    BY <2>3
  <2>5. v \in 0..Scale /\ w \in 0..Scale /\ v <= w
    <3>1. /\ IsFiniteSet(OfPolicy(policy, findings)) /\ IsFiniteSet(OfPolicy(policy, others))
          /\ \A f \in OfPolicy(policy, findings) : f.signal \in 0..Scale
          /\ \A f \in OfPolicy(policy, others) : f.signal \in 0..Scale
      BY FS_Subset DEF OfPolicy
    <3> QED
      BY <2>1, <3>1, SignalBounded, SignalMonotonic
  <2>6. v \in Nat /\ w \in Nat
    BY <2>5, Literals, IntervalNumbers
  <2> HIDE DEF v, w, weight, a, b
  <2>7. weight * v \in Nat /\ weight * w \in Nat /\ weight * v <= weight * w
    BY <2>4, <2>5, <2>6, ProductBounded
  <2> QED
    BY <2>2, <2>7, Literals, RoundMonotonic
<1>3. IsFiniteSet(ids)
  BY EnabledById
<1>4. DOMAIN more = ids /\ \A id \in ids : more[id] = b[id] - a[id] /\ more[id] \in Nat
  <2> HIDE DEF a, b, ids
  <2> QED
    BY <1>1, <1>2
<1> HIDE DEF ids, a, b, more
<1>5. /\ TotalOf(a) \in Int /\ TotalOf(b) \in Int
      /\ TotalOf(more) = TotalOf(b) - TotalOf(a)
  BY <1>1, <1>3, <1>4, TotalOfDifferences
<1>6. TotalOf(more) \in Nat
  BY <1>3, <1>4, TotalOfNumbers
<1>7. TotalOf(a) <= TotalOf(b)
  BY <1>5, <1>6
<1> QED
  BY <1>7 DEF a, b

\* The policies on what ages ask for more than a number and weigh by the number, as
\* those of qa-rules-v1.0 do.
Ageing == {"blocked_hours", "overdue_days"}

PoliciesWorsenWithAge ==
  \A policy \in Enabled : policy.condition.metric \in Ageing =>
    /\ policy.condition.operator \in {"greater_than", "greater_or_equal"}
    /\ policy.condition.values \subseteq Int
    /\ policy.strategy # "distance_below"

\* What an analysis looks at, and what a later one does that sees the same builds
\* and coverages.
OnlyAged(c, later) ==
  /\ IsContext(c) /\ IsContext(later)
  /\ later.tickets = c.tickets /\ later.sprints = c.sprints /\ later.sprint = c.sprint
  /\ c.sprints \subseteq Sprints
  /\ c.reference <= later.reference
  /\ VisibleBuilds(later) = VisibleBuilds(c) /\ VisibleCoverages(later) = VisibleCoverages(c)
  /\ \A t, u \in c.tickets : t.id = u.id => t = u

\* The findings of a policy are made of the facts of its metric.
LEMMA FindingsOfPolicy ==
  ASSUME NEW c, NEW policy \in Enabled
  PROVE  LET facts == {f \in CollectFacts(c) : /\ f.metric = policy.condition.metric
                                               /\ Compares(f.value, policy.condition)}
         IN  /\ \A fact \in facts : Finding(policy, fact) \in OfPolicy(policy, EvaluateRules(c))
             /\ \A f \in OfPolicy(policy, EvaluateRules(c)) :
                  \E fact \in facts : f = Finding(policy, fact)
<1> DEFINE facts == {f \in CollectFacts(c) : /\ f.metric = policy.condition.metric
                                             /\ Compares(f.value, policy.condition)}
<1>1. policy \in Policies /\ policy.enabled
  BY DEF Enabled
<1>2. EvaluatePolicy(policy, CollectFacts(c)) = {Finding(policy, fact) : fact \in facts}
  BY <1>1 DEF EvaluatePolicy
<1>3. \A other \in Policies : \A f \in EvaluatePolicy(other, CollectFacts(c)) : f.policy = other.id
  BY DEF EvaluatePolicy, Finding
<1>4. \A f : f \in EvaluateRules(c) <=>
               \E other \in Policies : f \in EvaluatePolicy(other, CollectFacts(c))
  BY DEF EvaluateRules
<1>5. \A other \in Policies : other.id = policy.id => other = policy
  BY <1>1, PolicySetIsValid DEF PolicySetAssumption
<1> HIDE DEF facts
<1>6. \A f : f \in OfPolicy(policy, EvaluateRules(c)) <=> f \in EvaluatePolicy(policy, CollectFacts(c))
  BY <1>1, <1>3, <1>4, <1>5 DEF OfPolicy
<1>7. /\ \A fact \in facts : Finding(policy, fact) \in OfPolicy(policy, EvaluateRules(c))
      /\ \A f \in OfPolicy(policy, EvaluateRules(c)) : \E fact \in facts : f = Finding(policy, fact)
  BY <1>2, <1>6
<1> QED
  BY <1>7 DEF facts

\* The facts of tickets age, and those of builds and coverages stay.
LEMMA FactsAge ==
  ASSUME NEW c, NEW later, OnlyAged(c, later), NEW fact \in CollectFacts(c)
  PROVE  /\ fact.metric \notin Ageing => fact \in CollectFacts(later)
         /\ fact.metric \in Ageing =>
              /\ \E aged \in CollectFacts(later) :
                   /\ aged.metric = fact.metric /\ aged.source = fact.source
                   /\ fact.value \in Int /\ aged.value \in Int /\ fact.value <= aged.value
              /\ \A other \in CollectFacts(c) :
                   other.metric = fact.metric /\ other.source = fact.source => other = fact
<1>1. /\ c.reference \in Nat /\ later.reference \in Nat /\ c.reference <= later.reference
      /\ later.tickets = c.tickets /\ later.sprints = c.sprints
      /\ \A t \in c.tickets : t \in Tickets
      /\ \A t, u \in c.tickets : t.id = u.id => t = u
  BY DEF OnlyAged, IsContext
<1>2. /\ \A t \in VisibleTickets(c) : t \in c.tickets /\ t \in VisibleTickets(later)
      /\ \A t : ActiveHighPriority(t, later) = ActiveHighPriority(t, c)
  <2>1. ASSUME NEW t \in VisibleTickets(c) PROVE t \in c.tickets /\ t \in VisibleTickets(later)
    <3>1. t \in c.tickets /\ Day(t.created) <= c.reference
      BY DEF VisibleTickets
    <3>2. t.created \in Nat
      BY <1>1, <3>1 DEF Tickets, Moments
    <3>3. Day(t.created) \in Int
      BY <3>2 DEF Day
    <3>4. Day(t.created) <= later.reference
      BY <1>1, <3>1, <3>3
    <3> QED
      BY <1>1, <3>1, <3>4 DEF VisibleTickets
  <2>2. \A t : ActiveHighPriority(t, later) = ActiveHighPriority(t, c)
    BY <1>1 DEF ActiveHighPriority
  <2> QED
    BY <2>1, <2>2
<1>3. /\ BlockedFacts(later) \subseteq CollectFacts(later)
      /\ OverdueFacts(later) \subseteq CollectFacts(later)
      /\ CriticalBugFacts(later) \subseteq CollectFacts(later)
      /\ BuildFacts(later) \subseteq CollectFacts(later)
      /\ MetricFacts(later) \subseteq CollectFacts(later)
  BY DEF CollectFacts, TicketFacts
<1>4. CASE fact \in BlockedFacts(c)
  <2>1. PICK t \in VisibleTickets(c) :
          /\ t.status = "blocked" /\ t.blockedSince # Null
          /\ fact = Fact("blocked_hours", BlockedHours(t, c), "ticket", t, t.blockedSince,
                         Flag(ActiveHighPriority(t, c)))
    BY <1>4 DEF BlockedFacts
  <2> DEFINE aged == Fact("blocked_hours", BlockedHours(t, later), "ticket", t, t.blockedSince,
                          Flag(ActiveHighPriority(t, later)))
  <2>2. aged \in BlockedFacts(later)
    BY <1>2, <2>1 DEF BlockedFacts
  <2>3. /\ BlockedHours(t, c) \in Int /\ BlockedHours(t, later) \in Int
        /\ BlockedHours(t, c) <= BlockedHours(t, later)
    <3>1. t.blockedSince \in Nat
      BY <1>1, <1>2 DEF Tickets
    <3> QED
      BY <1>1, <3>1 DEF BlockedHours, Midnight
  <2>4. /\ fact.metric = "blocked_hours" /\ aged.metric = "blocked_hours"
        /\ fact.source = t.id /\ aged.source = t.id
        /\ fact.value = BlockedHours(t, c) /\ aged.value = BlockedHours(t, later)
    BY <2>1 DEF Fact
  <2>5. ASSUME NEW other \in CollectFacts(c), other.metric = fact.metric, other.source = fact.source
        PROVE  other = fact
    <3>1. other \in BlockedFacts(c)
      BY <2>4, <2>5, FactsOfMetric
    <3>2. PICK u \in VisibleTickets(c) :
            other = Fact("blocked_hours", BlockedHours(u, c), "ticket", u, u.blockedSince,
                         Flag(ActiveHighPriority(u, c)))
      BY <3>1 DEF BlockedFacts
    <3>3. other.source = u.id
      BY <3>2 DEF Fact
    <3>4. u = t
      BY <1>1, <1>2, <2>4, <2>5, <3>3
    <3> QED
      BY <2>1, <3>2, <3>4
  <2> HIDE DEF aged
  <2> QED
    BY <1>3, <2>2, <2>3, <2>4, <2>5 DEF Ageing
<1>5. CASE fact \in OverdueFacts(c)
  <2>1. PICK t \in VisibleTickets(c) :
          /\ t.status # "done" /\ t.due # Null
          /\ fact = Fact("overdue_days", c.reference - t.due, "ticket", t, t.updated,
                         Flag(ActiveHighPriority(t, c)))
    BY <1>5 DEF OverdueFacts
  <2> DEFINE aged == Fact("overdue_days", later.reference - t.due, "ticket", t, t.updated,
                          Flag(ActiveHighPriority(t, later)))
  <2>2. aged \in OverdueFacts(later)
    BY <1>2, <2>1 DEF OverdueFacts
  <2>3. /\ c.reference - t.due \in Int /\ later.reference - t.due \in Int
        /\ c.reference - t.due <= later.reference - t.due
    <3>1. t.due \in Nat
      BY <1>1, <1>2 DEF Tickets
    <3> QED
      BY <1>1, <3>1
  <2>4. /\ fact.metric = "overdue_days" /\ aged.metric = "overdue_days"
        /\ fact.source = t.id /\ aged.source = t.id
        /\ fact.value = c.reference - t.due /\ aged.value = later.reference - t.due
    BY <2>1 DEF Fact
  <2>5. ASSUME NEW other \in CollectFacts(c), other.metric = fact.metric, other.source = fact.source
        PROVE  other = fact
    <3>1. other \in OverdueFacts(c)
      BY <2>4, <2>5, FactsOfMetric
    <3>2. PICK u \in VisibleTickets(c) :
            other = Fact("overdue_days", c.reference - u.due, "ticket", u, u.updated,
                         Flag(ActiveHighPriority(u, c)))
      BY <3>1 DEF OverdueFacts
    <3>3. other.source = u.id
      BY <3>2 DEF Fact
    <3>4. u = t
      BY <1>1, <1>2, <2>4, <2>5, <3>3
    <3> QED
      BY <2>1, <3>2, <3>4
  <2> HIDE DEF aged
  <2> QED
    BY <1>3, <2>2, <2>3, <2>4, <2>5 DEF Ageing
<1>6. CASE fact \in CriticalBugFacts(c)
  <2>1. fact.metric \notin Ageing
    BY <1>6, MetricsOfFacts DEF Ageing
  <2>2. fact \in CriticalBugFacts(later)
    BY <1>2, <1>6 DEF CriticalBugFacts
  <2> QED
    BY <1>3, <2>1, <2>2
<1>7. CASE fact \in BuildFacts(c)
  <2>1. fact.metric \notin Ageing
    BY <1>7, MetricsOfFacts DEF Ageing
  <2>2. BuildFacts(later) = BuildFacts(c)
    BY DEF BuildFacts, OnlyAged
  <2> QED
    BY <1>3, <1>7, <2>1, <2>2
<1>8. CASE fact \in MetricFacts(c)
  <2>1. fact.metric \notin Ageing
    BY <1>8, MetricsOfFacts DEF Ageing
  <2>2. MetricFacts(later) = MetricFacts(c)
    BY DEF MetricFacts, LatestCoverages, OnlyAged
  <2> QED
    BY <1>3, <1>8, <2>1, <2>2
<1> QED
  BY <1>4, <1>5, <1>6, <1>7, <1>8 DEF CollectFacts, TicketFacts

\* A signal grows with the value it is made of.
LEMMA NormalizeMonotonic ==
  ASSUME NEW policy \in Policies, policy.strategy # "distance_below",
         NEW fact, fact.value \in Int, fact.metric \in Ageing,
         NEW aged, aged.value \in Int, aged.metric = fact.metric, fact.value <= aged.value
  PROVE  Normalize(policy, fact) <= Normalize(policy, aged)
<1> DEFINE factor == Scale \div policy.divisor
<1>1. factor \in Nat
  BY PolicyBounds, Literals, Division
<1>2. fact.metric # "open_critical_bug"
  BY DEF Ageing
<1>3. /\ Normalize(policy, fact) = Clamp(IF policy.strategy = "boolean" THEN 0 ELSE fact.value * factor)
      /\ Normalize(policy, aged) = Clamp(IF policy.strategy = "boolean" THEN 0 ELSE aged.value * factor)
  BY <1>2 DEF Normalize
<1> HIDE DEF factor
<1>4. fact.value * factor \in Int /\ aged.value * factor \in Int
  BY <1>1
<1>5. fact.value * factor <= aged.value * factor
  <2> DEFINE v == fact.value
             w == aged.value
  <2>1. v \in Int /\ w \in Int /\ v <= w
    OBVIOUS
  <2> HIDE DEF v, w
  <2>2. v * factor <= w * factor
    BY <1>1, <2>1
  <2> QED
    BY <2>2 DEF v, w
<1>6. CASE policy.strategy = "boolean"
  <2>1. Clamp(0) <= Clamp(0)
    BY ClampMonotonic
  <2> QED
    BY <1>3, <1>6, <2>1
<1>7. CASE policy.strategy # "boolean"
  <2>1. Clamp(fact.value * factor) <= Clamp(aged.value * factor)
    BY <1>4, <1>5, ClampMonotonic
  <2> QED
    BY <1>3, <1>7, <2>1
<1> QED
  BY <1>6, <1>7

\* The findings of each policy are made up for by those of the later analysis.
LEMMA FindingsAge ==
  ASSUME PoliciesWorsenWithAge, NEW c, NEW later, OnlyAged(c, later), NEW policy \in Enabled
  PROVE  MadeUpFor(OfPolicy(policy, EvaluateRules(c)), OfPolicy(policy, EvaluateRules(later)))
<1> DEFINE findings == OfPolicy(policy, EvaluateRules(c))
           others == OfPolicy(policy, EvaluateRules(later))
<1>1. /\ \A f \in findings : f.signal \in 0..Scale
      /\ policy \in Policies
  BY FindingsSound DEF OnlyAged, OfPolicy, Enabled
<1>2. \A f \in findings : \E fact \in CollectFacts(c) :
        /\ fact.metric = policy.condition.metric /\ Compares(fact.value, policy.condition)
        /\ f = Finding(policy, fact)
  BY FindingsOfPolicy
<1>3. \A fact \in CollectFacts(later) :
        fact.metric = policy.condition.metric /\ Compares(fact.value, policy.condition)
          => Finding(policy, fact) \in others
  BY FindingsOfPolicy
<1>4. \A fact : /\ Finding(policy, fact).source = fact.source
                /\ Finding(policy, fact).signal = Normalize(policy, fact)
  BY DEF Finding
<1> HIDE DEF findings, others
<1>5. CASE policy.condition.metric \notin Ageing
  <2> DEFINE same == [f \in findings |-> f]
  <2>1. \A f \in findings : f \in others
    BY <1>2, <1>3, <1>5, FactsAge
  <2>2. \A f \in findings : f.signal <= f.signal
    <3>1. \A f \in findings : f.signal \in Int
      BY <1>1, Literals, IntervalNumbers
    <3> QED
      BY <3>1
  <2>3. /\ same \in [findings -> others]
        /\ \A f, g \in findings : same[f] = same[g] => f = g
        /\ \A f \in findings : f.signal <= same[f].signal
    BY <2>1, <2>2
  <2> QED
    BY <2>3 DEF MadeUpFor, findings, others
<1>6. CASE policy.condition.metric \in Ageing
  <2> DEFINE Worse(f, g) == g.source = f.source /\ f.signal <= g.signal
             older == [f \in findings |-> CHOOSE g \in others : Worse(f, g)]
  <2>1. ASSUME NEW f \in findings PROVE \E g \in others : Worse(f, g)
    <3>1. PICK fact \in CollectFacts(c) :
            /\ fact.metric = policy.condition.metric /\ Compares(fact.value, policy.condition)
            /\ f = Finding(policy, fact)
      BY <1>2
    <3>2. PICK aged \in CollectFacts(later) :
            /\ aged.metric = fact.metric /\ aged.source = fact.source
            /\ fact.value \in Int /\ aged.value \in Int /\ fact.value <= aged.value
      BY <1>6, <3>1, FactsAge
    <3>3. /\ policy.condition.operator \in {"greater_than", "greater_or_equal"}
          /\ policy.condition.values \subseteq Int
          /\ policy.strategy # "distance_below"
      BY <1>6 DEF PoliciesWorsenWithAge
    <3>4. Compares(aged.value, policy.condition)
      <4> DEFINE v == fact.value
                 w == aged.value
      <4>1. CASE policy.condition.operator = "greater_than"
        <5>1. PICK n \in policy.condition.values : v > n
          BY <3>1, <4>1 DEF Compares
        <5>2. w > n
          BY <3>2, <3>3, <5>1
        <5> QED
          BY <4>1, <5>2 DEF Compares
      <4>2. CASE policy.condition.operator = "greater_or_equal"
        <5>1. PICK n \in policy.condition.values : v >= n
          BY <3>1, <4>2 DEF Compares
        <5>2. w >= n
          BY <3>2, <3>3, <5>1
        <5> QED
          BY <4>2, <5>2 DEF Compares
      <4> QED
        BY <3>3, <4>1, <4>2
    <3>5. Normalize(policy, fact) <= Normalize(policy, aged)
      BY <1>1, <1>6, <3>1, <3>2, <3>3, NormalizeMonotonic
    <3>6. Finding(policy, aged) \in others
      BY <1>3, <3>1, <3>2, <3>4
    <3> QED
      BY <1>4, <3>1, <3>2, <3>5, <3>6
  <2>2. ASSUME NEW f \in findings, NEW g \in findings, f.source = g.source PROVE f = g
    BY <1>2, <1>4, <1>6, <2>2, FactsAge
  <2>3. \A f \in findings : older[f] \in others /\ Worse(f, older[f])
    BY <2>1
  <2>4. older \in [findings -> others]
    BY <2>3
  <2> HIDE DEF older
  <2>5. \A f, g \in findings : older[f] = older[g] => f = g
    BY <2>2, <2>3
  <2> QED
    BY <2>3, <2>4, <2>5 DEF MadeUpFor, findings, others
<1> QED
  BY <1>5, <1>6

\* What was stale stays so.
LEMMA StaleStaysStale ==
  ASSUME NEW c, NEW later, OnlyAged(c, later), NEW moments \in SUBSET Nat, IsFiniteSet(moments),
         IsStale(moments, c)
  PROVE  IsStale(moments, later)
<1> DEFINE ends == {s.end : s \in {s \in c.sprints : s.id = c.sprint}}
           before == {c.reference} \cup ends
           after == {later.reference} \cup ends
<1>1. /\ c.reference \in Nat /\ later.reference \in Nat /\ c.reference <= later.reference
      /\ later.sprints = c.sprints /\ later.sprint = c.sprint /\ ends \in SUBSET Nat
  BY DEF OnlyAged, IsContext, Sprints, Days
<1>2. ScopeReferenceDate(c) = Min(before) /\ ScopeReferenceDate(later) = Min(after)
  BY <1>1 DEF ScopeReferenceDate
<1> HIDE DEF ends
<1>3. ASSUME NEW S \in SUBSET Nat, S # {}
      PROVE  Min(S) \in S /\ \A n \in S : Min(S) <= n
  <2>1. \E n \in S : \A m \in S : n <= m
    BY <1>3, LeastExists
  <2> QED
    BY <2>1 DEF Min
<1>4. /\ Min(before) \in before /\ \A n \in before : Min(before) <= n
      /\ Min(after) \in after /\ \A n \in after : Min(after) <= n
  <2>1. before \in SUBSET Nat /\ before # {} /\ after \in SUBSET Nat /\ after # {}
    BY <1>1
  <2> HIDE DEF before, after
  <2> QED
    BY <1>3, <2>1
<1>5. Min(before) \in Nat /\ Min(after) \in Nat /\ Min(before) <= Min(after)
  <2> DEFINE m == Min(before)
             n == Min(after)
  <2>1. /\ m \in before /\ m <= c.reference /\ \A k \in ends : m <= k
        /\ n = later.reference \/ n \in ends
    BY <1>4
  <2> HIDE DEF m, n
  <2>2. m \in Nat /\ n \in Nat
    BY <1>1, <2>1
  <2>3. m <= n
    BY <1>1, <2>1, <2>2
  <2> QED
    BY <2>2, <2>3 DEF m, n
<1>6. moments # {} /\ Min(before) - Day(Max(moments)) > FreshnessDays
  BY <1>2 DEF IsStale
<1>7. Day(Max(moments)) \in Int
  <2>1. Max(moments) \in moments
    <3>1. moments \in SUBSET Int
      OBVIOUS
    <3> QED
      BY <1>6, <3>1, MaxIsElement
  <2> DEFINE latest == Max(moments)
  <2>2. latest \in Nat
    BY <2>1
  <2> HIDE DEF latest
  <2>3. latest \div 2 \in Int
    BY <2>2
  <2> QED
    BY <2>3 DEF Day, latest
<1> HIDE DEF before, after
<1>8. Min(after) - Day(Max(moments)) > FreshnessDays
  BY <1>5, <1>6, <1>7 DEF FreshnessDays
<1> QED
  BY <1>2, <1>6, <1>8 DEF IsStale

\* Confidence does not grow with age.
LEMMA ConfidenceAges ==
  ASSUME NEW c, NEW later, OnlyAged(c, later), NEW d
  PROVE  Quality(later, d).confidence <= Quality(c, d).confidence
<1> DEFINE b == Max({Cardinality(VisibleBuilds(c)), 1})
           reviewed == Cardinality(ReviewedBuilds(c, d))
           tested == Tested(c, d)
           present == One(c.tickets # {}) + One(VisibleBuilds(c) # {}) + One(VisibleCoverages(c) # {})
           Fresh(of) == One(IsFresh(BuildMoments(of), of)) + One(IsFresh(CoverageMoments(of), of))
           fresh == Fresh(c)
           still == Fresh(later)
<1>1. b \in Nat \ {0} /\ tested \in Nat /\ reviewed \in Nat
  BY SharesBounded DEF OnlyAged
<1>2. present \in 0..3
  BY DEF One
<1>3. /\ VisibleBuilds(later) = VisibleBuilds(c) /\ VisibleCoverages(later) = VisibleCoverages(c)
      /\ later.tickets = c.tickets
      /\ BuildMoments(later) = BuildMoments(c) /\ CoverageMoments(later) = CoverageMoments(c)
      /\ ReviewedBuilds(later, d) = ReviewedBuilds(c, d)
      /\ Tested(later, d) = Tested(c, d)
  BY DEF OnlyAged, BuildMoments, CoverageMoments, ReviewedBuilds, Tested, TestedBuilds
<1>4. /\ Quality(c, d).confidence =
           Round(15 * (present * b + tested) + 10 * fresh * b + 10 * (tested + reviewed), b)
      /\ Quality(later, d).confidence =
           Round(15 * (present * b + tested) + 10 * still * b + 10 * (tested + reviewed), b)
  BY <1>3 DEF Quality
<1>5. still \in 0..2 /\ fresh \in 0..2 /\ still <= fresh
  <2>1. /\ BuildMoments(c) \in SUBSET Nat /\ IsFiniteSet(BuildMoments(c))
        /\ CoverageMoments(c) \in SUBSET Nat /\ IsFiniteSet(CoverageMoments(c))
    <3> DEFINE started == [x \in VisibleBuilds(c) |-> x.started]
               measured == [x \in VisibleCoverages(c) |-> x.measured]
    <3>1. /\ \A x \in VisibleBuilds(c) : started[x] \in Nat
          /\ \A x \in VisibleCoverages(c) : measured[x] \in Nat
      BY DEF OnlyAged, IsContext, VisibleBuilds, VisibleCoverages, Builds, Metrics, Moments
    <3>2. IsFiniteSet(VisibleBuilds(c)) /\ IsFiniteSet(VisibleCoverages(c))
      <4>1. /\ VisibleBuilds(c) \in SUBSET c.builds /\ IsFiniteSet(c.builds)
            /\ VisibleCoverages(c) \in SUBSET c.metrics /\ IsFiniteSet(c.metrics)
        BY DEF OnlyAged, IsContext, VisibleBuilds, VisibleCoverages
      <4> QED
        BY <4>1, FS_Subset
    <3>3. /\ BuildMoments(c) = {started[x] : x \in VisibleBuilds(c)}
          /\ CoverageMoments(c) = {measured[x] : x \in VisibleCoverages(c)}
      BY DEF BuildMoments, CoverageMoments
    <3>4. /\ started = [x \in VisibleBuilds(c) |-> started[x]]
          /\ measured = [x \in VisibleCoverages(c) |-> measured[x]]
      OBVIOUS
    <3> HIDE DEF started, measured
    <3>5. /\ IsFiniteSet({started[x] : x \in VisibleBuilds(c)})
          /\ IsFiniteSet({measured[x] : x \in VisibleCoverages(c)})
      BY <3>2, <3>4, ImageIsFinite
    <3> QED
      BY <3>1, <3>3, <3>5
  <2>2. /\ IsFresh(BuildMoments(c), later) => IsFresh(BuildMoments(c), c)
        /\ IsFresh(CoverageMoments(c), later) => IsFresh(CoverageMoments(c), c)
    BY <2>1, StaleStaysStale DEF IsFresh
  <2> QED
    BY <1>3, <2>2 DEF One
<1> HIDE DEF b, reviewed, tested, present, fresh, still, Fresh
<1>6. /\ present * b \in Nat /\ 10 * fresh \in Nat /\ 10 * still \in Nat
      /\ 10 * still <= 10 * fresh
  BY <1>1, <1>2, <1>5
<1>7. /\ 10 * fresh * b \in Nat /\ 10 * still * b \in Nat
      /\ 10 * still * b <= 10 * fresh * b
  <2>1. b \in Nat /\ b <= b
    BY <1>1
  <2> QED
    BY <1>6, <2>1, ProductBounded
<1>8. /\ 15 * (present * b + tested) + 10 * fresh * b + 10 * (tested + reviewed) \in Nat
      /\ 15 * (present * b + tested) + 10 * still * b + 10 * (tested + reviewed) \in Nat
      /\ 15 * (present * b + tested) + 10 * still * b + 10 * (tested + reviewed)
           <= 15 * (present * b + tested) + 10 * fresh * b + 10 * (tested + reviewed)
  BY <1>1, <1>6, <1>7
<1> QED
  BY <1>1, <1>4, <1>8, RoundMonotonic

\* The same data, seen again at a later date with the same builds and coverages, only
\* look worse: the score is no lower and the confidence no higher. For every payload
\* that is accepted, and policies under which more hours blocked or days overdue are
\* no less of a risk.
THEOREM AgeingNeverImprovesHolds ==
  ASSUME PoliciesWorsenWithAge
  PROVE  ProjectSpec => []AgeingNeverImproves
<1>1. ProjectInit => EvidenceInv
  BY ProjectInitInv DEF ProjectInit, EvidenceInv, Current
<1>2. EvidenceInv => AgeingNeverImproves
  <2> SUFFICES ASSUME EvidenceInv, NEW row \in Current, NEW other \in Current,
                      row.result.sprint = other.result.sprint,
                      row.result.reference < other.result.reference,
                      VisibleBuilds(Context(Datasets[data], row.result.sprint,
                                            row.result.reference))
                        = VisibleBuilds(Context(Datasets[data], other.result.sprint,
                                                other.result.reference)),
                      VisibleCoverages(Context(Datasets[data], row.result.sprint,
                                               row.result.reference))
                        = VisibleCoverages(Context(Datasets[data], other.result.sprint,
                                                   other.result.reference))
               PROVE  /\ row.result.score <= other.result.score
                      /\ row.result.confidence >= other.result.confidence
    BY DEF AgeingNeverImproves
  <2> DEFINE d == Datasets[data]
             sprint == row.result.sprint
             now == row.result.reference
             then == other.result.reference
             c == Context(d, sprint, now)
             later == Context(d, sprint, then)
             a == Assessment(d, sprint, now)
             b == Assessment(d, sprint, then)
  <2>1. /\ data \in Payloads /\ now \in Nat /\ then \in Nat /\ now <= then
        /\ row.result = a /\ other.result = b
        /\ Verdict(Datasets[data]) = "valid"
    BY CurrentIsOfTheData, QaProjectAssumption DEF EvidenceInv, QaProjectAssumption
  <2>2. OnlyAged(c, later)
    <3>1. IsContext(c) /\ IsContext(later)
      BY <2>1, ContextOfPayload
    <3>2. d.sprints \subseteq Sprints
      BY <2>1, TablesAreFinite
    <3>3. \A t, u \in d.tickets : t.id = u.id => t = u
      BY <2>1, ValidRows
    <3>4. /\ later.tickets = c.tickets /\ later.sprints = c.sprints /\ later.sprint = c.sprint
          /\ c.sprints = d.sprints /\ c.tickets \subseteq d.tickets
          /\ c.reference = now /\ later.reference = then
      BY DEF Context, InScope
    <3>5. VisibleBuilds(later) = VisibleBuilds(c) /\ VisibleCoverages(later) = VisibleCoverages(c)
      OBVIOUS
    <3> HIDE DEF c, later, d, sprint, now, then
    <3> QED
      BY <2>1, <3>1, <3>2, <3>3, <3>4, <3>5 DEF OnlyAged
  <2>3. /\ a.contributions = Contributions(EvaluateRules(c))
        /\ b.contributions = Contributions(EvaluateRules(later))
        /\ a.confidence = Quality(c, d).confidence
        /\ b.confidence = Quality(later, d).confidence
    BY DEF Assessment
  <2>4. /\ TotalOf(a.contributions) \in Nat /\ a.score = Round(TotalOf(a.contributions), 10)
        /\ TotalOf(b.contributions) \in Nat /\ b.score = Round(TotalOf(b.contributions), 10)
    BY <2>1, PayloadsAreTables, ScoreOfAssessment
  <2> HIDE DEF a, b, c, later, d, sprint, now, then
  <2>5. a.confidence \in Int /\ b.confidence \in Int
    <3>1. Quality(c, d).confidence \in 0..100 /\ Quality(later, d).confidence \in 0..100
      BY <2>2, QualityBounded DEF OnlyAged
    <3> QED
      BY <2>3, <3>1
  <2>6. TotalOf(a.contributions) <= TotalOf(b.contributions)
    <3>1. /\ IsFiniteSet(EvaluateRules(c)) /\ \A f \in EvaluateRules(c) : f.signal \in 0..Scale
          /\ IsFiniteSet(EvaluateRules(later))
          /\ \A f \in EvaluateRules(later) : f.signal \in 0..Scale
      BY <2>2, FindingsSound DEF OnlyAged
    <3>2. \A policy \in Enabled :
            MadeUpFor(OfPolicy(policy, EvaluateRules(c)), OfPolicy(policy, EvaluateRules(later)))
      BY <2>2, FindingsAge
    <3> DEFINE findings == EvaluateRules(c)
               others == EvaluateRules(later)
    <3> HIDE DEF findings, others
    <3>3. TotalOf(Contributions(findings)) <= TotalOf(Contributions(others))
      BY <3>1, <3>2, ScoreMonotonic DEF findings, others
    <3> QED
      BY <2>3, <3>3 DEF findings, others
  <2>7. a.score <= b.score
    BY <2>4, <2>6, RoundMonotonic
  <2>8. b.confidence <= a.confidence
    BY <2>2, <2>3, ConfidenceAges
  <2> QED
    BY <2>1, <2>5, <2>7, <2>8
<1> QED
  BY <1>1, <1>2, NextEvidenceInv, PTL DEF ProjectSpec

================================================================================
