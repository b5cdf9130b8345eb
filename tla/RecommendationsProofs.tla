------------------------ MODULE RecommendationsProofs ------------------------
(***************************************************************************)
(* The search for dishes gives what its filters ask for, whatever the      *)
(* dishes, the ingredients and the members are.                            *)
(***************************************************************************)
EXTENDS Recommendations, FiniteSetTheorems, SequenceTheorems, WellFoundedInduction, TLAPS

\* The visibility of a dish tells no, one and more missing ingredients apart.
LEMMA VisibilityTells ==
  ASSUME NEW d \in Menu, NEW f
  PROVE  /\ Visibility(d, f) = "ready" <=> Missing(d, f) = {}
         /\ Visibility(d, f) = "one_missing" <=> \E i : Missing(d, f) = {i}
<1> DEFINE M == Missing(d, f)
<1>1. IsFiniteSet(M)
  <2>1. CASE f.foods = {}
    BY <2>1, FS_EmptySet DEF Missing
  <2>2. CASE f.foods # {}
    <3>1. IsFiniteSet(Needs[d]) /\ Needs[d] \ f.foods \subseteq Needs[d]
      BY MenuAssumption DEF MenuAssumption
    <3> QED  BY <2>2, <3>1, FS_Subset DEF Missing
  <2> QED  BY <2>1, <2>2
<1>2. Cardinality(M) \in Nat
  BY <1>1, FS_CardinalityType
<1>3. Cardinality(M) = 0 <=> M = {}
  BY <1>1, FS_EmptySet
<1>4. Cardinality(M) = 1 <=> \E i : M = {i}
  BY <1>1, FS_Singleton
<1> QED
  BY <1>2, <1>3, <1>4 DEF Visibility

\* A dish needs only what is among the ingredients of the household.
LEMMA NeedsFoods ==
  ASSUME NEW d \in Menu
  PROVE  Needs[d] \subseteq Foods
BY MenuAssumption DEF MenuAssumption, Foods, Range

\* An archived dish, and one that the filters exclude, is no candidate.
LEMMA CandidatesFit ==
  ASSUME NEW f
  PROVE  Candidates(f) =
           {d \in Menu : /\ d \notin archived
                         /\ f.kinds = {} \/ Kind[d] \in f.kinds
                         /\ f.cooks = {} \/ \E m \in f.cooks : m \in CookedBy[d]}
BY DEF Candidates

\* Whatever the filters, the search lists as ready the dishes that fit and need
\* only what is at hand, and as one short those that one more ingredient makes
\* ready, at every time.
THEOREM SearchFinds == Spec => []SearchMatches
<1>1. SearchMatches
  <2> SUFFICES ASSUME NEW f \in Filters
      PROVE  LET Fits == {d \in Menu : /\ d \notin archived
                                       /\ f.kinds = {} \/ Kind[d] \in f.kinds
                                       /\ f.cooks = {} \/ \E m \in f.cooks : m \in CookedBy[d]}
                 Cook(foods) == {d \in Fits : Needs[d] \subseteq foods}
                 AtHand == IF f.foods = {} THEN Foods ELSE f.foods
             IN  /\ Ready(f) = Cook(AtHand)
                 /\ OneMissing(f) = (UNION {Cook(AtHand \cup {i}) : i \in Foods}) \ Cook(AtHand)
    BY DEF SearchMatches
  <2> DEFINE Fits == Candidates(f)
             Cook(foods) == {d \in Fits : Needs[d] \subseteq foods}
             AtHand == IF f.foods = {} THEN Foods ELSE f.foods
  <2>1. ASSUME NEW d \in Fits
        PROVE  /\ d \in Menu
               /\ Missing(d, f) = Needs[d] \ AtHand
    <3>1. d \in Menu
      BY DEF Candidates
    <3>2. Needs[d] \ Foods = {}
      BY <3>1, NeedsFoods
    <3> QED  BY <3>1, <3>2 DEF Missing
  <2>2. Ready(f) = Cook(AtHand)
    <3>1. \A d \in Fits : Visibility(d, f) = "ready" <=> Needs[d] \subseteq AtHand
      <4> TAKE d \in Fits
      <4>1. Visibility(d, f) = "ready" <=> Needs[d] \ AtHand = {}
        BY <2>1, VisibilityTells
      <4> QED  BY <4>1
    <3> QED  BY <3>1 DEF Ready
  <2>3. \A d \in Fits : Visibility(d, f) = "one_missing"
                     <=> /\ ~ (Needs[d] \subseteq AtHand)
                         /\ \E i \in Foods : Needs[d] \subseteq AtHand \cup {i}
    <3> TAKE d \in Fits
    <3> HIDE DEF AtHand
    <3>1. Visibility(d, f) = "one_missing" <=> \E i : Needs[d] \ AtHand = {i}
      BY <2>1, VisibilityTells
    <3>2. Needs[d] \subseteq Foods
      BY <2>1, NeedsFoods
    <3>3. ASSUME NEW i, Needs[d] \ AtHand = {i}
          PROVE  i \in Foods /\ Needs[d] \subseteq AtHand \cup {i} /\ ~ (Needs[d] \subseteq AtHand)
      BY <3>2, <3>3
    <3>4. ASSUME NEW i \in Foods, Needs[d] \subseteq AtHand \cup {i}, ~ (Needs[d] \subseteq AtHand)
          PROVE  Needs[d] \ AtHand = {i}
      BY <3>4
    <3> QED  BY <3>1, <3>3, <3>4
  <2>4. OneMissing(f) = (UNION {Cook(AtHand \cup {i}) : i \in Foods}) \ Cook(AtHand)
    <3> HIDE DEF AtHand
    <3>1. OneMissing(f) \subseteq (UNION {Cook(AtHand \cup {i}) : i \in Foods}) \ Cook(AtHand)
      BY <2>3 DEF OneMissing
    <3>2. (UNION {Cook(AtHand \cup {i}) : i \in Foods}) \ Cook(AtHand) \subseteq OneMissing(f)
      BY <2>3 DEF OneMissing
    <3> QED  BY <3>1, <3>2
  <2> QED  BY <2>2, <2>4, CandidatesFit
<1> QED
  BY <1>1, PTL

-----------------------------------------------------------------------------
(* Numbers and the sequences of them by name.                              *)

\* Some number of a set is the least.
LEMMA LeastNumber ==
  ASSUME NEW T \in SUBSET Nat, T # {}
  PROVE  \E x \in T : \A y \in T : x <= y
<1> DEFINE R == {ss \in Nat \X Nat : ss[1] < ss[2]}
<1>1. IsWellFoundedOn(R, Nat)
  BY NatLessThanWellFounded DEF OpToRel
<1>2. PICK x \in T : \A y \in T : ~ (<<y, x>> \in R)
  BY <1>1, WFMin
<1>3. \A y \in T : ~ (y < x)
  <2> TAKE y \in T
  <2>1. y < x => <<y, x>> \in R
    OBVIOUS
  <2> QED  BY <2>1, <1>2
<1> QED  BY <1>3

\* Some number of a finite set is the greatest.
LEMMA GreatestNumber ==
  ASSUME NEW T \in SUBSET Nat, IsFiniteSet(T), T # {}
  PROVE  \E x \in T : \A y \in T : y <= x
<1> DEFINE P(n) == \A U \in SUBSET Nat : IsFiniteSet(U) /\ U # {} /\ Cardinality(U) = n =>
                     \E x \in U : \A y \in U : y <= x
           Bad == {n \in Nat : ~ P(n)}
<1>1. Cardinality(T) \in Nat
  BY FS_CardinalityType
<1>2. Bad = {}
  <2> SUFFICES ASSUME Bad # {} PROVE FALSE
    OBVIOUS
  <2>1. PICK n \in Bad : \A m \in Bad : n <= m
    <3>1. Bad \in SUBSET Nat
      OBVIOUS
    <3> HIDE DEF Bad
    <3> QED  BY <3>1, LeastNumber
  <2>2. PICK U \in SUBSET Nat : /\ IsFiniteSet(U) /\ U # {} /\ Cardinality(U) = n
                                /\ ~ \E x \in U : \A y \in U : y <= x
    BY <2>1
  <2>3. PICK x \in U : TRUE
    BY <2>2
  <2>4. /\ IsFiniteSet(U \ {x}) /\ Cardinality(U \ {x}) = n - 1
        /\ Cardinality(U \ {x}) \in Nat /\ n \in Nat
    BY <2>1, <2>2, <2>3, FS_RemoveElement, FS_CardinalityType
  <2>5. P(n - 1)
    BY <2>1, <2>4
  <2>6. U \ {x} # {}
    BY <2>2, <2>3
  <2>7. PICK z \in U \ {x} : \A y \in U \ {x} : y <= z
    BY <2>4, <2>5, <2>6
  <2>8. \A y \in U : y <= z \/ y = x
    BY <2>7
  <2>9. (z <= x \/ x <= z) /\ x \in Nat /\ z \in Nat
    BY <2>3, <2>7
  <2>10. CASE z <= x
    BY <2>2, <2>3, <2>8, <2>9, <2>10
  <2>11. CASE x <= z
    BY <2>2, <2>7, <2>8, <2>11
  <2> QED  BY <2>9, <2>10, <2>11
<1>3. P(Cardinality(T))
  BY <1>1, <1>2
<1> QED  BY <1>3

Rising(s) == \A i, j \in DOMAIN s : i < j => s[i] < s[j]

\* A finite set of numbers can be put in order.
LEMMA InOrder ==
  ASSUME NEW D \in SUBSET Nat, IsFiniteSet(D)
  PROVE  \E s \in [1 .. Cardinality(D) -> D] : Rising(s)
<1> DEFINE P(n) == \A U \in SUBSET Nat : IsFiniteSet(U) /\ Cardinality(U) = n =>
                     \E s \in [1 .. n -> U] : Rising(s)
           Bad == {n \in Nat : ~ P(n)}
<1>1. Cardinality(D) \in Nat
  BY FS_CardinalityType
<1>2. Bad = {}
  <2> SUFFICES ASSUME Bad # {} PROVE FALSE
    OBVIOUS
  <2>1. PICK n \in Bad : \A m \in Bad : n <= m
    <3>1. Bad \in SUBSET Nat
      OBVIOUS
    <3> HIDE DEF Bad
    <3> QED  BY <3>1, LeastNumber
  <2>2. PICK U \in SUBSET Nat : /\ IsFiniteSet(U) /\ Cardinality(U) = n
                                /\ ~ \E s \in [1 .. n -> U] : Rising(s)
    BY <2>1
  <2>3. U # {}
    <3> SUFFICES ASSUME U = {} PROVE FALSE
      OBVIOUS
    <3>1. n = 0
      BY <2>2, FS_EmptySet
    <3>2. [i \in 1 .. n |-> i] \in [1 .. n -> U]
      BY <3>1
    <3>3. Rising([i \in 1 .. n |-> i])
      BY DEF Rising
    <3> QED  BY <2>2, <3>2, <3>3
  <2>4. PICK x \in U : \A y \in U : y <= x
    BY <2>2, <2>3, GreatestNumber
  <2>5. /\ IsFiniteSet(U \ {x}) /\ Cardinality(U \ {x}) = n - 1
        /\ Cardinality(U \ {x}) \in Nat /\ n \in Nat
    BY <2>1, <2>2, <2>4, FS_RemoveElement, FS_CardinalityType
  <2>6. P(n - 1)
    BY <2>1, <2>5
  <2>7. PICK s \in [1 .. n - 1 -> U \ {x}] : Rising(s)
    BY <2>5, <2>6
  <2>8. PICK t : t = [i \in 1 .. n |-> IF i = n THEN x ELSE s[i]]
    OBVIOUS
  <2>9. t \in [1 .. n -> U]
    BY <2>4, <2>5, <2>7, <2>8
  <2>10. Rising(t)
    <3> SUFFICES ASSUME NEW i \in 1 .. n, NEW j \in 1 .. n, i < j PROVE t[i] < t[j]
      BY <2>8 DEF Rising
    <3>1. i \in 1 .. n - 1 /\ t[i] = s[i] /\ s[i] \in U \ {x}
      BY <2>5, <2>7, <2>8
    <3>2. CASE j = n
      <4>1. t[j] = x
        BY <2>8, <3>2
      <4>2. s[i] \in Nat /\ x \in Nat /\ s[i] <= x /\ s[i] # x
        BY <2>4, <3>1
      <4> QED  BY <3>1, <4>1, <4>2
    <3>3. CASE j # n
      <4>1. j \in 1 .. n - 1 /\ t[j] = s[j]
        BY <2>5, <2>8, <3>3
      <4> QED  BY <2>7, <3>1, <4>1 DEF Rising
    <3> QED  BY <3>2, <3>3
  <2> QED  BY <2>2, <2>9, <2>10
<1>3. P(Cardinality(D))
  BY <1>1, <1>2
<1> QED  BY <1>3

Once(s) == \A i, j \in 1 .. Len(s) : s[i] = s[j] => i = j

\* By name every dish comes once.
LEMMA ByNameOnce ==
  ASSUME NEW D \in SUBSET Menu
  PROVE  /\ ByName(D) \in Seq(D)
         /\ Range(ByName(D)) = D
         /\ Once(ByName(D))
<1>1. D \in SUBSET Nat /\ IsFiniteSet(D) /\ Cardinality(D) \in Nat
  BY MenuAssumption, FS_Subset, FS_CardinalityType DEF MenuAssumption
<1>2. PICK n \in Nat : n = Cardinality(D)
  BY <1>1
<1>3. \E s \in [1 .. n -> D] : \A i, j \in DOMAIN s : i < j => s[i] < s[j]
  BY <1>1, <1>2, InOrder DEF Rising
<1>4. PICK s : s = ByName(D)
  OBVIOUS
<1>5. s \in [1 .. n -> D] /\ \A i, j \in DOMAIN s : i < j => s[i] < s[j]
  BY <1>2, <1>3, <1>4 DEF ByName
<1>6. s \in Seq(D) /\ Len(s) = n
  BY <1>5
<1>7. \A i, j \in 1 .. n : s[i] = s[j] => i = j
  <2> SUFFICES ASSUME NEW i \in 1 .. n, NEW j \in 1 .. n, s[i] = s[j], i # j PROVE FALSE
    OBVIOUS
  <2>1. i < j \/ j < i
    OBVIOUS
  <2>2. s[i] \in Nat /\ s[j] \in Nat
    BY <1>1, <1>5
  <2> QED  BY <1>5, <2>1, <2>2
<1>8. Range(s) = D
  <2>1. Range(s) \in SUBSET D
    BY <1>5 DEF Range
  <2>2. s \in Surjection(1 .. n, Range(s)) /\ s \in Injection(1 .. n, Range(s))
    <3>1. DOMAIN s = 1 .. n /\ s \in [1 .. n -> Range(s)]
      BY <1>5 DEF Range
    <3> QED  BY <1>7, <3>1 DEF Surjection, Injection, IsInjective, Range
  <2>3. IsFiniteSet(1 .. n) /\ Cardinality(1 .. n) = n
    BY FS_Interval
  <2>4. Cardinality(Range(s)) = n
    BY <2>2, <2>3, FS_Surjection
  <2> QED  BY <1>1, <1>2, <2>1, <2>4, FS_Subset
<1> QED  BY <1>4, <1>6, <1>7, <1>8 DEF Once

-----------------------------------------------------------------------------
(* The weights and their sums.                                             *)

\* Every weight is one of the table's.
LEMMA WeightPositive ==
  ASSUME TypeOK, NEW d \in Menu
  PROVE  Recency(d) \in {2, 5, 8, 10}
<1>1. PICK days : days = today - CHOOSE t \in LastEaten(d) : TRUE
  OBVIOUS
<1>2. (IF days <= 3 THEN 2 ELSE IF days <= 7 THEN 5 ELSE IF days <= 14 THEN 8 ELSE 10)
        \in {2, 5, 8, 10}
  OBVIOUS
<1> QED  BY <1>1, <1>2 DEF Recency

\* The sums of the weights are defined, one by one.
LEMMA SumsDefined ==
  ASSUME TypeOK, NEW s \in Seq(Menu)
  PROVE  /\ Cumulated(s)[0] = 0
         /\ \A n \in 1 .. Len(s) : Cumulated(s)[n] = Cumulated(s)[n - 1] + Recency(s[n])
<1> DEFINE Sums(m, g) ==
             g = [n \in 0 .. m |-> IF n = 0 THEN 0 ELSE g[n - 1] + Recency(s[n])]
           Bad == {m \in 0 .. Len(s) : ~ \E g : Sums(m, g)}
<1>1. Len(s) \in Nat
  OBVIOUS
<1>2. Bad = {}
  <2> SUFFICES ASSUME Bad # {} PROVE FALSE
    OBVIOUS
  <2>1. PICK m \in Bad : \A k \in Bad : m <= k
    <3>1. Bad \in SUBSET Nat
      BY <1>1
    <3> HIDE DEF Bad
    <3> QED  BY <3>1, LeastNumber
  <2>2. m \in 0 .. Len(s) /\ \A g : ~ Sums(m, g)
    BY <2>1
  <2>3. CASE m = 0
    <3>1. PICK g : g = [n \in 0 .. 0 |-> 0]
      OBVIOUS
    <3>2. Sums(0, g)
      BY <3>1
    <3> QED  BY <2>2, <2>3, <3>2
  <2>4. CASE m # 0
    <3>1. m - 1 \in 0 .. Len(s) /\ m - 1 \notin Bad
      <4>1. m - 1 \in 0 .. Len(s) /\ ~ (m <= m - 1)
        BY <1>1, <2>2, <2>4
      <4> HIDE DEF Bad
      <4> QED  BY <2>1, <4>1
    <3>2. PICK g : Sums(m - 1, g)
      BY <3>1
    <3>3. PICK h : h = [n \in 0 .. m |-> IF n = m THEN g[m - 1] + Recency(s[m]) ELSE g[n]]
      OBVIOUS
    <3>4. ASSUME NEW n \in 0 .. m
          PROVE  h[n] = IF n = 0 THEN 0 ELSE h[n - 1] + Recency(s[n])
      <4>1. CASE n = m
        <5>1. m - 1 \in 0 .. m /\ m - 1 # m
          BY <1>1, <2>2, <2>4
        <5> QED  BY <2>4, <3>3, <4>1, <5>1
      <4>2. CASE n # m /\ n = 0
        <5>1. h[n] = g[n] /\ n \in 0 .. m - 1
          BY <1>1, <2>2, <3>3, <4>2
        <5> QED  BY <3>2, <4>2, <5>1
      <4>3. CASE n # m /\ n # 0
        <5>1. h[n] = g[n] /\ n \in 0 .. m - 1 /\ h[n - 1] = g[n - 1]
          BY <1>1, <2>2, <3>3, <4>3
        <5> QED  BY <3>2, <4>3, <5>1
      <4> QED  BY <4>1, <4>2, <4>3
    <3>5. h = [n \in 0 .. m |-> h[n]]
      BY <3>3
    <3>6. Sums(m, h)
      BY <3>4, <3>5
    <3> QED  BY <2>2, <3>6
  <2> QED  BY <2>3, <2>4
<1>3. \E g : Sums(Len(s), g)
  BY <1>1, <1>2
<1>4. Cumulated(s) = CHOOSE g : Sums(Len(s), g)
  BY DEF Cumulated
<1>5. PICK g : g = Cumulated(s)
  OBVIOUS
<1>6. Sums(Len(s), g)
  BY <1>3, <1>4, <1>5
<1>7. g[0] = 0
  BY <1>1, <1>6
<1>8. \A n \in 1 .. Len(s) : g[n] = g[n - 1] + Recency(s[n])
  BY <1>1, <1>6
<1> QED  BY <1>5, <1>7, <1>8

\* They are numbers, and they rise.
LEMMA SumsRise ==
  ASSUME TypeOK, NEW s \in Seq(Menu)
  PROVE  /\ \A n \in 0 .. Len(s) : Cumulated(s)[n] \in Nat
         /\ \A n \in 0 .. Len(s) : \A k \in 0 .. n : Cumulated(s)[k] <= Cumulated(s)[n]
<1>1. PICK C : C = Cumulated(s)
  OBVIOUS
<1>2. Len(s) \in Nat /\ \A n \in 1 .. Len(s) : Recency(s[n]) \in Nat
  BY WeightPositive
<1>3. C[0] = 0 /\ \A n \in 1 .. Len(s) : C[n] = C[n - 1] + Recency(s[n])
  BY <1>1, SumsDefined
<1> DEFINE P(n) == C[n] \in Nat /\ \A k \in 0 .. n : C[k] \in Nat /\ C[k] <= C[n]
           Bad  == {n \in 0 .. Len(s) : ~ P(n)}
<1>4. Bad = {}
  <2> SUFFICES ASSUME Bad # {} PROVE FALSE
    OBVIOUS
  <2>1. PICK n \in Bad : \A k \in Bad : n <= k
    <3>1. Bad \in SUBSET Nat
      BY <1>2
    <3> HIDE DEF Bad
    <3> QED  BY <3>1, LeastNumber
  <2>2. n \in 0 .. Len(s) /\ ~ P(n)
    BY <2>1
  <2>3. n # 0
    BY <1>3, <2>2
  <2>4. n - 1 \in 0 .. Len(s) /\ n - 1 \notin Bad
    BY <1>2, <2>1, <2>2, <2>3
  <2>5. P(n - 1)
    BY <2>4
  <2>6. C[n] = C[n - 1] + Recency(s[n]) /\ Recency(s[n]) \in Nat
    BY <1>2, <1>3, <2>2, <2>3
  <2>7. \A k \in 0 .. n : k = n \/ k \in 0 .. n - 1
    BY <1>2, <2>2
  <2> HIDE DEF Bad
  <2> QED  BY <2>2, <2>5, <2>6, <2>7
<1> QED  BY <1>1, <1>4

-----------------------------------------------------------------------------
(* The draw.                                                               *)

\* A ticket draws the n-th dish if it is below the n-th sum and not below the one
\* before it.
LEMMA DrawsNth ==
  ASSUME TypeOK, NEW s \in Seq(Menu), NEW n \in 1 .. Len(s), NEW k \in Nat,
         Cumulated(s)[n - 1] <= k, k < Cumulated(s)[n]
  PROVE  Draw(s, k) = s[n]
<1>1. PICK C : C = Cumulated(s)
  OBVIOUS
<1>2. Len(s) \in Nat /\ DOMAIN s = 1 .. Len(s)
  OBVIOUS
<1>3. /\ \A m \in 0 .. Len(s) : C[m] \in Nat
      /\ \A m \in 0 .. Len(s) : \A i \in 0 .. m : C[i] <= C[m]
  BY <1>1, SumsRise
<1> DEFINE Drawn(m) == k < C[m] /\ \A i \in 1 .. m - 1 : C[i] <= k
<1>4. Drawn(n)
  <2> SUFFICES ASSUME NEW i \in 1 .. n - 1 PROVE C[i] <= k
    BY <1>1
  <2>1. n - 1 \in 0 .. Len(s) /\ i \in 0 .. n - 1 /\ i \in 0 .. Len(s)
    BY <1>2
  <2>2. C[i] <= C[n - 1] /\ C[i] \in Nat /\ C[n - 1] \in Nat
    BY <1>3, <2>1
  <2> QED  BY <1>1, <2>2
<1>5. \A m \in 1 .. Len(s) : Drawn(m) => m = n
  <2> SUFFICES ASSUME NEW m \in 1 .. Len(s), Drawn(m), m # n PROVE FALSE
    OBVIOUS
  <2>1. C[m] \in Nat /\ C[n] \in Nat
    BY <1>2, <1>3
  <2>2. CASE m < n
    <3>1. m \in 1 .. n - 1
      BY <1>2, <2>2
    <3> QED  BY <1>4, <2>1, <3>1
  <2>3. CASE n < m
    <3>1. n \in 1 .. m - 1
      BY <1>2, <2>3
    <3> QED  BY <1>4, <2>1, <3>1
  <2> QED  BY <1>2, <2>2, <2>3
<1>6. (CHOOSE m \in DOMAIN s : Drawn(m)) = n
  <2>1. \E m \in DOMAIN s : Drawn(m)
    BY <1>2, <1>4
  <2> HIDE DEF Drawn
  <2> QED  BY <1>2, <1>5, <2>1
<1>7. Draw(s, k) = s[CHOOSE m \in DOMAIN s : Drawn(m)]
  BY <1>1 DEF Draw
<1> QED  BY <1>6, <1>7

\* Every ticket draws some dish of the sequence.
LEMMA EveryTicketDraws ==
  ASSUME TypeOK, NEW s \in Seq(Menu), NEW k \in Tickets(s)
  PROVE  \E n \in 1 .. Len(s) : Cumulated(s)[n - 1] <= k /\ k < Cumulated(s)[n]
<1>1. PICK C : C = Cumulated(s)
  OBVIOUS
<1>2. /\ Len(s) \in Nat /\ C[0] = 0
      /\ \A m \in 0 .. Len(s) : C[m] \in Nat
  BY <1>1, SumsDefined, SumsRise
<1>3. C[Len(s)] \in Nat
  BY <1>2
<1>4. k \in Nat /\ k < C[Len(s)]
  BY <1>1, <1>3 DEF Tickets
<1> DEFINE Above == {m \in 1 .. Len(s) : k < C[m]}
<1>5. Len(s) \in Above
  <2>1. Len(s) # 0
    BY <1>2, <1>4
  <2> QED  BY <1>2, <1>4, <2>1
<1>6. PICK n \in Above : \A m \in Above : n <= m
  <2>1. Above \in SUBSET Nat
    BY <1>2
  <2> HIDE DEF Above
  <2> QED  BY <1>5, <2>1, LeastNumber
<1>7. n \in 1 .. Len(s) /\ k < C[n]
  BY <1>6
<1>8. C[n - 1] <= k
  <2>1. CASE n = 1
    BY <1>2, <1>4, <2>1
  <2>2. CASE n # 1
    <3>1. n - 1 \in 1 .. Len(s) /\ ~ (n <= n - 1)
      BY <1>2, <1>7, <2>2
    <3>2. n - 1 \notin Above
      BY <1>6, <3>1
    <3>3. C[n - 1] \in Nat
      BY <1>2, <3>1
    <3> QED  BY <1>4, <3>1, <3>2, <3>3
  <2> QED  BY <2>1, <2>2
<1> QED  BY <1>1, <1>7, <1>8

\* A dish that comes once is drawn by as many tickets as it has weight; one that
\* does not come is drawn by none.
LEMMA ShareOf ==
  ASSUME TypeOK, NEW s \in Seq(Menu), Once(s), NEW d \in Menu
  PROVE  Cardinality({k \in Tickets(s) : Draw(s, k) = d}) =
           IF d \in Range(s) THEN Recency(d) ELSE 0
<1>1. PICK C : C = Cumulated(s)
  OBVIOUS
<1>2. /\ Len(s) \in Nat /\ DOMAIN s = 1 .. Len(s)
      /\ \A m \in 1 .. Len(s) : s[m] \in Menu
      /\ C[0] = 0 /\ \A m \in 1 .. Len(s) : C[m] = C[m - 1] + Recency(s[m])
      /\ \A m \in 0 .. Len(s) : C[m] \in Nat
      /\ \A m \in 0 .. Len(s) : \A i \in 0 .. m : C[i] <= C[m]
  BY <1>1, SumsDefined, SumsRise
<1>3. Range(s) = {s[m] : m \in 1 .. Len(s)}
  BY <1>2 DEF Range
<1>4. \A k \in Tickets(s) : \E m \in 1 .. Len(s) :
         Draw(s, k) = s[m] /\ C[m - 1] <= k /\ k < C[m]
  <2> TAKE k \in Tickets(s)
  <2>1. k \in Nat
    <3>1. C[Len(s)] \in Nat
      BY <1>2
    <3> QED  BY <1>1, <3>1 DEF Tickets
  <2>2. PICK m \in 1 .. Len(s) : C[m - 1] <= k /\ k < C[m]
    BY <1>1, EveryTicketDraws
  <2>3. Draw(s, k) = s[m]
    BY <1>1, <2>1, <2>2, DrawsNth
  <2> QED  BY <2>2, <2>3
<1>5. CASE d \notin Range(s)
  <2>1. {k \in Tickets(s) : Draw(s, k) = d} = {}
    BY <1>3, <1>4, <1>5
  <2> QED  BY <1>5, <2>1, FS_EmptySet
<1>6. CASE d \in Range(s)
  <2>1. PICK n \in 1 .. Len(s) : s[n] = d
    BY <1>3, <1>6
  <2>2. PICK a, b : a = C[n - 1] /\ b = C[n] - 1
    OBVIOUS
  <2>3. /\ a \in Nat /\ b \in Int /\ Recency(d) \in {2, 5, 8, 10}
        /\ b - a + 1 = Recency(d) /\ b < C[Len(s)]
        /\ C[Len(s)] \in Nat
    <3>1. n - 1 \in 0 .. Len(s) /\ n \in 0 .. Len(s) /\ Len(s) \in 0 .. Len(s)
      BY <1>2
    <3>2. /\ C[n - 1] \in Nat /\ C[n] \in Nat /\ C[Len(s)] \in Nat
          /\ C[n] <= C[Len(s)] /\ C[n] = C[n - 1] + Recency(d)
      BY <1>2, <2>1, <3>1
    <3>3. Recency(d) \in {2, 5, 8, 10}
      BY WeightPositive
    <3>4. PICK x, y, z, w : x = C[n - 1] /\ y = C[n] /\ z = C[Len(s)] /\ w = Recency(d)
      OBVIOUS
    <3>5. x \in Nat /\ y \in Nat /\ z \in Nat /\ y <= z /\ y = x + w /\ w \in {2, 5, 8, 10}
      BY <3>2, <3>3, <3>4
    <3>6. a = x /\ b = y - 1
      BY <2>2, <3>4
    <3>7. a \in Nat /\ b \in Int /\ b - a + 1 = w /\ b < z
      BY <3>5, <3>6
    <3> QED  BY <3>2, <3>3, <3>4, <3>7
  <2>4. {k \in Tickets(s) : Draw(s, k) = d} = a .. b
    <3>1. ASSUME NEW k \in Tickets(s), Draw(s, k) = d PROVE k \in a .. b
      <4>1. PICK m \in 1 .. Len(s) : Draw(s, k) = s[m] /\ C[m - 1] <= k /\ k < C[m]
        BY <1>4
      <4>2. m = n
        BY <2>1, <3>1, <4>1 DEF Once
      <4>3. k \in Int
        BY <1>1, <2>3 DEF Tickets
      <4>4. C[n] \in Nat
        BY <1>2
      <4> QED  BY <2>2, <2>3, <4>1, <4>2, <4>3, <4>4
    <3>2. ASSUME NEW k \in a .. b PROVE k \in Tickets(s) /\ Draw(s, k) = d
      <4>1. k \in Nat /\ C[n - 1] <= k /\ k < C[n]
        <5>1. C[n] \in Nat
          BY <1>2
        <5> QED  BY <2>2, <2>3, <5>1
      <4>2. k \in Tickets(s)
        BY <1>1, <2>3, <4>1 DEF Tickets
      <4>3. Draw(s, k) = s[n]
        BY <1>1, <4>1, DrawsNth
      <4> QED  BY <2>1, <4>2, <4>3
    <3> QED  BY <3>1, <3>2
  <2>5. Cardinality(a .. b) = b - a + 1
    <3>1. ~ (a > b)
      BY <2>3
    <3> QED  BY <2>3, <3>1, FS_Interval
  <2> QED  BY <1>6, <2>3, <2>4, <2>5
<1> QED  BY <1>5, <1>6

\* The weight of a dish is what the table says of the last date that it was on.
LEMMA WeightOfTable ==
  ASSUME TypeOK, NEW d \in Menu
  PROVE  Recency(d) =
           IF \A t \in Dates : d \notin served[t] THEN 10
           ELSE CHOOSE w \in {Table(t) : t \in Dates} :
                  \E t \in Dates : /\ d \in served[t] /\ w = Table(t)
                                   /\ \A u \in Dates : u > t => d \notin served[u]
<1> DEFINE T == {t \in Dates : d \in served[t]}
<1>1. T \in SUBSET Nat /\ IsFiniteSet(T) /\ today \in Nat
  <2>1. Dates \in SUBSET Nat /\ IsFiniteSet(Dates) /\ LastDay \in Nat
    BY MenuAssumption DEF MenuAssumption
  <2>2. T \in SUBSET Dates
    OBVIOUS
  <2>3. today \in Nat
    BY <2>1 DEF TypeOK
  <2>4. IsFiniteSet(T)
    BY <2>1, <2>2, FS_Subset
  <2> QED  BY <2>1, <2>2, <2>3, <2>4
<1>2. LastEaten(d) = {t \in T : \A u \in T : u <= t}
  BY DEF LastEaten
<1>3. CASE T = {}
  <2>1. LastEaten(d) = {} /\ \A t \in Dates : d \notin served[t]
    BY <1>2, <1>3
  <2> QED  BY <2>1 DEF Recency
<1>4. CASE T # {}
  <2> HIDE DEF T
  <2>1. PICK t \in T : \A u \in T : u <= t
    BY <1>1, <1>4, GreatestNumber
  <2>2. LastEaten(d) = {t}
    <3>1. \A v \in T : (\A u \in T : u <= v) => v = t
      BY <1>1, <2>1
    <3> QED  BY <1>2, <2>1, <3>1
  <2>3. Recency(d) = Table(t)
    <3>1. PICK days : days = today - t
      OBVIOUS
    <3>2. days \in Int
      BY <1>1, <2>1, <3>1
    <3>3. Recency(d) = IF days <= 3 THEN 2 ELSE IF days <= 7 THEN 5
                            ELSE IF days <= 14 THEN 8 ELSE 10
      <4>1. (CHOOSE v \in {t} : TRUE) = t
        OBVIOUS
      <4> QED  BY <2>2, <3>1, <4>1 DEF Recency
    <3>4. Table(t) = CASE days \in 4 .. 7 -> 5 [] days \in 8 .. 14 -> 8
                       [] days > 14 -> 10 [] OTHER -> 2
      BY <3>1 DEF Table
    <3>5. \/ days <= 3 /\ Recency(d) = 2 /\ Table(t) = 2
          \/ days \in 4 .. 7 /\ Recency(d) = 5 /\ Table(t) = 5
          \/ days \in 8 .. 14 /\ Recency(d) = 8 /\ Table(t) = 8
          \/ days > 14 /\ Recency(d) = 10 /\ Table(t) = 10
      <4>1. CASE days <= 3
        BY <3>2, <3>3, <3>4, <4>1
      <4>2. CASE days \in 4 .. 7
        BY <3>2, <3>3, <3>4, <4>2
      <4>3. CASE days \in 8 .. 14
        BY <3>2, <3>3, <3>4, <4>3
      <4>4. CASE days > 14
        BY <3>2, <3>3, <3>4, <4>4
      <4> QED  BY <3>2, <4>1, <4>2, <4>3, <4>4
    <3> QED  BY <3>5
  <2> DEFINE Says(w) == \E v \in Dates : /\ d \in served[v] /\ w = Table(v)
                                        /\ \A u \in Dates : u > v => d \notin served[u]
  <2>4. t \in Dates /\ d \in served[t]
    BY <2>1 DEF T
  <2>5. \A u \in Dates : u > t => d \notin served[u]
    <3> SUFFICES ASSUME NEW u \in Dates, u > t, d \in served[u] PROVE FALSE
      OBVIOUS
    <3>1. u \in T
      BY DEF T
    <3> QED  BY <1>1, <2>1, <3>1
  <2>6. Says(Table(t))
    BY <2>4, <2>5
  <2>7. ASSUME NEW w, Says(w) PROVE w = Table(t)
    <3>1. PICK v \in Dates : /\ d \in served[v] /\ w = Table(v)
                             /\ \A u \in Dates : u > v => d \notin served[u]
      BY <2>7
    <3>2. v \in T /\ v \in Nat /\ t \in Nat
      BY <1>1, <2>1, <3>1 DEF T
    <3>3. v <= t /\ ~ (t > v)
      BY <2>1, <2>4, <3>1, <3>2
    <3>4. v = t
      BY <3>2, <3>3
    <3> QED  BY <3>1, <3>4
  <2>8. (CHOOSE w \in {Table(v) : v \in Dates} : Says(w)) = Table(t)
    <3>1. Table(t) \in {Table(v) : v \in Dates}
      BY <2>4
    <3> HIDE DEF Says
    <3> QED  BY <2>6, <2>7, <3>1
  <2>9. ~ \A v \in Dates : d \notin served[v]
    BY <2>4
  <2> QED  BY <2>3, <2>8, <2>9
<1> QED  BY <1>3, <1>4

\* What a search lists comes once in the sequence that is drawn from.
LEMMA MatchedOnce ==
  ASSUME NEW f
  PROVE  Matched(f) \in Seq(Menu) /\ Once(Matched(f))
<1>1. PICK s, t : s = ByName(Ready(f)) /\ t = ByName(OneMissing(f))
  OBVIOUS
<1>2. /\ Ready(f) \subseteq Menu /\ OneMissing(f) \subseteq Menu
      /\ Ready(f) \cap OneMissing(f) = {}
  BY DEF Ready, OneMissing, Candidates
<1>3. /\ s \in Seq(Ready(f)) /\ Once(s)
      /\ t \in Seq(OneMissing(f)) /\ Once(t)
  BY <1>1, <1>2, ByNameOnce
<1>4. s \in Seq(Menu) /\ t \in Seq(Menu)
  BY <1>2, <1>3, SeqMonotonic
<1>5. PICK r : r = s \o t
  OBVIOUS
<1>6. /\ r \in Seq(Menu) /\ Len(r) = Len(s) + Len(t)
      /\ \A i \in 1 .. Len(s) + Len(t) :
           r[i] = IF i <= Len(s) THEN s[i] ELSE t[i - Len(s)]
  BY <1>4, <1>5, ConcatProperties
<1>7. Len(s) \in Nat /\ Len(t) \in Nat
  BY <1>4, LenProperties
<1>8. /\ \A i \in 1 .. Len(s) : s[i] \in Ready(f)
      /\ \A i \in 1 .. Len(t) : t[i] \in OneMissing(f)
  BY <1>3, ElementOfSeq
<1>9. ASSUME NEW i \in 1 .. Len(r), NEW j \in 1 .. Len(r), r[i] = r[j] PROVE i = j
  <2>1. CASE i <= Len(s) /\ j <= Len(s)
    <3>1. i \in 1 .. Len(s) /\ j \in 1 .. Len(s) /\ s[i] = s[j]
      BY <1>6, <1>7, <1>9, <2>1
    <3> QED  BY <1>3, <3>1 DEF Once
  <2>2. CASE i > Len(s) /\ j > Len(s)
    <3>1. /\ i - Len(s) \in 1 .. Len(t) /\ j - Len(s) \in 1 .. Len(t)
          /\ t[i - Len(s)] = t[j - Len(s)]
      BY <1>6, <1>7, <1>9, <2>2
    <3>2. i - Len(s) = j - Len(s)
      BY <1>3, <3>1 DEF Once
    <3> QED  BY <1>6, <1>7, <3>2
  <2>3. CASE i <= Len(s) /\ j > Len(s)
    <3>1. i \in 1 .. Len(s) /\ j - Len(s) \in 1 .. Len(t) /\ s[i] = t[j - Len(s)]
      BY <1>6, <1>7, <1>9, <2>3
    <3> QED  BY <1>2, <1>8, <3>1
  <2>4. CASE i > Len(s) /\ j <= Len(s)
    <3>1. j \in 1 .. Len(s) /\ i - Len(s) \in 1 .. Len(t) /\ s[j] = t[i - Len(s)]
      BY <1>6, <1>7, <1>9, <2>4
    <3> QED  BY <1>2, <1>8, <3>1
  <2> QED  BY <1>6, <1>7, <2>1, <2>2, <2>3, <2>4
<1> QED  BY <1>1, <1>5, <1>6, <1>9 DEF Matched, Once

\* The day, the archive and the history stay what they are.
LEMMA TypeCorrect == Spec => []TypeOK
<1>1. Init => TypeOK
  BY MenuAssumption DEF MenuAssumption, Init, TypeOK
<1>2. TypeOK /\ [Next]_vars => TypeOK'
  <2> SUFFICES ASSUME TypeOK, [Next]_vars PROVE TypeOK'
    OBVIOUS
  <2>1. CASE NextDay
    BY <2>1, MenuAssumption DEF MenuAssumption, NextDay, TypeOK
  <2>2. ASSUME NEW t \in Dates, NEW D \in SUBSET Menu, ConfirmMenu(t, D) PROVE TypeOK'
    BY <2>2 DEF ConfirmMenu, TypeOK
  <2>3. ASSUME NEW d \in Menu, ArchiveDish(d) PROVE TypeOK'
    BY <2>3 DEF ArchiveDish, TypeOK
  <2>4. CASE UNCHANGED vars
    BY <2>4 DEF vars, TypeOK
  <2> QED  BY <2>1, <2>2, <2>3, <2>4 DEF Next
<1> QED  BY <1>1, <1>2, PTL DEF Spec

\* Whatever the filters and the history, every dish that a search would list is
\* drawn by as many tickets as the table gives it weight, and no other by any, at
\* every time.
THEOREM DrawIsFair == Spec => []DrawProportional
<1>1. TypeOK => DrawProportional
  <2> SUFFICES ASSUME TypeOK, NEW F \in {Matched(f) : f \in Filters}, NEW d \in Menu
      PROVE  Cardinality({k \in Tickets(F) : Draw(F, k) = d}) =
               IF d \notin Range(F) THEN 0
               ELSE IF \A t \in Dates : d \notin served[t] THEN 10
               ELSE CHOOSE w \in {Table(t) : t \in Dates} :
                      \E t \in Dates : /\ d \in served[t] /\ w = Table(t)
                                       /\ \A u \in Dates : u > t => d \notin served[u]
    BY Zenon DEF DrawProportional
  <2>1. F \in Seq(Menu) /\ Once(F)
    BY MatchedOnce
  <2>2. Cardinality({k \in Tickets(F) : Draw(F, k) = d}) =
          IF d \in Range(F) THEN Recency(d) ELSE 0
    BY <2>1, ShareOf
  <2> QED  BY <2>2, WeightOfTable
<1> QED  BY <1>1, TypeCorrect, PTL
=============================================================================
