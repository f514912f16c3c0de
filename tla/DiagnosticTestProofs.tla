------------------------ MODULE DiagnosticTestProofs ------------------------
(***************************************************************************)
(* Proofs about DiagnosticTest and the method it tests with, for every     *)
(* calendar, dataset and request, and any number of calls, alterations and *)
(* damaged records.  First the method: the loop that averages the places   *)
(* of sorted ties finds average ranks as they are defined, sums are        *)
(* numbers, and a result is that definition's.  Then the calls: the        *)
(* inductive invariant and the four safety invariants it implies.          *)
(***************************************************************************)
EXTENDS DiagnosticTest, FiniteSetTheorems, WellFoundedInduction, FunctionTheorems, TLAPS

-----------------------------------------------------------------------------
(* Fractions *)

IsFraction(d) == d.num \in Int /\ d.den \in Nat \ {0}

\* Multiplying out.
LEMMA CrossMultiplied ==
  ASSUME NEW x1 \in Int, NEW x2 \in Int, NEW x3 \in Int,
         NEW y1 \in Nat \ {0}, NEW y2 \in Nat \ {0}, NEW y3 \in Nat \ {0},
         x1 * y2 <= x2 * y1, x2 * y3 <= x3 * y2
  PROVE  x1 * y3 <= x3 * y1
<1>1. ASSUME NEW p \in Int, NEW q \in Int, NEW r \in Nat, p <= q
      PROVE  p * r <= q * r
  BY <1>1
<1>2. (x1 * y2) * y3 <= (x2 * y1) * y3
  BY <1>1
<1>3. (x2 * y3) * y1 <= (x3 * y2) * y1
  BY <1>1
<1>4. (x1 * y3) * y2 <= (x3 * y1) * y2
  BY <1>2, <1>3
<1>5. ASSUME NEW p \in Int, NEW q \in Int, NEW r \in Nat \ {0}, p * r <= q * r
      PROVE  p <= q
  <2>1. CASE q < p
    <3>1. (q + 1) * r <= p * r
      BY <2>1, <1>1
    <3> QED BY <3>1, <1>5
  <2> QED BY <2>1
<1> QED BY <1>4, <1>5

LEMMA BelowIsAnOrder ==
  ASSUME NEW a, NEW b, NEW c, IsFraction(a), IsFraction(b), IsFraction(c)
  PROVE  /\ ~Below(a, a)
         /\ Below(a, b) => ~Below(b, a)
         /\ ~Below(b, a) /\ ~Below(c, b) => ~Below(c, a)
         /\ Below(a, b) /\ ~Below(c, b) => Below(a, c)
         /\ ~Below(b, a) /\ Below(b, c) => Below(a, c)
<1> DEFINE x1 == a.num
           x2 == b.num
           x3 == c.num
           y1 == a.den
           y2 == b.den
           y3 == c.den
<1>1. /\ x1 \in Int /\ x2 \in Int /\ x3 \in Int
      /\ y1 \in Nat \ {0} /\ y2 \in Nat \ {0} /\ y3 \in Nat \ {0}
  BY DEF IsFraction
<1>2. /\ Below(a, a) <=> x1 * y1 < x1 * y1
      /\ Below(a, b) <=> x1 * y2 < x2 * y1
      /\ Below(b, a) <=> x2 * y1 < x1 * y2
      /\ Below(b, c) <=> x2 * y3 < x3 * y2
      /\ Below(c, b) <=> x3 * y2 < x2 * y3
      /\ Below(a, c) <=> x1 * y3 < x3 * y1
      /\ Below(c, a) <=> x3 * y1 < x1 * y3
  BY DEF Below
<1>3. x1 * y2 <= x2 * y1 /\ x2 * y3 <= x3 * y2 => x1 * y3 <= x3 * y1
  BY <1>1, CrossMultiplied
<1>4. x3 * y1 <= x1 * y3 /\ x1 * y2 <= x2 * y1 => x3 * y2 <= x2 * y3
  BY <1>1, CrossMultiplied
<1>5. x2 * y3 <= x3 * y2 /\ x3 * y1 <= x1 * y3 => x2 * y1 <= x1 * y2
  BY <1>1, CrossMultiplied
<1> HIDE DEF x1, x2, x3, y1, y2, y3
<1>6. /\ x1 * y1 \in Int /\ x1 * y2 \in Int /\ x2 * y1 \in Int /\ x2 * y3 \in Int
      /\ x3 * y2 \in Int /\ x1 * y3 \in Int /\ x3 * y1 \in Int
  BY <1>1
<1> QED BY <1>2, <1>3, <1>4, <1>5, <1>6

-----------------------------------------------------------------------------
(* Places in an order, and ranks *)

StrictOrder(R, S) ==
  /\ \A a \in S : <<a, a>> \notin R
  /\ \A a, b, c \in S : <<a, b>> \in R /\ <<b, c>> \in R => <<a, c>> \in R
  /\ \A a, b \in S : a # b => <<a, b>> \in R \/ <<b, a>> \in R

LEMMA FractionsAreOrdered ==
  ASSUME NEW f, DOMAIN f \subseteq Int, \A w \in DOMAIN f : IsFraction(f[w])
  PROVE  StrictOrder(AscendingFractions(f), DOMAIN f)
<1> DEFINE R == AscendingFractions(f)
<1>1. \A a, b \in DOMAIN f :
        <<a, b>> \in R <=> Below(f[a], f[b]) \/ (Tied(f[a], f[b]) /\ a < b)
  BY DEF AscendingFractions
<1> HIDE DEF R
<1>2. ASSUME NEW a \in DOMAIN f PROVE <<a, a>> \notin R
  BY <1>1, BelowIsAnOrder
<1>3. ASSUME NEW a \in DOMAIN f, NEW b \in DOMAIN f, a # b PROVE <<a, b>> \in R \/ <<b, a>> \in R
  BY <1>1, <1>3 DEF Tied
<1>4. ASSUME NEW a \in DOMAIN f, NEW b \in DOMAIN f, NEW c \in DOMAIN f,
             <<a, b>> \in R, <<b, c>> \in R
      PROVE  <<a, c>> \in R
  <2>1. /\ Below(f[a], f[b]) \/ (Tied(f[a], f[b]) /\ a < b)
        /\ Below(f[b], f[c]) \/ (Tied(f[b], f[c]) /\ b < c)
    BY <1>1, <1>4
  <2>2. IsFraction(f[a]) /\ IsFraction(f[b]) /\ IsFraction(f[c])
    OBVIOUS
  <2>3. CASE Below(f[a], f[c])
    BY <2>3, <1>1
  <2>4. CASE ~Below(f[a], f[c])
    <3>1. ~Below(f[a], f[b]) /\ ~Below(f[b], f[c])
      <4>1. Below(f[b], f[c]) => ~Below(f[c], f[b])
        BY <2>2, BelowIsAnOrder
      <4>2. Below(f[a], f[b]) => ~Below(f[b], f[a])
        BY <2>2, BelowIsAnOrder
      <4>3. /\ Below(f[a], f[b]) /\ ~Below(f[c], f[b]) => Below(f[a], f[c])
            /\ ~Below(f[b], f[a]) /\ Below(f[b], f[c]) => Below(f[a], f[c])
        BY <2>2, BelowIsAnOrder
      <4> QED BY <4>1, <4>2, <4>3, <2>1, <2>4 DEF Tied
    <3>2. ~Below(f[c], f[a])
      <4>1. ~Below(f[b], f[a]) /\ ~Below(f[c], f[b]) => ~Below(f[c], f[a])
        BY <2>2, BelowIsAnOrder
      <4> QED BY <4>1, <3>1, <2>1 DEF Tied
    <3>3. a < c
      BY <3>1, <2>1
    <3> QED BY <2>4, <3>2, <3>3, <1>1 DEF Tied
  <2> QED BY <2>3, <2>4
<1> QED BY <1>2, <1>3, <1>4 DEF StrictOrder, R

LEMMA IntegersAreOrdered ==
  ASSUME NEW f, DOMAIN f \subseteq Int, \A w \in DOMAIN f : f[w] \in Int
  PROVE  StrictOrder(Ascending(f), DOMAIN f)
<1> DEFINE R == Ascending(f)
<1>1. \A a, b \in DOMAIN f : <<a, b>> \in R <=> f[a] < f[b] \/ (f[a] = f[b] /\ a < b)
  BY DEF Ascending
<1> HIDE DEF R
<1> QED BY <1>1 DEF StrictOrder, R

LEMMA AllPlaces ==
  ASSUME NEW n \in Nat, NEW p \in [1..n -> 1..n],
         \A i, j \in 1..n : p[i] = p[j] => i = j
  PROVE  \A k \in 1..n : \E i \in 1..n : p[i] = k
<1>1. IsFiniteSet(1..n)
  BY FS_Interval
<1>2. p \in Injection(1..n, 1..n)
  BY DEF Injection, IsInjective
<1>3. p \in Surjection(1..n, 1..n)
  BY <1>1, <1>2, FS_Injection
<1> QED BY <1>3 DEF Surjection

\* Sorting: every element of a finite set has one place in a strict order.
LEMMA EverythingHasAPlace ==
  ASSUME NEW S, IsFiniteSet(S), NEW R, StrictOrder(R, S)
  PROVE  /\ InOrder(S, R) \in [1..Cardinality(S) -> S]
         /\ \A w \in S : \E i \in 1..Cardinality(S) : InOrder(S, R)[i] = w
         /\ \A i, j \in 1..Cardinality(S) : i < j => <<InOrder(S, R)[i], InOrder(S, R)[j]>> \in R
<1> DEFINE n == Cardinality(S)
           Smaller(w) == {x \in S : <<x, w>> \in R}
           place(w) == Cardinality(Smaller(w)) + 1
           order == InOrder(S, R)
<1>1. n \in Nat /\ ExistsBijection(1..n, S)
  BY FS_CardinalityType
<1>2. PICK s \in [1..n -> S] : /\ \A i, j \in 1..n : s[i] = s[j] => i = j
                              /\ \A w \in S : \E i \in 1..n : s[i] = w
  BY <1>1 DEF ExistsBijection, Bijection, Injection, Surjection, IsInjective
<1>3. ASSUME NEW w \in S
      PROVE  place(w) \in 1..n
  <2>1. Smaller(w) \subseteq S \ {w}
    BY DEF StrictOrder
  <2>2. IsFiniteSet(S \ {w}) /\ Cardinality(S \ {w}) = n - 1
    BY FS_RemoveElement
  <2>3. Cardinality(Smaller(w)) <= n - 1
    <3> HIDE DEF Smaller
    <3> QED BY <2>1, <2>2, FS_Subset
  <2>4. IsFiniteSet(Smaller(w))
    BY <2>1, <2>2, FS_Subset
  <2>5. Cardinality(Smaller(w)) \in Nat
    BY <2>4, FS_CardinalityType
  <2> QED BY <2>3, <2>5, <1>1
<1>4. ASSUME NEW v \in S, NEW w \in S, <<v, w>> \in R
      PROVE  place(v) < place(w)
  <2>1. Smaller(v) \subseteq Smaller(w) /\ v \in Smaller(w) /\ v \notin Smaller(v)
    BY <1>4 DEF StrictOrder
  <2>2. IsFiniteSet(Smaller(w)) /\ IsFiniteSet(Smaller(v))
    BY FS_Subset
  <2>3. Cardinality(Smaller(v)) <= Cardinality(Smaller(w))
        /\ Cardinality(Smaller(v)) # Cardinality(Smaller(w))
    <3> HIDE DEF Smaller
    <3> QED BY <2>1, <2>2, FS_Subset
  <2>4. Cardinality(Smaller(v)) \in Nat /\ Cardinality(Smaller(w)) \in Nat
    BY <2>2, FS_CardinalityType
  <2> QED BY <2>3, <2>4
<1>5. ASSUME NEW v \in S, NEW w \in S, place(v) < place(w)
      PROVE  <<v, w>> \in R
  <2> HIDE DEF place
  <2>1. ~(<<w, v>> \in R) /\ v # w
    BY <1>3, <1>4, <1>5
  <2> QED BY <2>1 DEF StrictOrder
<1>6. \A v, w \in S : place(v) = place(w) => v = w
  <2> SUFFICES ASSUME NEW v \in S, NEW w \in S, v # w PROVE place(v) # place(w)
    OBVIOUS
  <2>1. <<v, w>> \in R \/ <<w, v>> \in R
    BY DEF StrictOrder
  <2>2. place(v) < place(w) \/ place(w) < place(v)
    <3> HIDE DEF place
    <3> QED BY <2>1, <1>4
  <2>3. place(v) \in Int /\ place(w) \in Int
    <3> HIDE DEF place
    <3> QED BY <1>1, <1>3
  <2> HIDE DEF place
  <2> QED BY <2>2, <2>3
<1>7. \A k \in 1..n : \E w \in S : place(w) = k
  <2> DEFINE p == [i \in 1..n |-> place(s[i])]
  <2> HIDE DEF place
  <2>1. p \in [1..n -> 1..n]
    BY <1>2, <1>3
  <2>2. \A i, j \in 1..n : p[i] = p[j] => i = j
    BY <1>2, <1>6
  <2>3. \A k \in 1..n : \E i \in 1..n : p[i] = k
    <3> HIDE DEF p
    <3> QED BY <1>1, <2>1, <2>2, AllPlaces
  <2> QED BY <2>3, <1>2
<1>8. ASSUME NEW i \in 1..n
      PROVE  order[i] \in S /\ place(order[i]) = i
  <2>1. \A w \in S : Cardinality(Smaller(w)) = i - 1 <=> place(w) = i
    <3>1. ASSUME NEW w \in S PROVE Cardinality(Smaller(w)) \in Nat
      BY FS_Subset, FS_CardinalityType
    <3> HIDE DEF Smaller
    <3> QED BY <3>1, <1>1
  <2>2. \E w \in S : Cardinality(Smaller(w)) = i - 1
    BY <1>7, <2>1
  <2>3. order[i] = CHOOSE w \in S : Cardinality(Smaller(w)) = i - 1
    BY DEF InOrder
  <2>4. order[i] \in S /\ Cardinality(Smaller(order[i])) = i - 1
    <3> HIDE DEF Smaller, order
    <3> QED BY <2>2, <2>3
  <2> QED BY <2>1, <2>4
<1>9. order \in [1..n -> S]
  <2> DEFINE at(i) == CHOOSE w \in S : Cardinality(Smaller(w)) = i - 1
  <2>1. order = [i \in 1..n |-> at(i)]
    BY DEF InOrder
  <2> HIDE DEF order, at
  <2> QED BY <2>1, <1>8
<1>10. ASSUME NEW w \in S PROVE \E i \in 1..n : order[i] = w
  <2> HIDE DEF place, order
  <2> QED BY <1>3, <1>6, <1>8
<1>11. ASSUME NEW i \in 1..n, NEW j \in 1..n, i < j PROVE <<order[i], order[j]>> \in R
  <2> HIDE DEF place, order
  <2> QED BY <1>5, <1>8, <1>11
<1> QED BY <1>9, <1>10, <1>11

\* A set of places with every place before one of its own is all the first places.
LEMMA FirstPlaces ==
  ASSUME NEW n \in Nat, NEW P \in SUBSET (1..n),
         \A i, j \in 1..n : i < j /\ j \in P => i \in P
  PROVE  P = 1..Cardinality(P) /\ Cardinality(P) \in Nat
<1>1. CASE P = {}
  BY <1>1, FS_EmptySet
<1>2. CASE P # {}
  <2>1. IsFiniteSet(1..n)
    BY FS_Interval
  <2>2. IsFiniteSet(P) /\ Cardinality(P) \in Nat
    BY <2>1, FS_Subset, FS_CardinalityType
  <2> DEFINE gaps == {i \in 0..n : \A j \in P : j <= i}
  <2>3. n \in gaps
    OBVIOUS
  <2>4. PICK m \in gaps : \A i \in gaps : m <= i
    <3>1. gaps \subseteq Nat /\ gaps # {}
      BY <2>3
    <3> HIDE DEF gaps
    <3>2. PICK m \in gaps : \A i \in gaps : ~(<<i, m>> \in OpToRel(<, Nat))
      BY <3>1, NatLessThanWellFounded, WFMin
    <3>3. \A i \in gaps : ~(i < m)
      BY <3>1, <3>2 DEF OpToRel
    <3> QED BY <3>1, <3>3
  <2>5. m \in P
    <3>1. CASE m = 0
      <4>1. PICK j \in P : j <= 0
        BY <1>2, <3>1
      <4> QED BY <4>1
    <3>2. CASE m # 0
      <4>1. m - 1 \notin gaps /\ m - 1 \in 0..n
        BY <2>4, <3>2
      <4>2. PICK j \in P : ~(j <= m - 1)
        BY <4>1
      <4>3. j = m
        BY <4>2
      <4> QED BY <4>2, <4>3
    <3> QED BY <3>1, <3>2
  <2>6. P = 1..m
    <3>1. \A i \in P : i \in 1..m
      OBVIOUS
    <3>2. \A i \in 1..m : i \in P
      BY <2>5
    <3> QED BY <3>1, <3>2
  <2>7. Cardinality(1..m) = m
    BY <2>5, FS_Interval
  <2> QED BY <2>6, <2>7, <2>5
<1> QED BY <1>1, <1>2

\* The places at which the elements of a set are.
PlacesOf(s, n, T) == {i \in 1..n : s[i] \in T}

\* Every element has one place.
Numbers(s, n, S) ==
  /\ s \in [1..n -> S]
  /\ \A i, j \in 1..n : s[i] = s[j] => i = j
  /\ \A w \in S : \E i \in 1..n : s[i] = w

\* There are as many places as elements.
LEMMA AsManyElementsAsPlaces ==
  ASSUME NEW S, NEW n, NEW s, NEW T, n \in Nat, Numbers(s, n, S), T \subseteq S
  PROVE  Cardinality(PlacesOf(s, n, T)) = Cardinality(T)
<1> DEFINE P == PlacesOf(s, n, T)
           g == [i \in P |-> s[i]]
<1>1. IsFiniteSet(P)
  BY FS_Interval, FS_Subset DEF PlacesOf
<1>2. g \in Bijection(P, T)
  BY DEF Bijection, Injection, Surjection, IsInjective, PlacesOf, Numbers
<1>3. ExistsBijection(P, T)
  BY <1>2 DEF ExistsBijection
<1> QED BY <1>1, <1>3, FS_Bijection

\* The average of the first and the last place of the values tied with one, found in the
\* sorted order as average_ranks and _validator_ranks do, is its rank by definition: the
\* middle of the places that the smaller values leave to it and its equals.
THEOREM RanksAgree ==
  ASSUME NEW f, IsFiniteSet(DOMAIN f), DOMAIN f \subseteq Int,
         \A w \in DOMAIN f : IsFraction(f[w])
  PROVE  AverageRanks(f) = CountedRanks(f)
<1> DEFINE S == DOMAIN f
           n == Cardinality(S)
           order == Order(f)
           places(w) == {i \in DOMAIN order : Tied(f[order[i]], f[w])}
           less(w) == {x \in S : Below(f[x], f[w])}
           same(w) == {x \in S : Tied(f[x], f[w])}
<1>1. n \in Nat
  BY FS_CardinalityType
<1>2. /\ order \in [1..n -> S]
      /\ \A w \in S : \E i \in 1..n : order[i] = w
      /\ \A i, j \in 1..n : i < j => <<order[i], order[j]>> \in AscendingFractions(f)
  BY FractionsAreOrdered, EverythingHasAPlace DEF Order
<1> HIDE DEF order
<1>3. \A i, j \in 1..n : i < j => ~Below(f[order[j]], f[order[i]]) /\ order[i] # order[j]
  <2> SUFFICES ASSUME NEW i \in 1..n, NEW j \in 1..n, i < j
               PROVE  ~Below(f[order[j]], f[order[i]]) /\ order[i] # order[j]
    OBVIOUS
  <2>1. <<order[i], order[j]>> \in AscendingFractions(f) /\ order[i] \in S /\ order[j] \in S
    BY <1>2
  <2>2. \/ Below(f[order[i]], f[order[j]])
        \/ Tied(f[order[i]], f[order[j]])
    BY <2>1 DEF AscendingFractions
  <2>3. ~Below(f[order[j]], f[order[i]])
    BY <2>1, <2>2, BelowIsAnOrder DEF Tied
  <2>4. <<order[i], order[i]>> \notin AscendingFractions(f)
    BY <2>1, FractionsAreOrdered DEF StrictOrder
  <2> QED BY <2>1, <2>3, <2>4
<1>4. \A i, j \in 1..n : order[i] = order[j] => i = j
  BY <1>1, <1>3
<1>5. Numbers(order, n, S)
  BY <1>2, <1>4 DEF Numbers
<1>6. ASSUME NEW w \in S
      PROVE  Min(places(w)) + Max(places(w)) = 2 * Cardinality(less(w)) + Cardinality(same(w)) + 1
  <2> DEFINE b == Cardinality(less(w))
             c == Cardinality(same(w))
             L == PlacesOf(order, n, less(w))
             M == PlacesOf(order, n, less(w) \cup same(w))
  <2>1. L = 1..b /\ b \in Nat
    <3>1. Cardinality(L) = b
      <4>1. less(w) \subseteq S
        OBVIOUS
      <4> HIDE DEF less, n, S
      <4> QED BY <4>1, <1>1, <1>5, AsManyElementsAsPlaces
    <3>2. \A i, j \in 1..n : i < j /\ j \in L => i \in L
      <4> SUFFICES ASSUME NEW i \in 1..n, NEW j \in 1..n, i < j, Below(f[order[j]], f[w])
                   PROVE  Below(f[order[i]], f[w])
        BY <1>2 DEF PlacesOf
      <4>1. ~Below(f[order[j]], f[order[i]])
        BY <1>3
      <4> QED BY <4>1, <1>2, BelowIsAnOrder
    <3>3. L = 1..Cardinality(L) /\ Cardinality(L) \in Nat
      <4> HIDE DEF L
      <4>1. L \in SUBSET (1..n)
        BY DEF L, PlacesOf
      <4> QED BY <4>1, <3>2, <1>1, FirstPlaces
    <3> QED BY <3>1, <3>3
  <2>2. Cardinality(less(w) \cup same(w)) = b + c /\ c \in Nat
    <3>1. IsFiniteSet(less(w)) /\ IsFiniteSet(same(w))
      BY FS_Subset
    <3>2. less(w) \cap same(w) = {}
      BY DEF Tied
    <3>3. Cardinality(less(w) \cap same(w)) = 0
      BY <3>2, FS_EmptySet
    <3>4. b \in Nat /\ c \in Nat
      BY <3>1, FS_CardinalityType
    <3> HIDE DEF less, same
    <3>5. Cardinality(less(w) \cup same(w)) = b + c - Cardinality(less(w) \cap same(w))
      BY <3>1, FS_Union
    <3> QED BY <3>3, <3>4, <3>5
  <2>3. M = 1..(b + c)
    <3>1. Cardinality(M) = b + c
      <4> DEFINE T == less(w) \cup same(w)
      <4>1. T \subseteq S
        OBVIOUS
      <4> HIDE DEF T, n, S
      <4>2. Cardinality(PlacesOf(order, n, T)) = Cardinality(T)
        BY <4>1, <1>1, <1>5, AsManyElementsAsPlaces
      <4> QED BY <4>2, <2>2 DEF T
    <3>2. \A i \in 1..n : i \in M <=> ~Below(f[w], f[order[i]])
      BY <1>2, BelowIsAnOrder DEF Tied, PlacesOf
    <3>3. \A i, j \in 1..n : i < j /\ j \in M => i \in M
      <4> HIDE DEF M
      <4> SUFFICES ASSUME NEW i \in 1..n, NEW j \in 1..n, i < j, ~Below(f[w], f[order[j]])
                   PROVE  ~Below(f[w], f[order[i]])
        BY <3>2
      <4>1. ~Below(f[order[j]], f[order[i]])
        BY <1>3
      <4> QED BY <4>1, <1>2, BelowIsAnOrder
    <3>4. M = 1..Cardinality(M)
      <4>1. M \in SUBSET (1..n)
        BY DEF PlacesOf
      <4> HIDE DEF M
      <4> QED BY <4>1, <3>3, <1>1, FirstPlaces
    <3> QED BY <3>1, <3>4
  <2>4. places(w) = (b + 1)..(b + c)
    <3>1. DOMAIN order = 1..n
      BY <1>2
    <3>2. \A i \in 1..n : Tied(f[order[i]], f[w]) <=> i \in M /\ i \notin L
      BY <1>2 DEF Tied, PlacesOf
    <3>3. ASSUME NEW i PROVE i \in places(w) <=> i \in M /\ i \notin L
      <4>1. i \in places(w) <=> i \in 1..n /\ Tied(f[order[i]], f[w])
        BY <3>1
      <4>2. i \in M => i \in 1..n
        BY DEF PlacesOf
      <4> HIDE DEF places, L, M
      <4> QED BY <4>1, <4>2, <3>2
    <3> HIDE DEF places, L, M
    <3>4. \A i : i \in M /\ i \notin L <=> i \in (b + 1)..(b + c)
      <4> HIDE DEF b, c
      <4> QED BY <2>1, <2>2, <2>3
    <3> QED BY <3>3, <3>4
  <2>5. c >= 1
    <3>1. w \in same(w)
      BY BelowIsAnOrder DEF Tied
    <3>2. IsFiniteSet(same(w))
      BY FS_Subset
    <3>3. c # 0
      <4> HIDE DEF same
      <4> QED BY <3>1, <3>2, FS_EmptySet
    <3> HIDE DEF c
    <3> QED BY <3>3, <2>2
  <2> HIDE DEF places, b, c
  <2>6. Min(places(w)) = b + 1
    BY <2>1, <2>2, <2>4, <2>5 DEF Min
  <2>7. Max(places(w)) = b + c
    BY <2>1, <2>2, <2>4, <2>5 DEF Max
  <2>8. Min(places(w)) + Max(places(w)) = 2 * b + c + 1
    BY <2>1, <2>2, <2>6, <2>7
  <2> QED BY <2>8 DEF b, c
<1>7. AverageRanks(f) = [w \in S |-> Min(places(w)) + Max(places(w))]
  BY DEF AverageRanks, order
<1>8. CountedRanks(f) = [w \in S |-> 2 * Cardinality(less(w)) + Cardinality(same(w)) + 1]
  BY DEF CountedRanks
<1> HIDE DEF places, less, same
<1> QED BY <1>6, <1>7, <1>8

-----------------------------------------------------------------------------
(* Sums *)

Pick(s) == CHOOSE x \in s : TRUE
Others(s) == s \ {Pick(s)}

LEMMA OthersAreFewer ==
  ASSUME NEW S, IsFiniteSet(S), NEW s \in SUBSET S, s # {}
  PROVE  /\ Pick(s) \in s
         /\ Others(s) \in SUBSET S /\ Others(s) \subseteq s /\ Others(s) # s
         /\ s = Others(s) \cup {Pick(s)}
         /\ IsFiniteSet(s) /\ IsFiniteSet(Others(s))
         /\ Cardinality(s) \in Nat /\ Cardinality(Others(s)) \in Nat
         /\ Cardinality(Others(s)) = Cardinality(s) - 1
<1>1. Pick(s) \in s
  BY DEF Pick
<1>2. IsFiniteSet(s)
  BY FS_Subset
<1>3. IsFiniteSet(Others(s)) /\ Cardinality(Others(s)) = Cardinality(s) - 1
  BY <1>1, <1>2, FS_RemoveElement DEF Others
<1>4. Cardinality(s) \in Nat /\ Cardinality(Others(s)) \in Nat
  BY <1>2, <1>3, FS_CardinalityType
<1> QED BY <1>1, <1>2, <1>3, <1>4 DEF Others

\* The sums over the subsets of a set D contains, each from a smaller one.
Sums(f, D, sum) == sum = [s \in D |-> IF s = {} THEN 0 ELSE f[Pick(s)] + sum[Others(s)]]

UpTo(S, n) == {s \in SUBSET S : Cardinality(s) <= n}

LEMMA SumsExist ==
  ASSUME NEW f, NEW S, IsFiniteSet(S)
  PROVE  \E sum : Sums(f, SUBSET S, sum)
<1> DEFINE bad == {n \in Nat : ~ \E sum : Sums(f, UpTo(S, n), sum)}
<1>1. bad = {}
  <2> SUFFICES ASSUME bad # {} PROVE FALSE
    OBVIOUS
  <2>1. PICK m \in bad : \A n \in bad : ~(<<n, m>> \in OpToRel(<, Nat))
    <3>1. bad \subseteq Nat
      OBVIOUS
    <3> HIDE DEF bad
    <3> QED BY <3>1, NatLessThanWellFounded, WFMin
  <2>2. m \in Nat /\ \A n \in bad : ~(n < m)
    BY <2>1 DEF OpToRel
  <2>3. CASE m = 0
    <3>1. \A s \in UpTo(S, 0) : s = {}
      BY FS_Subset, FS_CardinalityType, FS_EmptySet DEF UpTo
    <3>2. Sums(f, UpTo(S, 0), [s \in UpTo(S, 0) |-> 0])
      BY <3>1 DEF Sums
    <3> QED BY <3>2, <2>3
  <2>4. CASE m # 0
    <3>1. m - 1 \in Nat /\ m - 1 \notin bad
      BY <2>2, <2>4
    <3>2. PICK g : Sums(f, UpTo(S, m - 1), g)
      BY <3>1
    <3> DEFINE h == [s \in UpTo(S, m) |-> IF s = {} THEN 0 ELSE f[Pick(s)] + g[Others(s)]]
    <3>3. ASSUME NEW s \in UpTo(S, m), s # {}
          PROVE  Others(s) \in UpTo(S, m - 1) /\ Others(s) \in UpTo(S, m)
      <4>1. Cardinality(s) <= m /\ s \in SUBSET S
        BY DEF UpTo
      <4> QED BY <2>2, <4>1, <3>3, OthersAreFewer DEF UpTo
    <3>4. ASSUME NEW r \in UpTo(S, m - 1), r \in UpTo(S, m)
          PROVE  h[r] = g[r]
      <4>1. g[r] = IF r = {} THEN 0 ELSE f[Pick(r)] + g[Others(r)]
        BY <3>2 DEF Sums
      <4> QED BY <4>1, <3>4
    <3>5. h = [s \in UpTo(S, m) |-> IF s = {} THEN 0 ELSE f[Pick(s)] + h[Others(s)]]
      <4>1. \A s \in UpTo(S, m) : s # {} => h[Others(s)] = g[Others(s)]
        <5> HIDE DEF h
        <5> QED BY <3>3, <3>4
      <4> DEFINE k == h
      <4>2. \A s \in UpTo(S, m) : s # {} => k[Others(s)] = g[Others(s)]
        BY <4>1
      <4> HIDE DEF k
      <4>3. h = [s \in UpTo(S, m) |-> IF s = {} THEN 0 ELSE f[Pick(s)] + k[Others(s)]]
        BY <4>2
      <4> QED BY <4>3 DEF k
    <3>6. Sums(f, UpTo(S, m), h)
      <4> HIDE DEF h
      <4> QED BY <3>5 DEF Sums
    <3> QED BY <3>6
  <2> QED BY <2>3, <2>4
<1>2. Cardinality(S) \in Nat /\ UpTo(S, Cardinality(S)) = SUBSET S
  BY FS_Subset, FS_CardinalityType DEF UpTo
<1>3. \E sum : Sums(f, UpTo(S, Cardinality(S)), sum)
  BY <1>1, <1>2
<1> QED BY <1>2, <1>3

\* A sum is a number, and of numbers that are not negative not below any of them.
THEOREM SumIsANumber ==
  ASSUME NEW f, NEW S, IsFiniteSet(S), \A x \in S : f[x] \in Int
  PROVE  /\ SumOver(f, S) \in Int
         /\ (\A x \in S : f[x] >= 0) => \A x \in S : SumOver(f, S) >= f[x]
<1>1. PICK it : Sums(f, SUBSET S, it)
  BY SumsExist
<1>2. PICK sum : Sums(f, SUBSET S, sum) /\ SumOver(f, S) = sum[S]
  BY <1>1 DEF SumOver, MapThenSumSet, MapThenFoldSet, Sums, Pick, Others
<1> DEFINE good(s) == /\ sum[s] \in Int
                      /\ (\A x \in S : f[x] >= 0) => sum[s] >= 0 /\ \A x \in s : sum[s] >= f[x]
           bad == {s \in SUBSET S : ~good(s)}
<1>3. bad = {}
  <2> SUFFICES ASSUME bad # {} PROVE FALSE
    OBVIOUS
  <2>1. PICK s \in bad : \A r \in bad : ~(<<r, s>> \in StrictSubsetOrdering(S))
    <3>1. bad \subseteq FiniteSubsetsOf(S)
      BY FS_FiniteSubsetsOfFinite
    <3>2. IsWellFoundedOn(StrictSubsetOrdering(S), FiniteSubsetsOf(S))
      BY FS_StrictSubsetOrderingWellFounded
    <3> HIDE DEF bad
    <3> QED BY <3>1, <3>2, WFMin
  <2>2. s \in SUBSET S
    OBVIOUS
  <2>3. sum[s] = IF s = {} THEN 0 ELSE f[Pick(s)] + sum[Others(s)]
    BY <1>2, <2>2 DEF Sums
  <2>4. s # {}
    BY <2>3
  <2>5. /\ Pick(s) \in s /\ Others(s) \in SUBSET S /\ Others(s) \subseteq s /\ Others(s) # s
        /\ s = Others(s) \cup {Pick(s)}
    BY <2>2, <2>4, OthersAreFewer
  <2>6. Others(s) \notin bad
    <3> HIDE DEF bad
    <3> QED BY <2>1, <2>2, <2>5 DEF StrictSubsetOrdering
  <2>7. good(Others(s))
    BY <2>5, <2>6
  <2>8. sum[s] = f[Pick(s)] + sum[Others(s)] /\ f[Pick(s)] \in Int /\ sum[Others(s)] \in Int
    BY <2>3, <2>4, <2>5, <2>7, <2>2
  <2>9. ASSUME \A x \in S : f[x] >= 0
        PROVE  sum[s] >= 0 /\ \A x \in s : sum[s] >= f[x]
    <3>1. sum[Others(s)] >= 0 /\ f[Pick(s)] >= 0 /\ \A x \in Others(s) : sum[Others(s)] >= f[x]
      BY <2>7, <2>9, <2>5, <2>2
    <3>2. ASSUME NEW x \in s PROVE sum[s] >= f[x]
      <4>1. x = Pick(s) \/ x \in Others(s)
        BY <2>5
      <4>2. f[x] \in Int
        BY <2>2
      <4> QED BY <4>1, <4>2, <3>1, <2>8
    <3> QED BY <3>1, <3>2, <2>8
  <2> QED BY <2>1, <2>8, <2>9
<1>4. good(S)
  BY <1>3
<1> QED BY <1>2, <1>4

-----------------------------------------------------------------------------
(* Observations *)

IsDataset(d) == IsFiniteSet(d) /\ \A l \in d : l.day \in Int /\ l.revenue \in Int

ArePeriods(periods) ==
  /\ periods.baseline.start \in Int /\ periods.baseline.end \in Int
  /\ periods.comparison.start \in Int /\ periods.comparison.end \in Int

LEMMA MedianIsANumber ==
  ASSUME NEW f, IsFiniteSet(DOMAIN f), DOMAIN f # {}, DOMAIN f \subseteq Int,
         \A w \in DOMAIN f : f[w] \in Int
  PROVE  Median2(f) \in Int
<1> DEFINE n == Cardinality(DOMAIN f)
           order == InOrder(DOMAIN f, Ascending(f))
<1>1. n \in Nat /\ n # 0
  BY FS_CardinalityType, FS_EmptySet
<1>2. \A i \in 1..n : order[i] \in DOMAIN f
  <2>1. StrictOrder(Ascending(f), DOMAIN f)
    BY IntegersAreOrdered
  <2>2. order \in [1..n -> DOMAIN f]
    BY <2>1, EverythingHasAPlace
  <2> HIDE DEF order
  <2> QED BY <2>2
<1>3. \A i \in 1..n : f[order[i]] \in Int
  BY <1>2
<1> HIDE DEF order
<1>4. CASE n % 2 = 1
  <2>1. (n + 1) \div 2 \in 1..n
    BY <1>1
  <2>2. Median2(f) = 2 * f[order[(n + 1) \div 2]]
    BY <1>4 DEF Median2, order
  <2> HIDE DEF n
  <2> QED BY <2>1, <2>2, <1>3
<1>5. CASE n % 2 # 1
  <2> HIDE DEF n
  <2>1. n \div 2 \in 1..n /\ n \div 2 + 1 \in 1..n
    BY <1>1, <1>5
  <2>2. Median2(f) = f[order[n \div 2]] + f[order[n \div 2 + 1]]
    BY <1>5 DEF Median2, order, n
  <2> QED BY <2>1, <2>2, <1>3
<1> QED BY <1>4, <1>5

WeeksOf(periods, data) ==
  ValidWeeks(periods.baseline, data) \cup ValidWeeks(periods.comparison, data)

LEMMA WeeksAreDays ==
  ASSUME NEW period, NEW data, period.start \in Int, period.end \in Int
  PROVE  /\ IsFiniteSet(ValidWeeks(period, data))
         /\ ValidWeeks(period, data) \subseteq Int
         /\ \A w \in ValidWeeks(period, data) : LinesOf(data, w) # {}
         /\ \A w \in ValidWeeks(period, data) : \A d \in w..(w + WeekDays - 1) :
              d \in period.start..period.end
<1>1. ValidWeeks(period, data) \subseteq period.start..period.end
  BY DEF ValidWeeks, FullWeeks
<1>2. IsFiniteSet(period.start..period.end)
  BY FS_Interval
<1>3. IsFiniteSet(ValidWeeks(period, data))
  BY <1>1, <1>2, FS_Subset
<1>4. ValidWeeks(period, data) \subseteq Int
  BY <1>1
<1>5. \A w \in ValidWeeks(period, data) : LinesOf(data, w) # {}
  BY DEF ValidWeeks
<1>6. ASSUME NEW w \in ValidWeeks(period, data), NEW d \in w..(w + WeekDays - 1)
      PROVE  d \in period.start..period.end
  <2>1. w \in period.start..period.end /\ w + WeekDays - 1 <= period.end
    BY DEF ValidWeeks, FullWeeks
  <2>2. WeekDays \in Nat
    BY MethodAssumption
  <2> QED BY <2>1, <2>2
<1> QED BY <1>3, <1>4, <1>5, <1>6

LEMMA DistanceIsAFraction ==
  ASSUME NEW products, NEW known, IsFiniteSet(products), IsFiniteSet(known), products # {}
  PROVE  IsFraction(JaccardDistance(products, known))
<1> DEFINE union == Cardinality(products \cup known)
           common == Cardinality(products \cap known)
<1>1. IsFiniteSet(products \cup known) /\ IsFiniteSet(products \cap known)
  BY FS_Union, FS_Intersection
<1>2. union \in Nat /\ common \in Nat
  BY <1>1, FS_CardinalityType
<1>3. union # 0
  <2>1. products \cup known # {}
    OBVIOUS
  <2> QED BY <2>1, <1>1, FS_EmptySet
<1>4. JaccardDistance(products, known) = [num |-> union - common, den |-> union]
  BY DEF JaccardDistance
<1> HIDE DEF union, common
<1> QED BY <1>2, <1>3, <1>4 DEF IsFraction

LEMMA ProductsAreFinite ==
  ASSUME NEW d, IsFiniteSet(d)
  PROVE  IsFiniteSet(ProductsOf(d)) /\ (d # {} => ProductsOf(d) # {})
<1> DEFINE g == [l \in d |-> l.product]
<1>1. g \in Surjection(d, ProductsOf(d))
  BY DEF Surjection, ProductsOf
<1>2. IsFiniteSet(ProductsOf(d))
  BY <1>1, FS_Surjection
<1>3. d # {} => ProductsOf(d) # {}
  BY DEF ProductsOf
<1> QED BY <1>2, <1>3

LEMMA RevenueIsANumber ==
  ASSUME NEW data, IsDataset(data), NEW w
  PROVE  RevenueOfWeek(data, w) \in Int
<1> DEFINE L == LinesOf(data, w)
           g == [l \in L |-> l.revenue]
<1>1. L \subseteq data
  BY DEF LinesOf, Between
<1>2. IsFiniteSet(L)
  BY <1>1, FS_Subset DEF IsDataset
<1>3. \A l \in L : g[l] \in Int
  BY <1>1 DEF IsDataset
<1>4. SumOver(g, L) \in Int
  <2> HIDE DEF g, L
  <2> QED BY <1>2, <1>3, SumIsANumber
<1> QED BY <1>4 DEF RevenueOfWeek

\* The observations over a dataset that can be computed.
LEMMA VectorsAreFractions ==
  ASSUME NEW periods, NEW data, ArePeriods(periods), IsDataset(data), Computable(periods, data)
  PROVE  /\ IsFiniteSet(WeeksOf(periods, data)) /\ WeeksOf(periods, data) \subseteq Int
         /\ DOMAIN Observations(periods, data).distance = WeeksOf(periods, data)
         /\ DOMAIN Observations(periods, data).deviation = WeeksOf(periods, data)
         /\ \A w \in WeeksOf(periods, data) : IsFraction(Observations(periods, data).distance[w])
         /\ \A w \in WeeksOf(periods, data) : IsFraction(Observations(periods, data).deviation[w])
<1> DEFINE W == WeeksOf(periods, data)
           B == ValidWeeks(periods.baseline, data)
           revenue == [w \in W |-> RevenueOfWeek(data, w)]
           ofBaseline == [w \in B |-> revenue[w]]
           reference2 == Median2(ofBaseline)
           known == BaselineProducts(periods, data)
           o == Observations(periods, data)
<1>1. IsFiniteSet(W) /\ W \subseteq Int /\ IsFiniteSet(B) /\ B \subseteq W
  BY WeeksAreDays, FS_Union DEF ArePeriods, WeeksOf
<1>2. /\ o.distance = [w \in W |-> JaccardDistance(ProductsOf(LinesOf(data, w)), known)]
      /\ o.deviation = [w \in W |-> [num |-> 2 * revenue[w] - reference2, den |-> 2]]
  BY DEF Observations, WeeksOf
<1>3. ASSUME NEW w \in W PROVE IsFraction(o.distance[w])
  <2>1. LinesOf(data, w) # {}
    BY WeeksAreDays DEF ArePeriods, WeeksOf
  <2>2. IsFiniteSet(LinesOf(data, w))
    BY FS_Subset DEF LinesOf, Between, IsDataset
  <2>3. IsFiniteSet(Between(data, periods.baseline.start, periods.baseline.end))
    BY FS_Subset DEF Between, IsDataset
  <2>4. IsFiniteSet(known)
    BY <2>3, ProductsAreFinite DEF BaselineProducts
  <2>5. IsFiniteSet(ProductsOf(LinesOf(data, w))) /\ ProductsOf(LinesOf(data, w)) # {}
    BY <2>1, <2>2, ProductsAreFinite
  <2> HIDE DEF known, W, o
  <2> QED BY <1>2, <2>4, <2>5, DistanceIsAFraction
<1>4. \A w \in W : revenue[w] \in Int
  BY RevenueIsANumber
<1>5. ASSUME NEW w \in W PROVE IsFraction(o.deviation[w])
  <2>1. B # {}
    BY DEF Computable, WeeksOf
  <2>2. DOMAIN ofBaseline = B /\ \A v \in B : ofBaseline[v] \in Int
    BY <1>1, <1>4
  <2>3. reference2 \in Int
    <3> HIDE DEF ofBaseline, B
    <3> QED BY <1>1, <2>1, <2>2, MedianIsANumber
  <2>4. o.deviation[w] = [num |-> 2 * revenue[w] - reference2, den |-> 2]
    BY <1>2
  <2> HIDE DEF revenue, reference2, o
  <2> QED BY <1>4, <2>3, <2>4 DEF IsFraction
<1>6. DOMAIN o.distance = W /\ DOMAIN o.deviation = W
  BY <1>2
<1> QED BY <1>1, <1>3, <1>5, <1>6

\* Over the same lines, the execution and the validator come to the result that the
\* definition of an average rank gives, ties included.
THEOREM MethodIsAsDefined ==
  ASSUME NEW periods, NEW data, ArePeriods(periods), IsDataset(data), Computable(periods, data)
  PROVE  /\ ExecutedResult(periods, data) = DefinedResult(periods, data)
         /\ ExpectedResult(periods, data) = DefinedResult(periods, data)
<1> DEFINE o == Observations(periods, data)
<1>1. AverageRanks(o.distance) = CountedRanks(o.distance)
  <2> DEFINE f == o.distance
  <2>1. IsFiniteSet(DOMAIN f) /\ DOMAIN f \subseteq Int /\ \A w \in DOMAIN f : IsFraction(f[w])
    BY VectorsAreFractions
  <2> HIDE DEF f
  <2>2. AverageRanks(f) = CountedRanks(f)
    BY <2>1, RanksAgree
  <2> QED BY <2>2 DEF f
<1>2. AverageRanks(o.deviation) = CountedRanks(o.deviation)
  <2> DEFINE f == o.deviation
  <2>1. IsFiniteSet(DOMAIN f) /\ DOMAIN f \subseteq Int /\ \A w \in DOMAIN f : IsFraction(f[w])
    BY VectorsAreFractions
  <2> HIDE DEF f
  <2>2. AverageRanks(f) = CountedRanks(f)
    BY <2>1, RanksAgree
  <2> QED BY <2>2 DEF f
<1> QED BY <1>1, <1>2 DEF ExecutedResult, ExpectedResult, ValidatorRanks, DefinedResult

-----------------------------------------------------------------------------
(* Coefficients *)

\* Centred ranks are numbers, and those of values that are not all tied are not all zero.
LEMMA CentredRanksVary ==
  ASSUME NEW f, IsFiniteSet(DOMAIN f), \A w \in DOMAIN f : IsFraction(f[w])
  PROVE  /\ DOMAIN CountedRanks(f) = DOMAIN f /\ DOMAIN Centred(CountedRanks(f)) = DOMAIN f
         /\ \A w \in DOMAIN f : Centred(CountedRanks(f))[w] \in Int
         /\ ~Constant(f) => \E w \in DOMAIN f : Centred(CountedRanks(f))[w] # 0
<1> DEFINE S == DOMAIN f
           less(w) == {x \in S : Below(f[x], f[w])}
           same(w) == {x \in S : Tied(f[x], f[w])}
           rank(w) == 2 * Cardinality(less(w)) + Cardinality(same(w)) + 1
           middle == Cardinality(S) + 1
           c == Centred(CountedRanks(f))
<1>1. CountedRanks(f) = [w \in S |-> rank(w)]
  BY DEF CountedRanks
<1>2. c = [w \in S |-> rank(w) - middle]
  <2> HIDE DEF rank
  <2> QED BY <1>1 DEF Centred
<1>3. middle \in Int
  BY FS_CardinalityType
<1>4. ASSUME NEW w \in S
      PROVE  /\ IsFiniteSet(less(w)) /\ IsFiniteSet(same(w))
             /\ Cardinality(less(w)) \in Nat /\ Cardinality(same(w)) \in Nat
             /\ rank(w) \in Int
             /\ w \in same(w)
  <2>1. IsFiniteSet(less(w)) /\ IsFiniteSet(same(w))
    BY FS_Subset
  <2>2. Cardinality(less(w)) \in Nat /\ Cardinality(same(w)) \in Nat
    BY <2>1, FS_CardinalityType
  <2>3. w \in same(w)
    BY BelowIsAnOrder DEF Tied
  <2>4. rank(w) \in Int
    <3> HIDE DEF less, same
    <3> QED BY <2>2
  <2> QED BY <2>1, <2>2, <2>3, <2>4
<1>5. ASSUME NEW v \in S, NEW w \in S, Below(f[v], f[w])
      PROVE  rank(v) < rank(w)
  <2>1. less(v) \cup same(v) \subseteq less(w)
    BY <1>5, BelowIsAnOrder DEF Tied
  <2>2. less(v) \cap same(v) = {}
    BY DEF Tied
  <2>3. Cardinality(less(v) \cap same(v)) = 0
    BY <2>2, FS_EmptySet
  <2> HIDE DEF less, same, S
  <2>4. IsFiniteSet(less(v) \cup same(v))
        /\ Cardinality(less(v) \cup same(v)) = Cardinality(less(v)) + Cardinality(same(v))
    <3>1. IsFiniteSet(less(v)) /\ IsFiniteSet(same(v))
      BY <1>4
    <3>2. IsFiniteSet(less(v) \cup same(v)) /\ Cardinality(less(v) \cup same(v)) =
            Cardinality(less(v)) + Cardinality(same(v)) - Cardinality(less(v) \cap same(v))
      BY <3>1, FS_Union
    <3>3. Cardinality(less(v)) \in Nat /\ Cardinality(same(v)) \in Nat
      BY <1>4
    <3> QED BY <3>2, <3>3, <2>3
  <2>5. Cardinality(less(v) \cup same(v)) <= Cardinality(less(w))
    BY <1>4, <2>1, FS_Subset
  <2>6. Cardinality(same(v)) # 0 /\ Cardinality(same(w)) # 0
    BY <1>4, FS_EmptySet
  <2> QED BY <1>4, <2>4, <2>5, <2>6
<1> HIDE DEF rank, middle, c
<1>6. ASSUME ~Constant(f)
      PROVE  \E w \in S : c[w] # 0
  <2>1. PICK v \in S, w \in S : ~Tied(f[v], f[w])
    BY <1>6 DEF Constant
  <2>2. rank(v) # rank(w)
    <3>1. rank(v) \in Int /\ rank(w) \in Int
      BY <1>4
    <3> QED BY <2>1, <3>1, <1>5 DEF Tied
  <2>3. rank(v) \in Int /\ rank(w) \in Int
    BY <1>4
  <2>4. c[v] = rank(v) - middle /\ c[w] = rank(w) - middle
    BY <1>2
  <2> QED BY <1>3, <2>2, <2>3, <2>4
<1>7. DOMAIN CountedRanks(f) = S /\ DOMAIN c = S
  BY <1>1, <1>2
<1>8. ASSUME NEW w \in S PROVE c[w] \in Int
  <2>1. c[w] = rank(w) - middle
    BY <1>2
  <2>2. rank(w) \in Int
    BY <1>4
  <2> QED BY <1>3, <2>1, <2>2
<1> QED BY <1>6, <1>7, <1>8 DEF c

LEMMA SumOfSquares ==
  ASSUME NEW x, NEW W, W = DOMAIN x, IsFiniteSet(W), \A w \in W : x[w] \in Int
  PROVE  /\ SumOver(Products(x, x), W) \in Nat
         /\ (\E w \in W : x[w] # 0) => SumOver(Products(x, x), W) > 0
<1> DEFINE p == Products(x, x)
<1>1. \A w \in W : p[w] = x[w] * x[w]
  BY DEF Products
<1>2. ASSUME NEW a \in Int PROVE a * a \in Int /\ a * a >= 0 /\ (a # 0 => a * a > 0)
  <2>1. CASE a >= 0
    BY <2>1
  <2>2. CASE a < 0
    BY <2>2
  <2> QED BY <2>1, <2>2
<1>3. \A w \in W : p[w] \in Int /\ p[w] >= 0 /\ (x[w] # 0 => p[w] > 0)
  BY <1>1, <1>2
<1> HIDE DEF p
<1>4. SumOver(p, W) \in Int /\ \A w \in W : SumOver(p, W) >= p[w]
  BY <1>3, SumIsANumber
<1>5. ASSUME NEW w \in W, x[w] # 0 PROVE SumOver(p, W) > 0
  BY <1>3, <1>4, <1>5
<1>6. SumOver(p, W) >= 0
  <2>1. CASE W = {}
    <3>1. SumOver(p, {}) = 0
      <4>1. IsFiniteSet({})
        BY FS_EmptySet
      <4>2. PICK it : Sums(p, SUBSET {}, it)
        BY <4>1, SumsExist
      <4>3. PICK sum : Sums(p, SUBSET {}, sum) /\ SumOver(p, {}) = sum[{}]
        BY <4>2 DEF SumOver, MapThenSumSet, MapThenFoldSet, Sums, Pick, Others
      <4> QED BY <4>3 DEF Sums
    <3> QED BY <2>1, <3>1
  <2>2. CASE W # {}
    BY <2>2, <1>3, <1>4
  <2> QED BY <2>1, <2>2
<1> QED BY <1>4, <1>5, <1>6 DEF p

LEMMA ReasonsOfAnOutcome ==
  ASSUME NEW o, Reasons(o) = {}
  PROVE  /\ ~(Cardinality(o.baseline \cup o.comparison) < MinWeeks)
         /\ ~(Cardinality(o.baseline) < MinBaseline)
         /\ ~(Cardinality(o.comparison) < MinComparison)
         /\ o.baseline \cup o.comparison # {} => ~Constant(o.distance) /\ ~Constant(o.deviation)
BY DEF Reasons

\* The three sums of rho, over the ranks as they are defined.
Distance(periods, data) == Centred(CountedRanks(Observations(periods, data).distance))
Deviation(periods, data) == Centred(CountedRanks(Observations(periods, data).deviation))

SumOfProducts(periods, data) ==
  SumOver(Products(Distance(periods, data), Deviation(periods, data)), WeeksOf(periods, data))
SumOfDistances(periods, data) ==
  SumOver(Products(Distance(periods, data), Distance(periods, data)), WeeksOf(periods, data))
SumOfDeviations(periods, data) ==
  SumOver(Products(Deviation(periods, data), Deviation(periods, data)), WeeksOf(periods, data))

LEMMA SumsOfRho ==
  ASSUME NEW periods, NEW data, ArePeriods(periods), IsDataset(data), Computable(periods, data),
         Reasons(Observations(periods, data)) = {}
  PROVE  /\ DefinedResult(periods, data).rho
              = [xy |-> SumOfProducts(periods, data), xx |-> SumOfDistances(periods, data),
                 yy |-> SumOfDeviations(periods, data)]
         /\ SumOfProducts(periods, data) \in Int
         /\ SumOfDistances(periods, data) \in Int /\ SumOfDistances(periods, data) > 0
         /\ SumOfDeviations(periods, data) \in Int /\ SumOfDeviations(periods, data) > 0
<1> DEFINE x == Distance(periods, data)
           y == Deviation(periods, data)
           W == WeeksOf(periods, data)
           o == Observations(periods, data)
           f == o.distance
           g == o.deviation
<1>1. /\ IsFiniteSet(W) /\ W \subseteq Int /\ DOMAIN f = W /\ DOMAIN g = W
      /\ \A w \in W : IsFraction(f[w]) /\ IsFraction(g[w])
  BY VectorsAreFractions
<1>2. o.baseline \cup o.comparison = W
  BY DEF Observations, WeeksOf
<1>3. W # {}
  <2>1. ~(Cardinality(W) < MinWeeks)
    <3> HIDE DEF o
    <3> QED BY <1>2, ReasonsOfAnOutcome DEF o
  <2>2. MinWeeks \in Nat \ {0}
    BY MethodAssumption
  <2> QED BY <2>1, <2>2, FS_EmptySet
<1>4. ~Constant(f) /\ ~Constant(g)
  <2> HIDE DEF o
  <2> QED BY <1>2, <1>3, ReasonsOfAnOutcome DEF o
<1>5. x = Centred(CountedRanks(f)) /\ y = Centred(CountedRanks(g))
  BY DEF Distance, Deviation
<1>6. DefinedResult(periods, data).rho = Spearman(CountedRanks(f), CountedRanks(g))
  BY DEF DefinedResult, ResultOf
<1> HIDE DEF f, g, o, x, y, W
<1>7. /\ DOMAIN x = W /\ DOMAIN CountedRanks(f) = W /\ (\A w \in W : x[w] \in Int)
      /\ \E w \in W : x[w] # 0
  BY <1>1, <1>4, <1>5, CentredRanksVary
<1>8. DOMAIN y = W /\ (\A w \in W : y[w] \in Int) /\ \E w \in W : y[w] # 0
  BY <1>1, <1>4, <1>5, CentredRanksVary
<1>9. Spearman(CountedRanks(f), CountedRanks(g))
        = [xy |-> SumOver(Products(x, y), W), xx |-> SumOver(Products(x, x), W),
           yy |-> SumOver(Products(y, y), W)]
  BY <1>5, <1>7 DEF Spearman
<1>10. SumOver(Products(x, y), W) \in Int
  <2> DEFINE p == Products(x, y)
  <2>1. \A w \in W : p[w] = x[w] * y[w]
    BY <1>7 DEF Products
  <2> HIDE DEF p
  <2>2. \A w \in W : p[w] \in Int
    BY <2>1, <1>7, <1>8
  <2>3. SumOver(p, W) \in Int
    BY <2>2, <1>1, SumIsANumber
  <2> QED BY <2>3 DEF p
<1>11. SumOver(Products(x, x), W) \in Int /\ SumOver(Products(x, x), W) > 0
  <2>1. SumOver(Products(x, x), W) \in Nat
    BY <1>1, <1>7, SumOfSquares
  <2>2. (\E w \in W : x[w] # 0) => SumOver(Products(x, x), W) > 0
    BY <1>1, <1>7, SumOfSquares
  <2> QED BY <1>7, <2>1, <2>2
<1>12. SumOver(Products(y, y), W) \in Int /\ SumOver(Products(y, y), W) > 0
  <2>1. SumOver(Products(y, y), W) \in Nat
    BY <1>1, <1>8, SumOfSquares
  <2>2. (\E w \in W : y[w] # 0) => SumOver(Products(y, y), W) > 0
    BY <1>1, <1>8, SumOfSquares
  <2> QED BY <1>8, <2>1, <2>2
<1> QED BY <1>6, <1>9, <1>10, <1>11, <1>12 DEF SumOfProducts, SumOfDistances, SumOfDeviations, x, y, W

-----------------------------------------------------------------------------
(* The calls *)

Outcomes == {"met", "not met", "contradicted"}

Misread(c, stage) == <<c, stage>> \in misread
Twice(c) == {<<c, "execution">>, <<c, "validation">>} \subseteq misread

\* What the method makes of the registered dataset.
MethodResult == ExecutedResult(Periods, registered)
MethodRuns == Computable(Periods, registered)

\* An outcome has its records, and they are the method's unless the call misread twice.
HasLineage(e) ==
  \E f :
    /\ Record("execution", e.name, f) \in records
    /\ Record("result", f, [result |-> f, event |-> e.name]) \in records
    /\ Record("validated", f, [result |-> f, event |-> e.name]) \in records
    /\ Record("validation", e.name, [result |-> f, passed |-> TRUE]) \in records
    /\ \E at : Record("request", "request", at) \in records
    /\ EvidenceSet \in records
    /\ e.body = IF f.reasons # {} THEN "inconclusive" ELSE Outcome(f)
    /\ ~Twice(e.name) => f = MethodResult

EvaluationIsSound(e) ==
  /\ e.name \in 1..calls
  /\ e.body \notin {"execution failed", "validation failed"} => HasLineage(e)
  /\ e.body = "validation failed" => Misread(e.name, "execution") \/ Misread(e.name, "validation")

EvaluationsAreSound == \A e \in Of("evaluation") : EvaluationIsSound(e)

NamesAreTaken == \A r, s \in records : r.kind = s.kind /\ r.name = s.name => r = s

CallIsCounted == pc # "idle" => calls >= 1

Compared == pc \in {"validation record", "validated", "evaluation", "complete"}
WithResult == Compared \/ pc \in {"check", "reread", "compare"}
WithExecution == WithResult \/ pc = "result"
Executed == WithExecution \/ pc = "execution record"

\* The records the present call has left behind.
RecordsFit ==
  /\ pc \notin {"idle", "gates", "evidence"} => EvidenceSet \in records
  /\ pc \notin {"idle", "gates", "evidence", "request"} => RequestRecord \in records
  /\ WithExecution => CompletedExecution \in records
  /\ WithResult => ResultRecord \in records
  /\ pc \in {"validated", "evaluation", "complete"} => ValidationRecord \in records
  /\ pc \in {"evaluation", "complete"} /\ verdict => ValidatedRecord \in records
  /\ pc = "validated" => verdict

\* What the present call has read, and what it made of it.
ReadingsFit ==
  /\ pc = "calculate" /\ ~Misread(calls, "execution") => lines = registered
  /\ Executed /\ ~Misread(calls, "execution") => MethodRuns /\ executed = MethodResult
  /\ pc = "compare" /\ ~Misread(calls, "validation") => lines = registered
  /\ Compared /\ ~Misread(calls, "validation") =>
       MethodRuns /\ (verdict => executed = MethodResult)
  /\ Compared /\ ~Misread(calls, "execution") /\ ~Misread(calls, "validation") => verdict

\* What the caller has been told.
AnswerFits ==
  /\ pc # "idle" => answer = "nothing"
  /\ answer \in Outcomes /\ ~Twice(calls) =>
       MethodRuns /\ MethodResult.reasons = {} /\ answer = Outcome(MethodResult)

IInv ==
  /\ TypeOK /\ CallIsCounted /\ NamesAreTaken /\ EvaluationsAreSound
  /\ RecordsFit /\ ReadingsFit /\ AnswerFits
-----------------------------------------------------------------------------
LEMMA DatasetsAreLines ==
  ASSUME registered \in Datasets
  PROVE  ArePeriods(Periods) /\ IsDataset(registered)
BY TestAssumption DEF ArePeriods, IsDataset, Period

\* Both readings of the registered dataset have the same result.
LEMMA ExpectedIsTheMethods ==
  ASSUME registered \in Datasets, MethodRuns
  PROVE  ExpectedResult(Periods, registered) = MethodResult
BY DatasetsAreLines, MethodIsAsDefined DEF MethodRuns, MethodResult

LEMMA OutcomeValues ==
  ASSUME NEW r
  PROVE  /\ Outcome(r) \in Outcomes \cup {"not evaluated"}
         /\ r.reasons = {} => Outcome(r) \in Outcomes
         /\ Outcome(r) \notin {"execution failed", "validation failed"}
BY DEF Outcome, Outcomes

LEMMA RecordFields ==
  ASSUME NEW kind, NEW name, NEW body
  PROVE  /\ Record(kind, name, body).kind = kind
         /\ Record(kind, name, body).name = name
         /\ Record(kind, name, body).body = body
BY DEF Record

\* What a record says of its call stays true when records and misreadings are added.
LEMMA SoundStaysSound ==
  ASSUME NEW e, EvaluationIsSound(e), records \subseteq records', misread \subseteq misread',
         registered' = registered, calls \in Nat, calls' \in Nat, calls <= calls'
  PROVE  EvaluationIsSound(e)'
<1>1. e.name \in 1..calls'
  <2>1. e.name \in 1..calls
    BY DEF EvaluationIsSound
  <2> QED BY <2>1
<1>2. ASSUME e.body = "validation failed"
      PROVE  (Misread(e.name, "execution") \/ Misread(e.name, "validation"))'
  BY <1>2 DEF EvaluationIsSound, Misread
<1>3. ASSUME e.body \notin {"execution failed", "validation failed"}
      PROVE  HasLineage(e)'
  <2>1. HasLineage(e)
    BY <1>3 DEF EvaluationIsSound
  <2>2. Twice(e.name) => Twice(e.name)'
    BY DEF Twice
  <2>3. MethodResult' = MethodResult
    BY DEF MethodResult
  <2> HIDE DEF Twice, MethodResult
  <2> QED BY <2>1, <2>2, <2>3 DEF HasLineage, EvidenceSet
<1> QED BY <1>1, <1>2, <1>3 DEF EvaluationIsSound

LEMMA CallNumber ==
  ASSUME IInv
  PROVE  calls \in Nat /\ (pc # "idle" => calls \in 1..calls)
<1>1. calls \in Nat
  BY TestAssumption DEF IInv, TypeOK
<1>2. pc # "idle" => calls >= 1
  BY DEF IInv, CallIsCounted
<1> QED BY <1>1, <1>2

\* The invariant after a step that writes no record.
LEMMA NothingWritten ==
  ASSUME IInv, TypeOK', CallIsCounted', UNCHANGED <<registered, records>>,
         misread \subseteq misread', calls <= calls',
         RecordsFit', ReadingsFit', AnswerFits'
  PROVE  IInv'
<1>1. NamesAreTaken'
  BY DEF IInv, NamesAreTaken
<1>2. calls \in Nat /\ calls' \in Nat
  BY DEF IInv, TypeOK
<1>3. EvaluationsAreSound'
  <2>1. \A e \in Of("evaluation") : EvaluationIsSound(e)'
    BY <1>2, SoundStaysSound DEF IInv, EvaluationsAreSound
  <2>2. Of("evaluation")' = Of("evaluation")
    BY DEF Of
  <2> QED BY <2>1, <2>2 DEF EvaluationsAreSound
<1> QED BY <1>1, <1>3 DEF IInv

LEMMA ReturnKeepsIt ==
  ASSUME IInv, NEW a, Return(a), a \in Outcomes => AnswerFits'
  PROVE  IInv'
<1>1. TypeOK'
  BY DEF IInv, TypeOK, Return, environment
<1>2. CallIsCounted' /\ RecordsFit' /\ ReadingsFit'
  BY DEF IInv, CallIsCounted, RecordsFit, ReadingsFit, Return, Executed, WithExecution, WithResult,
         Compared
<1>3. AnswerFits'
  BY DEF Return, AnswerFits
<1>4. UNCHANGED <<registered, records>> /\ misread \subseteq misread' /\ calls <= calls'
  BY DEF Return, environment, IInv, TypeOK
<1> QED BY <1>1, <1>2, <1>3, <1>4, NothingWritten

\* What a persist does when nothing is in its way.
Stores(record, next) ==
  /\ records' = records \cup {record}
  /\ pc' = next
  /\ UNCHANGED <<environment, request, reading, answer, spoilt, calls>>

LEMMA PersistKeepsIt ==
  ASSUME IInv, NEW record, NEW next, Persist(record, next), pc # "idle", next # "idle",
         record.kind = "evaluation" => EvaluationIsSound(record),
         Stores(record, next) => RecordsFit' /\ ReadingsFit'
  PROVE  IInv'
<1>1. CASE Conflict(record)
  <2>1. Return("exception")
    BY <1>1 DEF Persist
  <2> QED BY <2>1, ReturnKeepsIt DEF Outcomes
<1>2. CASE ~Conflict(record)
  <2>1. Stores(record, next)
    BY <1>2 DEF Persist, Stores
  <2>2. TypeOK' /\ CallIsCounted'
    BY <2>1 DEF IInv, TypeOK, CallIsCounted, Stores, environment, reading
  <2>3. NamesAreTaken'
    BY <2>1, <1>2 DEF IInv, NamesAreTaken, Stores, Conflict
  <2>4. AnswerFits'
    <3>1. answer = "nothing" /\ answer' = answer
      BY <2>1 DEF IInv, AnswerFits, Stores
    <3> QED BY <3>1 DEF AnswerFits, Outcomes
  <2>5. EvaluationsAreSound'
    <3>1. ASSUME NEW e \in Of("evaluation")' PROVE EvaluationIsSound(e)
      BY <2>1 DEF IInv, EvaluationsAreSound, Of, Stores
    <3>2. /\ records \subseteq records' /\ misread \subseteq misread' /\ registered' = registered
          /\ calls \in Nat /\ calls' \in Nat /\ calls <= calls'
      BY <2>1 DEF IInv, TypeOK, Stores, environment
    <3>3. \A e \in Of("evaluation")' : EvaluationIsSound(e)'
      BY <3>1, <3>2, SoundStaysSound
    <3> QED BY <3>3 DEF EvaluationsAreSound
  <2> QED BY <2>1, <2>2, <2>3, <2>4, <2>5 DEF IInv
<1> QED BY <1>1, <1>2

-----------------------------------------------------------------------------
LEMMA InitEstablishes ==
  ASSUME Init
  PROVE  IInv
<1>1. TypeOK
  <2>1. Requests # {} /\ MaxCalls \in Nat
    BY TestAssumption
  <2>2. request \in Requests
    BY <2>1 DEF Init
  <2>3. calls \in 0..MaxCalls /\ misread = {}
    BY <2>1 DEF Init
  <2> QED BY <2>2, <2>3 DEF Init, TypeOK
<1>2. CallIsCounted /\ NamesAreTaken /\ RecordsFit /\ ReadingsFit /\ AnswerFits
  BY DEF Init, CallIsCounted, NamesAreTaken, RecordsFit, ReadingsFit, AnswerFits, Outcomes,
         Executed, WithExecution, WithResult, Compared
<1>3. EvaluationsAreSound
  BY DEF Init, EvaluationsAreSound, Of
<1> QED BY <1>1, <1>2, <1>3 DEF IInv

\* A step that changes neither records nor readings but may go on.
LEMMA GoingOnKeepsIt ==
  ASSUME IInv, NEW next, GoTo(next), Keep, pc # "idle", next # "idle", RecordsFit', ReadingsFit'
  PROVE  IInv'
<1>1. TypeOK' /\ CallIsCounted'
  BY DEF IInv, TypeOK, CallIsCounted, Keep, environment, reading
<1>2. AnswerFits'
  <2>1. answer = "nothing" /\ answer' = answer
    BY DEF IInv, AnswerFits, Keep
  <2> QED BY <2>1 DEF AnswerFits, Outcomes
<1>3. UNCHANGED <<registered, records>> /\ misread \subseteq misread' /\ calls <= calls'
  BY DEF IInv, TypeOK, Keep, environment
<1> QED BY <1>1, <1>2, <1>3, NothingWritten

LEMMA CallKeepsIt ==
  ASSUME IInv, Call
  PROVE  IInv'
<1>1. calls \in Nat /\ calls' = calls + 1 /\ calls + 1 <= MaxCalls
  BY TestAssumption DEF IInv, TypeOK, Call
<1>2. TypeOK' /\ CallIsCounted'
  BY <1>1 DEF IInv, TypeOK, CallIsCounted, Call, environment, reading
<1>3. RecordsFit' /\ ReadingsFit' /\ AnswerFits'
  BY DEF Call, RecordsFit, ReadingsFit, AnswerFits, Outcomes, Executed, WithExecution, WithResult,
         Compared
<1>4. UNCHANGED <<registered, records>> /\ misread \subseteq misread' /\ calls <= calls'
  BY <1>1 DEF Call, environment
<1> QED BY <1>2, <1>3, <1>4, NothingWritten

LEMMA GatesKeepIt ==
  ASSUME IInv, PassGates \/ RefuseAtGates
  PROVE  IInv'
<1>1. CASE PassGates
  <2>1. RecordsFit' /\ ReadingsFit'
    BY <1>1 DEF PassGates, GoTo, RecordsFit, ReadingsFit, Executed, WithExecution, WithResult,
                Compared
  <2>2. GoTo("evidence") /\ Keep /\ pc # "idle"
    BY <1>1 DEF PassGates
  <2> QED BY <2>1, <2>2, GoingOnKeepsIt
<1>2. CASE RefuseAtGates
  BY <1>2, ReturnKeepsIt DEF RefuseAtGates, Outcomes
<1> QED BY <1>1, <1>2

LEMMA PersistEvidenceKeepsIt ==
  ASSUME IInv, PersistEvidence
  PROVE  IInv'
<1>1. Stores(EvidenceSet, "request") => RecordsFit' /\ ReadingsFit'
  BY DEF Stores, RecordsFit, ReadingsFit, Executed, WithExecution, WithResult, Compared, EvidenceSet
<1>2. EvidenceSet.kind # "evaluation"
  BY RecordFields DEF EvidenceSet
<1>3. Persist(EvidenceSet, "request") /\ pc # "idle"
  BY DEF PersistEvidence
<1> QED BY <1>1, <1>2, <1>3, PersistKeepsIt

LEMMA PersistRequestKeepsIt ==
  ASSUME IInv, PersistRequest
  PROVE  IInv'
<1>1. pc = "request" /\ EvidenceSet \in records
  BY DEF PersistRequest, IInv, RecordsFit
<1>2. Stores(RequestRecord, "binding") => RecordsFit' /\ ReadingsFit'
  BY <1>1 DEF Stores, RecordsFit, ReadingsFit, Executed, WithExecution, WithResult, Compared,
              EvidenceSet, RequestRecord
<1>3. RequestRecord.kind # "evaluation"
  BY RecordFields DEF RequestRecord
<1>4. Persist(RequestRecord, "binding")
  BY DEF PersistRequest
<1> QED BY <1>1, <1>2, <1>3, <1>4, PersistKeepsIt

LEMMA ExecutionKeepsIt ==
  ASSUME IInv, BeginExecution \/ ExecutionFails
  PROVE  IInv'
<1>1. CASE BeginExecution
  <2>1. pc = "binding" /\ GoTo("read") /\ Keep
    BY <1>1 DEF BeginExecution
  <2>2. RecordsFit' /\ ReadingsFit'
    BY <2>1 DEF IInv, GoTo, Keep, RecordsFit, ReadingsFit, Executed, WithExecution, WithResult,
                Compared, EvidenceSet, RequestRecord
  <2> QED BY <2>1, <2>2, GoingOnKeepsIt
<1>2. CASE ExecutionFails
  <2>1. pc \in {"binding", "read", "calculate"} /\ GoTo("failed execution") /\ Keep
    BY <1>2 DEF ExecutionFails
  <2>2. RecordsFit' /\ ReadingsFit'
    BY <2>1 DEF IInv, GoTo, Keep, RecordsFit, ReadingsFit, Executed, WithExecution, WithResult,
                Compared, EvidenceSet, RequestRecord
  <2> QED BY <2>1, <2>2, GoingOnKeepsIt
<1> QED BY <1>1, <1>2

\* Reading the file: other lines than registered are a misreading.
LEMMA ReadEffect ==
  ASSUME IInv, NEW stage \in {"execution", "validation"}, NEW next, Read(stage, next),
         pc # "idle", next # "idle"
  PROVE  /\ TypeOK' /\ CallIsCounted' /\ AnswerFits'
         /\ UNCHANGED <<registered, records>> /\ misread \subseteq misread' /\ calls <= calls'
         /\ Misread(calls, stage)' \/ lines' = registered'
         /\ pc' = next
<1>1. calls \in 1..MaxCalls /\ calls' = calls /\ MaxCalls \in Nat
  BY TestAssumption DEF IInv, TypeOK, CallIsCounted, Read
<1>2. misread' \in {misread, misread \cup {<<calls, stage>>}}
  BY DEF Read
<1>3. misread' \subseteq (1..MaxCalls) \X {"execution", "validation"}
  BY <1>1, <1>2 DEF IInv, TypeOK
<1>4. TypeOK' /\ CallIsCounted'
  BY <1>1, <1>3 DEF IInv, TypeOK, CallIsCounted, Read
<1>5. AnswerFits'
  <2>1. answer = "nothing" /\ answer' = answer
    BY DEF IInv, AnswerFits, Read
  <2> QED BY <2>1 DEF AnswerFits, Outcomes
<1>6. Misread(calls, stage)' \/ lines' = registered'
  BY <1>1 DEF Read, Misread
<1>7. UNCHANGED <<registered, records>> /\ misread \subseteq misread' /\ calls <= calls' /\ pc' = next
  BY <1>1, <1>2 DEF Read
<1> QED BY <1>4, <1>5, <1>6, <1>7

LEMMA ReadLinesKeepsIt ==
  ASSUME IInv, ReadLines
  PROVE  IInv'
<1>1. pc = "read" /\ Read("execution", "calculate")
  BY DEF ReadLines
<1>2. /\ TypeOK' /\ CallIsCounted' /\ AnswerFits'
      /\ UNCHANGED <<registered, records>> /\ misread \subseteq misread' /\ calls <= calls'
      /\ Misread(calls, "execution")' \/ lines' = registered'
      /\ pc' = "calculate"
  BY <1>1, ReadEffect
<1>3. RecordsFit'
  BY <1>1, <1>2 DEF IInv, Read, RecordsFit, Executed, WithExecution, WithResult, Compared,
                    EvidenceSet, RequestRecord
<1>4. ReadingsFit'
  <2> HIDE DEF Misread
  <2> QED BY <1>2 DEF ReadingsFit, Executed, WithExecution, WithResult, Compared
<1> QED BY <1>2, <1>3, <1>4, NothingWritten

LEMMA CalculateKeepsIt ==
  ASSUME IInv, Calculate
  PROVE  IInv'
<1>1. pc = "calculate" /\ pc' = "execution record" /\ Computable(Periods, lines)
      /\ executed' = ExecutedResult(Periods, lines)
      /\ UNCHANGED <<environment, request, lines, verdict, answer, records, spoilt, calls>>
  BY DEF Calculate
<1>2. TypeOK' /\ CallIsCounted'
  BY <1>1 DEF IInv, TypeOK, CallIsCounted, environment
<1>3. AnswerFits'
  <2>1. answer = "nothing" /\ answer' = answer
    BY <1>1 DEF IInv, AnswerFits
  <2> QED BY <2>1 DEF AnswerFits, Outcomes
<1>4. RecordsFit'
  BY <1>1 DEF IInv, RecordsFit, Executed, WithExecution, WithResult, Compared,
              EvidenceSet, RequestRecord
<1>5. ReadingsFit'
  <2>1. Misread(calls, "execution") \/ lines = registered
    BY <1>1 DEF IInv, ReadingsFit
  <2>2. Misread(calls, "execution")' <=> Misread(calls, "execution")
    BY <1>1 DEF Misread, environment
  <2>3. registered' = registered
    BY <1>1 DEF environment
  <2>4. ~Misread(calls, "execution")' => MethodRuns' /\ executed' = MethodResult'
    BY <1>1, <2>1, <2>2, <2>3 DEF MethodRuns, MethodResult
  <2> QED BY <1>1, <2>4 DEF ReadingsFit, Executed, WithExecution, WithResult, Compared
<1>6. UNCHANGED <<registered, records>> /\ misread \subseteq misread' /\ calls <= calls'
  <2>1. calls \in Nat
    BY CallNumber
  <2>2. registered' = registered /\ records' = records /\ misread' = misread /\ calls' = calls
    BY <1>1 DEF environment
  <2> QED BY <2>1, <2>2
<1> QED BY <1>2, <1>3, <1>4, <1>5, <1>6, NothingWritten

LEMMA EvaluationSound ==
  ASSUME NEW state, calls \in 1..calls,
         state \notin {"execution failed", "validation failed"} => HasLineage(Evaluation(state)),
         state = "validation failed" => Misread(calls, "execution") \/ Misread(calls, "validation")
  PROVE  EvaluationIsSound(Evaluation(state))
<1>1. Evaluation(state).name = calls /\ Evaluation(state).body = state
  BY DEF Evaluation, Record
<1> QED BY <1>1 DEF EvaluationIsSound

LEMMA PersistFailuresKeepsIt ==
  ASSUME IInv, PersistFailedExecution \/ PersistFailedEvaluation \/ ReturnFailure
  PROVE  IInv'
<1>1. CASE PersistFailedExecution
  <2>1. pc = "failed execution" /\ Persist(FailedExecution, "failed evaluation")
    BY <1>1 DEF PersistFailedExecution
  <2>2. FailedExecution.kind # "evaluation"
    BY RecordFields DEF FailedExecution
  <2>3. Stores(FailedExecution, "failed evaluation") => RecordsFit' /\ ReadingsFit'
    BY <2>1 DEF IInv, Stores, RecordsFit, ReadingsFit, Executed, WithExecution, WithResult, Compared,
                EvidenceSet, RequestRecord
  <2> QED BY <2>1, <2>2, <2>3, PersistKeepsIt
<1>2. CASE PersistFailedEvaluation
  <2>1. pc = "failed evaluation" /\ Persist(Evaluation("execution failed"), "return failure")
    BY <1>2 DEF PersistFailedEvaluation
  <2>2. EvaluationIsSound(Evaluation("execution failed"))
    BY <2>1, CallNumber, EvaluationSound
  <2>3. Stores(Evaluation("execution failed"), "return failure") => RecordsFit' /\ ReadingsFit'
    BY <2>1 DEF IInv, Stores, RecordsFit, ReadingsFit, Executed, WithExecution, WithResult, Compared,
                EvidenceSet, RequestRecord
  <2> QED BY <2>1, <2>2, <2>3, PersistKeepsIt
<1>3. CASE ReturnFailure
  BY <1>3, ReturnKeepsIt DEF ReturnFailure, Outcomes
<1> QED BY <1>1, <1>2, <1>3

LEMMA PersistResultsKeepsIt ==
  ASSUME IInv, PersistExecution \/ PersistResult
  PROVE  IInv'
<1>1. CASE PersistExecution
  <2>1. pc = "execution record" /\ Persist(CompletedExecution, "result")
    BY <1>1 DEF PersistExecution
  <2>2. CompletedExecution.kind # "evaluation"
    BY RecordFields DEF CompletedExecution
  <2>3. ASSUME Stores(CompletedExecution, "result") PROVE RecordsFit'
    BY <2>1, <2>3 DEF IInv, Stores, RecordsFit, Executed, WithExecution, WithResult, Compared,
                EvidenceSet, RequestRecord, CompletedExecution, reading
  <2>4. ASSUME Stores(CompletedExecution, "result") PROVE ReadingsFit'
    <3>1. Misread(calls, "execution")' <=> Misread(calls, "execution")
      BY <2>4 DEF Misread, Stores, environment
    <3>2. MethodRuns' = MethodRuns /\ MethodResult' = MethodResult /\ executed' = executed
      BY <2>4 DEF MethodRuns, MethodResult, Stores, environment, reading
    <3>3. ~Misread(calls, "execution")' => MethodRuns /\ executed = MethodResult
      BY <2>1, <3>1 DEF IInv, ReadingsFit, Executed
    <3>4. pc' = "result"
      BY <2>4 DEF Stores
    <3> QED BY <3>2, <3>3, <3>4 DEF ReadingsFit, Executed, WithExecution, WithResult, Compared
  <2> QED BY <2>1, <2>2, <2>3, <2>4, PersistKeepsIt
<1>2. CASE PersistResult
  <2>1. pc = "result" /\ Persist(ResultRecord, "check")
    BY <1>2 DEF PersistResult
  <2>2. ResultRecord.kind # "evaluation"
    BY RecordFields DEF ResultRecord
  <2>3. ASSUME Stores(ResultRecord, "check") PROVE RecordsFit'
    BY <2>1, <2>3 DEF IInv, Stores, RecordsFit, Executed, WithExecution, WithResult, Compared,
                EvidenceSet, RequestRecord, CompletedExecution, ResultRecord, ResultFingerprint,
                Found, reading
  <2>4. ASSUME Stores(ResultRecord, "check") PROVE ReadingsFit'
    <3>1. Misread(calls, "execution")' <=> Misread(calls, "execution")
      BY <2>4 DEF Misread, Stores, environment
    <3>2. MethodRuns' = MethodRuns /\ MethodResult' = MethodResult /\ executed' = executed
      BY <2>4 DEF MethodRuns, MethodResult, Stores, environment, reading
    <3>3. ~Misread(calls, "execution")' => MethodRuns /\ executed = MethodResult
      BY <2>1, <3>1 DEF IInv, ReadingsFit, Executed, WithExecution
    <3>4. pc' = "check"
      BY <2>4 DEF Stores
    <3> QED BY <3>2, <3>3, <3>4 DEF ReadingsFit, Executed, WithExecution, WithResult, Compared
  <2> QED BY <2>1, <2>2, <2>3, <2>4, PersistKeepsIt
<1> QED BY <1>1, <1>2

LEMMA CheckDatasetKeepsIt ==
  ASSUME IInv, CheckDataset
  PROVE  IInv'
<1>1. CASE Verified
  <2>1. pc = "check" /\ GoTo("reread") /\ Keep
    BY <1>1 DEF CheckDataset
  <2>2. RecordsFit'
    BY <2>1 DEF IInv, GoTo, Keep, RecordsFit, Executed, WithExecution, WithResult, Compared,
                EvidenceSet, RequestRecord, CompletedExecution, ResultRecord, ResultFingerprint,
                Found, reading
  <2>3. ReadingsFit'
    <3>1. Misread(calls, "execution")' <=> Misread(calls, "execution")
      BY <2>1 DEF Misread, Keep, environment
    <3>2. MethodRuns' = MethodRuns /\ MethodResult' = MethodResult /\ executed' = executed
      BY <2>1 DEF MethodRuns, MethodResult, Keep, environment, reading
    <3>3. ~Misread(calls, "execution")' => MethodRuns /\ executed = MethodResult
      BY <2>1, <3>1 DEF IInv, ReadingsFit, Executed, WithExecution, WithResult
    <3>4. pc' = "reread"
      BY <2>1 DEF GoTo
    <3> QED BY <3>2, <3>3, <3>4 DEF ReadingsFit, Executed, WithExecution, WithResult, Compared
  <2> QED BY <2>1, <2>2, <2>3, GoingOnKeepsIt
<1>2. CASE ~Verified
  BY <1>2, ReturnKeepsIt DEF CheckDataset, Outcomes
<1> QED BY <1>1, <1>2

LEMMA RereadLinesKeepsIt ==
  ASSUME IInv, RereadLines
  PROVE  IInv'
<1>1. pc = "reread" /\ Read("validation", "compare")
  BY DEF RereadLines
<1>2. /\ TypeOK' /\ CallIsCounted' /\ AnswerFits'
      /\ UNCHANGED <<registered, records>> /\ misread \subseteq misread' /\ calls <= calls'
      /\ Misread(calls, "validation")' \/ lines' = registered'
      /\ pc' = "compare"
  BY <1>1, ReadEffect
<1>3. calls' = calls /\ executed' = executed /\ request' = request
  BY <1>1 DEF Read
<1>4. RecordsFit'
  BY <1>1, <1>2, <1>3 DEF IInv, RecordsFit, Executed, WithExecution, WithResult, Compared,
       EvidenceSet, RequestRecord, CompletedExecution, ResultRecord, ResultFingerprint, Found
<1>5. ReadingsFit'
  <2>1. Misread(calls, "execution") => Misread(calls, "execution")'
    BY <1>2, <1>3 DEF Misread
  <2>2. MethodRuns' = MethodRuns /\ MethodResult' = MethodResult
    BY <1>2 DEF MethodRuns, MethodResult
  <2>3. ~Misread(calls, "execution")' => MethodRuns /\ executed = MethodResult
    BY <1>1, <2>1 DEF IInv, ReadingsFit, Executed, WithExecution, WithResult
  <2> QED BY <1>2, <1>3, <2>2, <2>3 DEF ReadingsFit, Executed, WithExecution, WithResult, Compared
<1> QED BY <1>2, <1>4, <1>5, NothingWritten

LEMMA CompareKeepsIt ==
  ASSUME IInv, Compare \/ CompareRaises
  PROVE  IInv'
<1>1. CASE Compare
  <2>1. /\ pc = "compare" /\ pc' = "validation record" /\ Computable(Periods, lines)
        /\ verdict' = (executed = ExpectedResult(Periods, lines))
        /\ UNCHANGED <<environment, request, lines, executed, answer, records, spoilt, calls>>
    BY <1>1 DEF Compare
  <2>2. verdict' \in BOOLEAN /\ (verdict' <=> executed = ExpectedResult(Periods, lines))
    BY <2>1
  <2>3. /\ registered' = registered /\ dataset' = dataset /\ handoff' = handoff
        /\ misread' = misread /\ request' = request /\ executed' = executed
        /\ answer' = answer /\ records' = records /\ spoilt' = spoilt /\ calls' = calls
    BY <2>1 DEF environment
  <2>4. TypeOK' /\ CallIsCounted'
    BY <2>1, <2>2, <2>3 DEF IInv, TypeOK, CallIsCounted
  <2>5. AnswerFits'
    <3>1. answer' = "nothing"
      BY <2>1, <2>3 DEF IInv, AnswerFits
    <3> QED BY <3>1 DEF AnswerFits, Outcomes
  <2>6. RecordsFit'
    BY <2>1, <2>3 DEF IInv, RecordsFit, Executed, WithExecution, WithResult, Compared,
         EvidenceSet, RequestRecord, CompletedExecution, ResultRecord, ResultFingerprint, Found
  <2>7. ReadingsFit'
    <3>1. /\ Misread(calls, "execution")' <=> Misread(calls, "execution")
          /\ Misread(calls, "validation")' <=> Misread(calls, "validation")
      BY <2>3 DEF Misread
    <3>2. MethodRuns' = MethodRuns /\ MethodResult' = MethodResult
      BY <2>3 DEF MethodRuns, MethodResult
    <3>3. ~Misread(calls, "execution") => MethodRuns /\ executed = MethodResult
      BY <2>1 DEF IInv, ReadingsFit, Executed, WithExecution, WithResult
    <3>4. ASSUME ~Misread(calls, "validation")
          PROVE  MethodRuns /\ (verdict' <=> executed = MethodResult)
      <4>1. lines = registered
        BY <2>1, <3>4 DEF IInv, ReadingsFit
      <4>2. MethodRuns
        BY <2>1, <4>1 DEF MethodRuns
      <4>3. ExpectedResult(Periods, registered) = MethodResult
        BY <4>2, ExpectedIsTheMethods DEF IInv, TypeOK
      <4> QED BY <2>2, <4>1, <4>2, <4>3
    <3> QED BY <2>1, <2>3, <3>1, <3>2, <3>3, <3>4 DEF ReadingsFit, Executed, WithExecution,
                WithResult, Compared
  <2> QED BY <2>3, <2>4, <2>5, <2>6, <2>7, CallNumber, NothingWritten
<1>2. CASE CompareRaises
  BY <1>2, ReturnKeepsIt DEF CompareRaises, Outcomes
<1> QED BY <1>1, <1>2

\* A step after the comparison leaves what it found as it is.
LEMMA FindingsStay ==
  ASSUME IInv, Compared, UNCHANGED <<registered, misread, executed, verdict, calls>>, pc' # "calculate",
         pc' # "compare"
  PROVE  ReadingsFit'
<1>1. /\ Misread(calls, "execution")' <=> Misread(calls, "execution")
      /\ Misread(calls, "validation")' <=> Misread(calls, "validation")
  BY DEF Misread
<1>2. MethodRuns' = MethodRuns /\ MethodResult' = MethodResult /\ executed' = executed
  BY DEF MethodRuns, MethodResult
<1>3. verdict' = verdict
  OBVIOUS
<1>4. /\ ~Misread(calls, "execution") => MethodRuns /\ executed = MethodResult
      /\ ~Misread(calls, "validation") => MethodRuns /\ (verdict => executed = MethodResult)
      /\ ~Misread(calls, "execution") /\ ~Misread(calls, "validation") => verdict
  BY DEF IInv, ReadingsFit, Executed, WithExecution, WithResult
<1> QED BY <1>1, <1>2, <1>3, <1>4 DEF ReadingsFit

LEMMA PersistValidationKeepsIt ==
  ASSUME IInv, PersistValidation
  PROVE  IInv'
<1> DEFINE next == IF verdict THEN "validated" ELSE "evaluation"
<1>1. pc = "validation record" /\ Persist(ValidationRecord, next) /\ next # "idle"
  BY DEF PersistValidation
<1>2. ValidationRecord.kind # "evaluation"
  BY RecordFields DEF ValidationRecord
<1>3. ASSUME Stores(ValidationRecord, next) PROVE RecordsFit' /\ ReadingsFit'
  <2>1. /\ registered' = registered /\ misread' = misread /\ request' = request
        /\ executed' = executed /\ verdict' = verdict /\ calls' = calls
        /\ records' = records \cup {ValidationRecord}
    BY <1>3 DEF Stores, environment, reading
  <2>2. (verdict /\ pc' = "validated") \/ (~verdict /\ pc' = "evaluation")
    BY <1>3 DEF Stores
  <2>3. ReadingsFit'
    BY <1>1, <2>1, <2>2, FindingsStay DEF Compared
  <2>4. ValidationRecord' = ValidationRecord
    BY <2>1 DEF ValidationRecord
  <2>5. /\ EvidenceSet \in records /\ RequestRecord \in records
        /\ CompletedExecution \in records /\ ResultRecord \in records
    BY <1>1 DEF IInv, RecordsFit, WithExecution, WithResult, Compared
  <2>6. /\ EvidenceSet' = EvidenceSet /\ RequestRecord' = RequestRecord
        /\ CompletedExecution' = CompletedExecution /\ ResultRecord' = ResultRecord
    BY <2>1 DEF EvidenceSet, RequestRecord, CompletedExecution, ResultRecord, ResultFingerprint, Found
  <2>7. RecordsFit'
    BY <2>1, <2>2, <2>4, <2>5, <2>6 DEF RecordsFit
  <2> QED BY <2>3, <2>7
<1> HIDE DEF next
<1> QED BY <1>1, <1>2, <1>3, PersistKeepsIt

LEMMA PersistValidatedKeepsIt ==
  ASSUME IInv, PersistValidated
  PROVE  IInv'
<1>1. pc = "validated" /\ Persist(ValidatedRecord, "evaluation")
  BY DEF PersistValidated
<1>2. ValidatedRecord.kind # "evaluation"
  BY RecordFields DEF ValidatedRecord
<1>3. ASSUME Stores(ValidatedRecord, "evaluation") PROVE RecordsFit' /\ ReadingsFit'
  <2>1. /\ registered' = registered /\ misread' = misread /\ request' = request
        /\ executed' = executed /\ verdict' = verdict /\ calls' = calls
        /\ records' = records \cup {ValidatedRecord} /\ pc' = "evaluation"
    BY <1>3 DEF Stores, environment, reading
  <2>2. ReadingsFit'
    BY <1>1, <2>1, FindingsStay DEF Compared
  <2>3. /\ EvidenceSet \in records /\ RequestRecord \in records /\ ValidationRecord \in records
        /\ CompletedExecution \in records /\ ResultRecord \in records
    BY <1>1 DEF IInv, RecordsFit, WithExecution, WithResult, Compared
  <2>4. /\ EvidenceSet' = EvidenceSet /\ RequestRecord' = RequestRecord
        /\ CompletedExecution' = CompletedExecution /\ ResultRecord' = ResultRecord
        /\ ValidationRecord' = ValidationRecord /\ ValidatedRecord' = ValidatedRecord
    BY <2>1 DEF EvidenceSet, RequestRecord, CompletedExecution, ResultRecord, ResultFingerprint,
                Found, ValidationRecord, ValidatedRecord
  <2>5. RecordsFit'
    BY <2>1, <2>3, <2>4 DEF RecordsFit
  <2> QED BY <2>2, <2>5
<1> QED BY <1>1, <1>2, <1>3, PersistKeepsIt

\* With a validation that passed, what the outcome rests on is in the store.
LEMMA LineageOfTheCall ==
  ASSUME IInv, pc = "evaluation", verdict
  PROVE  HasLineage(Evaluation(State))
<1> DEFINE e == Evaluation(State)
<1>1. e.name = calls /\ e.body = State
  BY DEF Evaluation, Record
<1>2. /\ EvidenceSet \in records /\ RequestRecord \in records /\ ValidationRecord \in records
      /\ CompletedExecution \in records /\ ResultRecord \in records /\ ValidatedRecord \in records
  BY DEF IInv, RecordsFit, WithExecution, WithResult, Compared
<1>3. verdict = TRUE
  BY DEF IInv, TypeOK
<1>4. /\ Record("execution", calls, executed) \in records
      /\ Record("result", executed, [result |-> executed, event |-> calls]) \in records
      /\ Record("validated", executed, [result |-> executed, event |-> calls]) \in records
      /\ \E at : Record("request", "request", at) \in records
      /\ EvidenceSet \in records
  BY <1>2 DEF CompletedExecution, ResultRecord, ValidatedRecord, ResultFingerprint, Found, RequestRecord
<1>5. Record("validation", calls, [result |-> executed, passed |-> TRUE]) \in records
  BY <1>2, <1>3 DEF ValidationRecord
<1>6. State = IF executed.reasons # {} THEN "inconclusive" ELSE Outcome(executed)
  BY <1>3 DEF State
<1>7. ~Twice(calls) => executed = MethodResult
  BY <1>3 DEF IInv, ReadingsFit, Twice, Misread, Executed, WithExecution, WithResult, Compared
<1> HIDE DEF e
<1>8. HasLineage(e)
  BY <1>1, <1>4, <1>5, <1>6, <1>7 DEF HasLineage
<1> QED BY <1>8 DEF e

LEMMA PersistEvaluationKeepsIt ==
  ASSUME IInv, PersistEvaluation
  PROVE  IInv'
<1>1. pc = "evaluation" /\ Persist(Evaluation(State), "complete")
  BY DEF PersistEvaluation
<1>2. EvaluationIsSound(Evaluation(State))
  <2>1. calls \in 1..calls
    BY <1>1, CallNumber
  <2>2. ~verdict => State = "validation failed"
    BY DEF State
  <2>3. verdict => State # "validation failed"
    BY OutcomeValues DEF State
  <2>4. ~verdict => Misread(calls, "execution") \/ Misread(calls, "validation")
    BY <1>1 DEF IInv, ReadingsFit, Compared
  <2> QED BY <1>1, <2>1, <2>2, <2>3, <2>4, LineageOfTheCall, EvaluationSound
<1>3. ASSUME Stores(Evaluation(State), "complete") PROVE RecordsFit' /\ ReadingsFit'
  <2>1. /\ registered' = registered /\ misread' = misread /\ request' = request
        /\ executed' = executed /\ verdict' = verdict /\ calls' = calls
        /\ records \subseteq records' /\ pc' = "complete"
    BY <1>3 DEF Stores, environment, reading
  <2>2. ReadingsFit'
    BY <1>1, <2>1, FindingsStay DEF Compared
  <2>3. /\ EvidenceSet \in records /\ RequestRecord \in records /\ ValidationRecord \in records
        /\ CompletedExecution \in records /\ ResultRecord \in records
        /\ verdict => ValidatedRecord \in records
    BY <1>1 DEF IInv, RecordsFit, WithExecution, WithResult, Compared
  <2>4. /\ EvidenceSet' = EvidenceSet /\ RequestRecord' = RequestRecord
        /\ CompletedExecution' = CompletedExecution /\ ResultRecord' = ResultRecord
        /\ ValidationRecord' = ValidationRecord /\ ValidatedRecord' = ValidatedRecord
    BY <2>1 DEF EvidenceSet, RequestRecord, CompletedExecution, ResultRecord, ResultFingerprint,
                Found, ValidationRecord, ValidatedRecord
  <2>5. verdict' = verdict
    BY <2>1
  <2>6. RecordsFit'
    BY <2>1, <2>3, <2>4, <2>5 DEF RecordsFit
  <2> QED BY <2>2, <2>6
<1> QED BY <1>1, <1>2, <1>3, PersistKeepsIt

LEMMA LoadCompleteKeepsIt ==
  ASSUME IInv, LoadComplete
  PROVE  IInv'
<1>1. CASE Complete
  <2>1. pc = "complete" /\ Return(State)
    BY <1>1 DEF LoadComplete
  <2>2. verdict
    BY <1>1 DEF Complete
  <2>3. ASSUME State \in Outcomes
        PROVE  State = Outcome(executed) /\ executed.reasons = {}
    BY <2>2, <2>3 DEF State, Outcomes
  <2>4. ~Twice(calls) => MethodRuns /\ executed = MethodResult
    BY <2>1, <2>2 DEF IInv, ReadingsFit, Twice, Misread, Executed, WithExecution, WithResult, Compared
  <2>5. State \in Outcomes => AnswerFits'
    <3>1. pc' = "idle" /\ answer' = State
      BY <2>1 DEF Return
    <3>2. Twice(calls)' <=> Twice(calls)
      BY <2>1 DEF Return, environment, Twice
    <3>3. MethodRuns' = MethodRuns /\ MethodResult' = MethodResult
      BY <2>1 DEF Return, environment, MethodRuns, MethodResult
    <3> QED BY <2>3, <2>4, <3>1, <3>2, <3>3 DEF AnswerFits
  <2> QED BY <2>1, <2>5, ReturnKeepsIt
<1>2. CASE ~Complete
  BY <1>2, ReturnKeepsIt DEF LoadComplete, Outcomes
<1> QED BY <1>1, <1>2

\* The surroundings touch no reading and no record.
LEMMA OthersStepsKeepIt ==
  ASSUME IInv, UNCHANGED <<registered, misread, request, pc, lines, executed, verdict, answer,
                           records, calls>>,
         dataset' \in Rewrites \cup {registered}, handoff' \in BOOLEAN, spoilt' \subseteq records
  PROVE  IInv'
<1>1. /\ registered' = registered /\ misread' = misread /\ request' = request /\ lines' = lines
      /\ executed' = executed /\ verdict' = verdict /\ answer' = answer /\ records' = records
      /\ calls' = calls /\ pc' = pc
  OBVIOUS
<1>2. TypeOK' /\ CallIsCounted'
  BY <1>1 DEF IInv, TypeOK, CallIsCounted
<1>3. /\ Misread(calls, "execution")' <=> Misread(calls, "execution")
      /\ Misread(calls, "validation")' <=> Misread(calls, "validation")
      /\ Twice(calls)' <=> Twice(calls)
  BY <1>1 DEF Misread, Twice
<1>4. MethodRuns' = MethodRuns /\ MethodResult' = MethodResult
  BY <1>1 DEF MethodRuns, MethodResult
<1>5. AnswerFits'
  BY <1>1, <1>3, <1>4 DEF IInv, AnswerFits
<1>6. /\ Compared' <=> Compared
      /\ WithResult' <=> WithResult
      /\ WithExecution' <=> WithExecution
      /\ Executed' <=> Executed
  BY <1>1 DEF Executed, WithExecution, WithResult, Compared
<1>7. /\ EvidenceSet' = EvidenceSet /\ RequestRecord' = RequestRecord
      /\ CompletedExecution' = CompletedExecution /\ ResultRecord' = ResultRecord
      /\ ValidationRecord' = ValidationRecord /\ ValidatedRecord' = ValidatedRecord
  BY <1>1 DEF EvidenceSet, RequestRecord, CompletedExecution, ResultRecord, ResultFingerprint,
              Found, ValidationRecord, ValidatedRecord
<1>8. (verdict <=> verdict') /\ (MethodRuns <=> MethodRuns')
  BY <1>1 DEF MethodRuns
<1>9. ReadingsFit'
  BY <1>1, <1>3, <1>4, <1>6, <1>8 DEF IInv, ReadingsFit
<1>10. RecordsFit'
  BY <1>1, <1>6, <1>7, <1>8 DEF IInv, RecordsFit
<1> QED BY <1>1, <1>2, <1>5, <1>9, <1>10, CallNumber, NothingWritten

LEMMA SurroundingsKeepIt ==
  ASSUME IInv, Kill \/ Alter \/ Damage
  PROVE  IInv'
<1>1. CASE Kill
  BY <1>1, ReturnKeepsIt DEF Kill, Outcomes
<1>2. CASE Alter \/ Damage
  <2>1. UNCHANGED <<registered, misread, request, pc, lines, executed, verdict, answer, records, calls>>
    BY <1>2 DEF Alter, Damage, reading
  <2>2. dataset' \in Rewrites \cup {registered} /\ handoff' \in BOOLEAN /\ spoilt' \subseteq records
    BY <1>2 DEF IInv, TypeOK, Alter, Damage
  <2> QED BY <2>1, <2>2, OthersStepsKeepIt
<1> QED BY <1>1, <1>2

LEMMA StepKeepsIt ==
  ASSUME IInv, [Next]_vars
  PROVE  IInv'
<1>1. CASE UNCHANGED vars
  <2>1. UNCHANGED <<registered, misread, request, pc, lines, executed, verdict, answer, records, calls>>
    BY <1>1 DEF vars, environment, reading
  <2>2. dataset' \in Rewrites \cup {registered} /\ handoff' \in BOOLEAN /\ spoilt' \subseteq records
    BY <1>1 DEF IInv, TypeOK, vars, environment
  <2> QED BY <2>1, <2>2, OthersStepsKeepIt
<1>2. CASE Next
  BY <1>2, CallKeepsIt, GatesKeepIt, PersistEvidenceKeepsIt, PersistRequestKeepsIt,
     ExecutionKeepsIt, ReadLinesKeepsIt, CalculateKeepsIt, PersistFailuresKeepsIt,
     PersistResultsKeepsIt, CheckDatasetKeepsIt, RereadLinesKeepsIt, CompareKeepsIt,
     PersistValidationKeepsIt, PersistValidatedKeepsIt, PersistEvaluationKeepsIt,
     LoadCompleteKeepsIt, SurroundingsKeepIt DEF Next
<1> QED BY <1>1, <1>2

\* Whatever the calls do, and whatever is altered or damaged between their steps, every
\* outcome stored is the one its records led to, and a call in flight holds what it read.
THEOREM InvariantHolds == Spec => []IInv
<1>1. Init => IInv
  BY InitEstablishes
<1>2. IInv /\ [Next]_vars => IInv'
  BY StepKeepsIt
<1> QED BY <1>1, <1>2, PTL DEF Spec

\* Every step leaves the variables with values of their types.
THEOREM TypeCorrect == Spec => []TypeOK
<1>1. IInv => TypeOK
  BY DEF IInv
<1> QED BY <1>1, InvariantHolds, PTL

-----------------------------------------------------------------------------
LEMMA Lineage ==
  ASSUME IInv
  PROVE  OutcomeHasItsLineage
<1> SUFFICES ASSUME NEW e \in Terminal
             PROVE  \E x \in Of("execution") :
                      /\ x.name = e.name
                      /\ \A kind \in {"result", "validated"} :
                           [result |-> x.body, event |-> e.name] \in {r.body : r \in Of(kind)}
                      /\ Record("validation", e.name, [result |-> x.body, passed |-> TRUE]) \in records
                      /\ Of("request") # {} /\ Of("evidence") # {}
                      /\ e.body = IF x.body.reasons # {} THEN "inconclusive" ELSE Outcome(x.body)
  BY DEF OutcomeHasItsLineage
<1>1. HasLineage(e)
  BY DEF IInv, EvaluationsAreSound, EvaluationIsSound, Terminal
<1>2. PICK f :
        /\ Record("execution", e.name, f) \in records
        /\ Record("result", f, [result |-> f, event |-> e.name]) \in records
        /\ Record("validated", f, [result |-> f, event |-> e.name]) \in records
        /\ Record("validation", e.name, [result |-> f, passed |-> TRUE]) \in records
        /\ \E at : Record("request", "request", at) \in records
        /\ EvidenceSet \in records
        /\ e.body = IF f.reasons # {} THEN "inconclusive" ELSE Outcome(f)
  BY <1>1 DEF HasLineage
<1> DEFINE x == Record("execution", e.name, f)
           found == [result |-> f, event |-> e.name]
<1>3. x \in Of("execution") /\ x.name = e.name /\ x.body = f
  BY <1>2, RecordFields DEF Of
<1>4. ASSUME NEW kind \in {"result", "validated"}
      PROVE  found \in {r.body : r \in Of(kind)}
  <2>1. Record(kind, f, found) \in Of(kind) /\ Record(kind, f, found).body = found
    BY <1>2, RecordFields DEF Of
  <2> QED BY <2>1
<1>5. Of("request") # {}
  <2>1. PICK at : Record("request", "request", at) \in records
    BY <1>2
  <2>2. Record("request", "request", at) \in Of("request")
    BY <2>1, RecordFields DEF Of
  <2> QED BY <2>2
<1>6. Of("evidence") # {}
  <2>1. EvidenceSet \in Of("evidence")
    BY <1>2, RecordFields DEF Of, EvidenceSet
  <2> QED BY <2>1
<1> HIDE DEF x
<1> QED BY <1>2, <1>3, <1>4, <1>5, <1>6

\* PersistEvaluation stores an outcome only over the execution, the result, the validation
\* and the validated result of its own call, the request and the evidence it was asked on.
THEOREM OutcomesHaveTheirLineage == Spec => []OutcomeHasItsLineage
<1>1. IInv => OutcomeHasItsLineage
  BY Lineage
<1> QED BY <1>1, InvariantHolds, PTL

LEMMA OneOutcome ==
  ASSUME IInv
  PROVE  OneOutcomePerRequest
<1> SUFFICES ASSUME \A c \in 1..calls : ~Twice(c)
             PROVE  Cardinality(Terminal) <= 1
  BY DEF OneOutcomePerRequest, Twice
<1>1. ASSUME NEW e \in Terminal
      PROVE  /\ e \in records /\ e.kind = "evaluation"
             /\ Record("result", MethodResult, [result |-> MethodResult, event |-> e.name]) \in records
  <2>1. e \in records /\ e.kind = "evaluation" /\ EvaluationIsSound(e)
        /\ e.body \notin {"execution failed", "validation failed"}
    BY DEF IInv, EvaluationsAreSound, Terminal, Of
  <2>2. HasLineage(e) /\ e.name \in 1..calls
    BY <2>1 DEF EvaluationIsSound
  <2>3. PICK f : /\ Record("result", f, [result |-> f, event |-> e.name]) \in records
                 /\ ~Twice(e.name) => f = MethodResult
    BY <2>2 DEF HasLineage
  <2> QED BY <2>1, <2>2, <2>3
<1>2. ASSUME NEW d \in Terminal, NEW e \in Terminal
      PROVE  d = e
  <2> DEFINE r(event) == Record("result", MethodResult, [result |-> MethodResult, event |-> event])
  <2>1. /\ r(d.name) \in records /\ r(e.name) \in records
        /\ d \in records /\ e \in records /\ d.kind = e.kind
    BY <1>1
  <2>2. r(d.name).kind = r(e.name).kind /\ r(d.name).name = r(e.name).name
    BY RecordFields
  <2>3. r(d.name) = r(e.name)
    <3> HIDE DEF r
    <3> QED BY <2>1, <2>2 DEF IInv, NamesAreTaken
  <2>4. r(d.name).body.event = d.name /\ r(e.name).body.event = e.name
    BY RecordFields
  <2>5. d.name = e.name
    <3> HIDE DEF r
    <3> QED BY <2>3, <2>4
  <2> QED BY <2>1, <2>5 DEF IInv, NamesAreTaken
<1>3. CASE Terminal = {}
  BY <1>3, FS_EmptySet
<1>4. CASE Terminal # {}
  <2>1. PICK e : Terminal = {e}
    BY <1>2, <1>4
  <2>2. Cardinality({e}) = 1
    BY FS_Singleton
  <2> QED BY <2>1, <2>2
<1> QED BY <1>3, <1>4

\* A request asked again is answered from what is stored, so it has one terminal
\* evaluation, except where a call read another file in execution and validation both.
THEOREM RequestsHaveOneOutcome == Spec => []OneOutcomePerRequest
<1>1. IInv => OneOutcomePerRequest
  BY OneOutcome
<1> QED BY <1>1, InvariantHolds, PTL

LEMMA Disagreement ==
  ASSUME IInv
  PROVE  DisagreementMeansMisreading
<1> SUFFICES ASSUME NEW e \in Of("evaluation"), e.body = "validation failed"
             PROVE  \E stage \in {"execution", "validation"} : <<e.name, stage>> \in misread
  BY DEF DisagreementMeansMisreading
<1>1. EvaluationIsSound(e)
  BY DEF IInv, EvaluationsAreSound
<1>2. Misread(e.name, "execution") \/ Misread(e.name, "validation")
  BY <1>1 DEF EvaluationIsSound
<1> QED BY <1>2 DEF Misread

\* Execution and validation disagree only where one of them read another file: over the
\* same lines the results of both are the ones the method defines.
THEOREM DisagreementsAreMisreadings == Spec => []DisagreementMeansMisreading
<1>1. IInv => DisagreementMeansMisreading
  BY Disagreement
<1> QED BY <1>1, InvariantHolds, PTL

LEMMA WeeksAreWhole ==
  ASSUME NEW w \in WeeksOf(Periods, registered), NEW d \in w..(w + WeekDays - 1)
  PROVE  \E p \in DOMAIN Periods : d \in Periods[p].start..Periods[p].end
<1>1. Periods \in [baseline : Period, comparison : Period]
  BY TestAssumption
<1>2. DOMAIN Periods = {"baseline", "comparison"}
  BY <1>1
<1>3. /\ Periods.baseline.start \in Int /\ Periods.baseline.end \in Int
      /\ Periods.comparison.start \in Int /\ Periods.comparison.end \in Int
  BY <1>1 DEF Period
<1>4. CASE w \in ValidWeeks(Periods.baseline, registered)
  <2>1. d \in Periods.baseline.start..Periods.baseline.end
    BY <1>3, <1>4, WeeksAreDays
  <2> QED BY <1>2, <2>1
<1>5. CASE w \in ValidWeeks(Periods.comparison, registered)
  <2>1. d \in Periods.comparison.start..Periods.comparison.end
    BY <1>3, <1>5, WeeksAreDays
  <2> QED BY <1>2, <2>1
<1> QED BY <1>4, <1>5 DEF WeeksOf

LEMMA Answers ==
  ASSUME IInv
  PROVE  AnswerIsTheDatasets
<1> DEFINE o == Observations(Periods, registered)
           x == Centred(CountedRanks(o.distance))
           y == Centred(CountedRanks(o.deviation))
           W == o.baseline \cup o.comparison
           xx == SumOver(Products(x, x), W)
           yy == SumOver(Products(y, y), W)
           xy == SumOver(Products(x, y), W)
           r == MethodResult
<1> SUFFICES ASSUME answer \in Outcomes, ~Twice(calls)
             PROVE  /\ Cardinality(o.baseline) >= MinBaseline
                    /\ Cardinality(o.comparison) >= MinComparison
                    /\ Cardinality(W) >= MinWeeks
                    /\ \A w \in W : \A d \in w..(w + WeekDays - 1) :
                         \E p \in DOMAIN Periods : d \in Periods[p].start..Periods[p].end
                    /\ (answer = "not met") = ~(2 * xy * 2 * xy >= xx * yy)
                    /\ answer = "met" => xy < 0
                    /\ answer = "contradicted" => xy > 0
  BY DEF AnswerIsTheDatasets, Outcomes, Twice
<1>1. MethodRuns /\ r.reasons = {} /\ answer = Outcome(r) /\ registered \in Datasets
  BY DEF IInv, AnswerFits, TypeOK
<1>2. r = DefinedResult(Periods, registered)
  BY <1>1, DatasetsAreLines, MethodIsAsDefined DEF MethodRuns, MethodResult
<1>3. r.reasons = Reasons(o)
  BY <1>2 DEF DefinedResult, ResultOf
<1>4. /\ ArePeriods(Periods) /\ IsDataset(registered) /\ Computable(Periods, registered)
  BY <1>1, DatasetsAreLines DEF MethodRuns
<1>5. W = WeeksOf(Periods, registered)
  BY DEF Observations, WeeksOf
<1>6. x = Distance(Periods, registered) /\ y = Deviation(Periods, registered)
  BY DEF Distance, Deviation
<1>7. /\ o.baseline = ValidWeeks(Periods.baseline, registered)
      /\ o.comparison = ValidWeeks(Periods.comparison, registered)
  BY DEF Observations
<1>8. /\ r.rho = [xy |-> xy, xx |-> xx, yy |-> yy]
      /\ xy \in Int /\ xx \in Int /\ xx > 0 /\ yy \in Int /\ yy > 0
  <2>1. Reasons(Observations(Periods, registered)) = {}
    BY <1>1, <1>3
  <2>2. /\ xy = SumOfProducts(Periods, registered)
        /\ xx = SumOfDistances(Periods, registered)
        /\ yy = SumOfDeviations(Periods, registered)
    <3> HIDE DEF x, y, W
    <3> QED BY <1>5, <1>6 DEF SumOfProducts, SumOfDistances, SumOfDeviations
  <2> HIDE DEF r, xx, yy, xy
  <2> QED BY <1>2, <1>4, <2>1, <2>2, SumsOfRho
<1> HIDE DEF o, x, y, W, xx, yy, xy, r
<1>9. /\ ~(Cardinality(W) < MinWeeks) /\ ~(Cardinality(o.baseline) < MinBaseline)
      /\ ~(Cardinality(o.comparison) < MinComparison)
  BY <1>1, <1>3, ReasonsOfAnOutcome DEF W
<1>10. /\ Cardinality(o.baseline) \in Nat /\ Cardinality(o.comparison) \in Nat /\ Cardinality(W) \in Nat
  <2>1. IsFiniteSet(o.baseline) /\ IsFiniteSet(o.comparison)
    BY <1>4, <1>7, WeeksAreDays DEF ArePeriods
  <2>2. IsFiniteSet(W)
    BY <2>1, FS_Union DEF W
  <2> QED BY <2>1, <2>2, FS_CardinalityType
<1>11. /\ Cardinality(o.baseline) >= MinBaseline /\ Cardinality(o.comparison) >= MinComparison
       /\ Cardinality(W) >= MinWeeks
  BY <1>9, <1>10, MethodAssumption
<1>12. \A w \in W : \A d \in w..(w + WeekDays - 1) :
         \E p \in DOMAIN Periods : d \in Periods[p].start..Periods[p].end
  BY <1>5, WeeksAreWhole
<1>13. Strong(r.rho) <=> 4 * xy * xy >= xx * yy
  BY <1>8 DEF Strong
<1>14. 2 * xy * 2 * xy = 4 * xy * xy
  BY <1>8
<1>15. /\ ~Strong(r.rho) => answer = "not met"
       /\ Strong(r.rho) /\ xy < 0 => answer = "met"
       /\ Strong(r.rho) /\ ~(xy < 0) => answer = "contradicted"
  <2>1. r.rho.xy = xy
    BY <1>8
  <2> QED BY <1>1, <2>1 DEF Outcome
<1>16. xx * yy > 0
  <2>1. ASSUME NEW a \in Nat \ {0}, NEW b \in Nat \ {0} PROVE a * b > 0
    OBVIOUS
  <2> QED BY <1>8, <2>1
<1>17. (answer = "not met") = ~(2 * xy * 2 * xy >= xx * yy)
  BY <1>13, <1>14, <1>15
<1>18. answer = "met" => xy < 0
  BY <1>15
<1>19. answer = "contradicted" => xy > 0
  <2>1. xy = 0 => ~(4 * xy * xy >= xx * yy)
    <3>1. ASSUME xy = 0 PROVE 4 * xy * xy = 0
      <4>1. 4 * 0 * 0 = 0
        OBVIOUS
      <4> QED BY <3>1, <4>1
    <3>2. xx * yy \in Int
      BY <1>8
    <3> QED BY <3>1, <3>2, <1>16
  <2> QED BY <2>1, <1>8, <1>13, <1>15
<1> QED BY <1>11, <1>12, <1>17, <1>18, <1>19

\* Unless both of its readings were of another file, what a call answers is what the
\* registered dataset says, over the whole weeks of the periods it compares.
THEOREM AnswersAreTheDatasets == Spec => []AnswerIsTheDatasets
<1>1. IInv => AnswerIsTheDatasets
  BY Answers
<1> QED BY <1>1, InvariantHolds, PTL
=============================================================================
