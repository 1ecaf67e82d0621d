------------------------ MODULE ComicDownloadsProofs ------------------------
(***************************************************************************)
(* Proofs about the pages, chapters and downloads of one comic, for any    *)
(* number of editors, readers, pages, chapters and operations:             *)
(*                                                                         *)
(*   Shape       the tables and what every editor holds are what they can  *)
(*               be, at each step of each operation;                       *)
(*   SoloInv     what an operation that runs alone knows at each step, up  *)
(*               to the agreement it leaves behind;                        *)
(*   FollowInv   the same of the members of the chapters;                  *)
(*   FilesFit,   what archives, metadata files and downloads under way     *)
(*   CurrentInv  have to do with the version that is current.              *)
(*                                                                         *)
(* An argument by induction over a list is made by the least element of a  *)
(* set of numbers, which LeastNatural takes from WellFoundedInduction.     *)
(***************************************************************************)
EXTENDS ComicDownloads, FiniteSetTheorems, SequenceTheorems, WellFoundedInduction, TLAPS

-----------------------------------------------------------------------------
(* Lists of pages.                                                         *)

\* A set of natural numbers has a least element.
LEMMA LeastNatural ==
    ASSUME NEW S \in SUBSET Nat, S # {}
    PROVE  Min(S) \in S /\ \A x \in S : Min(S) <= x
<1>1. PICK x \in S : \A y \in S : ~(<<y, x>> \in OpToRel(<, Nat))
    BY NatLessThanWellFounded, WFMin
<1>2. ASSUME NEW y \in S PROVE x <= y
  <2>1. <<y, x>> \in Nat \X Nat /\ <<y, x>>[1] = y /\ <<y, x>>[2] = x
      OBVIOUS
  <2>2. y < x => <<y, x>> \in OpToRel(<, Nat)
      BY <2>1, Zenon DEF OpToRel
  <2>3. ~(y < x)
      BY <1>1, <2>2, Zenon
  <2>. QED
      BY <2>3
<1>. QED
    BY <1>2 DEF Min

\* A bounded one has a greatest element.
LEMMA GreatestNatural ==
    ASSUME NEW S \in SUBSET Nat, S # {}, NEW n \in Nat, \A x \in S : x <= n
    PROVE  Max(S) \in S /\ \A x \in S : x <= Max(S)
<1>. DEFINE T == {n - x : x \in S}
<1>1. T \in SUBSET Nat /\ T # {}
  <2>1. \A x \in S : n - x \in Nat
      OBVIOUS
  <2>. QED
      BY <2>1
<1>2. Min(T) \in T /\ \A x \in T : Min(T) <= x
    BY <1>1, LeastNatural
<1>3. PICK x \in S : Min(T) = n - x
    BY <1>2
<1>4. \A y \in S : y <= x
  <2>1. ASSUME NEW y \in S PROVE y <= x
    <3>1. n - x <= n - y
        BY <1>2, <1>3
    <3>. QED
        BY <3>1
  <2>. QED
      BY <2>1
<1>. QED
    BY <1>4 DEF Max

\* The first place of a page.
LEMMA PlaceOf ==
    ASSUME NEW S, NEW s \in Seq(S), NEW x
    PROVE  /\ x \in ToSet(s) => /\ PosOf(s, x) \in DOMAIN s /\ s[PosOf(s, x)] = x
                                /\ \A k \in DOMAIN s : s[k] = x => PosOf(s, x) <= k
           /\ x \notin ToSet(s) => PosOf(s, x) = 0
<1>. DEFINE I == {i \in 1..Len(s) : s[i] = x}
<1>1. PosOf(s, x) = IF I # {} THEN Min(I) ELSE 0
    BY DEF PosOf, SelectInSeq
<1>2. I \in SUBSET Nat
    OBVIOUS
<1>3. I # {} => Min(I) \in I /\ \A k \in I : Min(I) <= k
    BY <1>2, LeastNatural
<1>4. x \in ToSet(s) <=> I # {}
    BY DEF ToSet
<1>. QED
    BY <1>1, <1>3, <1>4

\* What Filter counts: the places of a set of natural numbers in their order.
Rank(I, i) == Cardinality({j \in I : j <= i})
Nth(I, k)  == CHOOSE i \in I : Rank(I, i) = k
Places(s, S) == {i \in DOMAIN s : s[i] \in S}

LEMMA RankGrows ==
    ASSUME NEW n \in Nat, NEW I \in SUBSET (1..n)
    PROVE  /\ IsFiniteSet(I) /\ Cardinality(I) \in 0..n
           /\ \A i \in I : Rank(I, i) \in 1..Cardinality(I)
           /\ \A i, j \in I : i < j => Rank(I, i) < Rank(I, j)
<1>1. IsFiniteSet(I) /\ Cardinality(I) \in 0..n
  <2>1. IsFiniteSet(1..n) /\ Cardinality(1..n) = n
    <3>1. Cardinality(1..n) = IF 1 > n THEN 0 ELSE n - 1 + 1
        BY FS_Interval
    <3>. QED
        BY <3>1, FS_Interval
  <2>2. IsFiniteSet(I) /\ Cardinality(I) <= n
      BY <2>1, FS_Subset
  <2>. QED
      BY <2>2, FS_CardinalityType
<1>2. ASSUME NEW i \in I PROVE /\ IsFiniteSet({j \in I : j <= i})
                               /\ Rank(I, i) \in 1..Cardinality(I)
  <2>1. {j \in I : j <= i} \in SUBSET I /\ i \in {j \in I : j <= i}
      OBVIOUS
  <2>2. IsFiniteSet({j \in I : j <= i}) /\ Rank(I, i) <= Cardinality(I)
      BY <1>1, <2>1, FS_Subset DEF Rank
  <2>3. Rank(I, i) \in Nat /\ Rank(I, i) # 0
      BY <2>1, <2>2, FS_CardinalityType, FS_EmptySet DEF Rank
  <2>. QED
      BY <1>1, <2>2, <2>3
<1>3. ASSUME NEW i \in I, NEW j \in I, i < j PROVE Rank(I, i) < Rank(I, j)
  <2>. DEFINE A == {x \in I : x <= i}
              B == {x \in I : x <= j}
  <2>1. \A x \in I : x \in Nat
      OBVIOUS
  <2>2. A \in SUBSET B /\ j \in B /\ j \notin A
    <3>1. \A x \in I : x <= i => x <= j
        BY <1>3, <2>1
    <3>2. j <= j /\ ~(j <= i)
        BY <1>3, <2>1
    <3>. QED
        BY <3>1, <3>2
  <2>3. IsFiniteSet(A) /\ IsFiniteSet(B)
      BY <1>2
  <2>4. Cardinality(A) <= Cardinality(B) /\ Cardinality(A) # Cardinality(B)
      BY <2>2, <2>3, FS_Subset
  <2>5. Cardinality(A) \in Nat /\ Cardinality(B) \in Nat
      BY <2>3, FS_CardinalityType
  <2>. QED
      BY <2>4, <2>5 DEF Rank
<1>. QED
    BY <1>1, <1>2, <1>3

LEMMA NthPlace ==
    ASSUME NEW n \in Nat, NEW I \in SUBSET (1..n)
    PROVE  /\ \A k \in 1..Cardinality(I) : Nth(I, k) \in I /\ Rank(I, Nth(I, k)) = k
           /\ \A i \in I : Nth(I, Rank(I, i)) = i
           /\ \A k, m \in 1..Cardinality(I) : k < m => Nth(I, k) < Nth(I, m)
<1>. DEFINE N == Cardinality(I)
            f == [i \in I |-> Rank(I, i)]
<1>1. IsFiniteSet(I) /\ N \in Nat
    BY RankGrows
<1>2. \A i, j \in I : Rank(I, i) = Rank(I, j) => i = j
  <2>1. \A i \in I : i \in Nat /\ Rank(I, i) \in Nat
      BY RankGrows
  <2>2. \A i, j \in I : i < j => Rank(I, i) < Rank(I, j)
      BY RankGrows
  <2>. QED
      BY <2>1, <2>2
<1>3. f \in Injection(I, 1..N)
    BY <1>2, RankGrows DEF Injection, IsInjective
<1>4. f \in Surjection(I, 1..N)
  <2>1. IsFiniteSet(1..N) /\ Cardinality(1..N) = N
      BY <1>1, FS_Interval
  <2>. QED
      BY <1>1, <1>3, <2>1, FS_Injection
<1>5. ASSUME NEW k \in 1..N PROVE Nth(I, k) \in I /\ Rank(I, Nth(I, k)) = k
    BY <1>4, <1>5 DEF Surjection, Nth
<1>6. \A i \in I : Nth(I, Rank(I, i)) = i
    BY <1>2, <1>5, RankGrows
<1>7. ASSUME NEW k \in 1..N, NEW m \in 1..N, k < m PROVE Nth(I, k) < Nth(I, m)
  <2>1. Nth(I, k) \in I /\ Nth(I, m) \in I
      BY <1>5
  <2>2. Nth(I, m) < Nth(I, k) => m < k
    <3>1. \A i, j \in I : i < j => Rank(I, i) < Rank(I, j)
        BY RankGrows
    <3>. QED
        BY <1>5, <2>1, <3>1
  <2>3. Nth(I, m) # Nth(I, k)
      BY <1>5, <1>7
  <2>4. \A i \in I : i \in Nat
      OBVIOUS
  <2>5. Nth(I, k) \in Nat /\ Nth(I, m) \in Nat
      BY <2>1, <2>4
  <2>6. k \in Nat /\ m \in Nat
      BY <1>1
  <2>7. ~(Nth(I, m) < Nth(I, k))
      BY <1>7, <2>2, <2>6
  <2>. QED
      BY <2>3, <2>5, <2>7
<1>. QED
    BY <1>5, <1>6, <1>7

LEMMA FilterIs ==
    ASSUME NEW X, NEW s \in Seq(X), NEW S
    PROVE  /\ Places(s, S) \in SUBSET (1..Len(s)) /\ Len(s) \in Nat
           /\ Filter(s, S) = [k \in 1..Cardinality(Places(s, S)) |-> s[Nth(Places(s, S), k)]]
<1>1. Places(s, S) \in SUBSET (1..Len(s)) /\ Len(s) \in Nat
    BY DEF Places
<1>. QED
    BY <1>1 DEF Filter, Places, Nth, Rank

\* What a filtered list is made of.
LEMMA FilterKeeps ==
    ASSUME NEW X, NEW s \in Seq(X), NEW S
    PROVE  /\ Filter(s, S) \in Seq(X)
           /\ Len(Filter(s, S)) <= Len(s)
           /\ ToSet(Filter(s, S)) = ToSet(s) \cap S
           /\ IsInjective(s) => IsInjective(Filter(s, S))
<1>. DEFINE I == Places(s, S)
            N == Cardinality(I)
            F == Filter(s, S)
<1>1. I \in SUBSET (1..Len(s)) /\ Len(s) \in Nat /\ F = [k \in 1..N |-> s[Nth(I, k)]]
    BY FilterIs
<1>2. N \in 0..Len(s) /\ (\A i \in I : Rank(I, i) \in 1..N)
    BY <1>1, RankGrows
<1>3. /\ \A k \in 1..N : Nth(I, k) \in I
      /\ \A i \in I : Nth(I, Rank(I, i)) = i
      /\ \A k, m \in 1..N : k < m => Nth(I, k) < Nth(I, m)
    BY <1>1, NthPlace
<1>4. F \in Seq(X) /\ Len(F) = N /\ DOMAIN F = 1..N
  <2>1. \A k \in 1..N : s[Nth(I, k)] \in X
      BY <1>1, <1>3
  <2>. QED
      BY <1>1, <1>2, <2>1
<1>5. ToSet(F) = ToSet(s) \cap S
  <2>1. ASSUME NEW k \in 1..N PROVE F[k] \in ToSet(s) \cap S
    <3>1. Nth(I, k) \in DOMAIN s /\ s[Nth(I, k)] \in S
        BY <1>3 DEF Places
    <3>2. F[k] = s[Nth(I, k)]
        BY <1>1
    <3>. QED
        BY <3>1, <3>2 DEF ToSet
  <2>2. ASSUME NEW x \in ToSet(s) \cap S PROVE x \in ToSet(F)
    <3>1. PICK i \in DOMAIN s : s[i] = x
        BY DEF ToSet
    <3>2. i \in I
        BY <3>1 DEF Places
    <3>3. F[Rank(I, i)] = x /\ Rank(I, i) \in DOMAIN F
        BY <1>1, <1>2, <1>3, <1>4, <3>1, <3>2
    <3>. QED
        BY <3>3 DEF ToSet
  <2>. QED
      BY <1>4, <2>1, <2>2 DEF ToSet
<1>6. ASSUME IsInjective(s) PROVE IsInjective(F)
  <2>1. ASSUME NEW k \in 1..N, NEW m \in 1..N, F[k] = F[m] PROVE k = m
    <3>1. Nth(I, k) = Nth(I, m)
        BY <1>1, <1>3, <1>6, <2>1 DEF IsInjective
    <3>2. ~(k < m) /\ ~(m < k)
      <4>1. Nth(I, k) \in Nat
          BY <1>1, <1>3
      <4>. QED
          BY <1>3, <3>1, <4>1
    <3>3. k \in Nat /\ m \in Nat
        BY <1>2
    <3>. QED
        BY <3>2, <3>3
  <2>. QED
      BY <1>4, <2>1 DEF IsInjective
<1>. QED
    BY <1>2, <1>4, <1>5, <1>6

\* Only the elements that are in the list matter.
LEMMA FilterSame ==
    ASSUME NEW X, NEW s \in Seq(X), NEW S, NEW T, ToSet(s) \cap S = ToSet(s) \cap T
    PROVE  Filter(s, S) = Filter(s, T)
<1>1. \A i \in DOMAIN s : s[i] \in S <=> s[i] \in T
    BY DEF ToSet
<1>2. Places(s, S) = Places(s, T)
    BY <1>1 DEF Places
<1>3. Filter(s, S) = [k \in 1..Cardinality(Places(s, S)) |-> s[Nth(Places(s, S), k)]]
    BY FilterIs
<1>4. Filter(s, T) = [k \in 1..Cardinality(Places(s, T)) |-> s[Nth(Places(s, T), k)]]
    BY FilterIs
<1>. QED
    BY <1>2, <1>3, <1>4

LEMMA FilterTwice ==
    ASSUME NEW X, NEW s \in Seq(X), NEW S
    PROVE  Filter(s, S) = Filter(s, ToSet(Filter(s, S)))
<1>1. ToSet(Filter(s, S)) = ToSet(s) \cap S
    BY FilterKeeps
<1>. QED
    BY <1>1, FilterSame

LEMMA IntervalCount ==
    ASSUME NEW a \in Nat, NEW b \in Nat
    PROVE  Cardinality(a..b) = IF a > b THEN 0 ELSE b - a + 1
BY FS_Interval

\* Elements next to each other are filtered into the stretch they make.
LEMMA FilterInterval ==
    ASSUME NEW X, NEW s \in Seq(X), NEW S, NEW a \in 1..Len(s), NEW b \in 1..Len(s), a <= b,
           Places(s, S) = a..b
    PROVE  Filter(s, S) = SubSeq(s, a, b)
<1>. DEFINE n == b - a + 1
<1>1. a \in Nat /\ b \in Nat /\ n \in Nat /\ Len(s) \in Nat
    OBVIOUS
<1>2. Cardinality(a..b) = n
  <2>1. Cardinality(a..b) = IF a > b THEN 0 ELSE b - a + 1
      BY <1>1, IntervalCount
  <2>. QED
      BY <1>1, <2>1
<1>3. ASSUME NEW k \in 1..n PROVE Nth(a..b, k) = k + a - 1
  <2>. DEFINE i == k + a - 1
  <2>1. i \in a..b /\ i \in Nat /\ i - a + 1 = k
      BY <1>1
  <2>2. {j \in a..b : j <= i} = a..i
      BY <1>1, <2>1
  <2>3. Cardinality(a..i) = k
    <3>1. Cardinality(a..i) = IF a > i THEN 0 ELSE i - a + 1
        BY <1>1, <2>1, IntervalCount
    <3>. QED
        BY <1>1, <2>1, <3>1
  <2>4. Rank(a..b, i) = k
      BY <2>2, <2>3 DEF Rank
  <2>5. a..b \in SUBSET (1..b)
      BY <1>1
  <2>6. \A x \in a..b : Nth(a..b, Rank(a..b, x)) = x
    <3>1. b \in Nat
        BY <1>1
    <3>. QED
        BY <2>5, <3>1, NthPlace, Zenon
  <2>7. Nth(a..b, Rank(a..b, i)) = i
      BY <2>1, <2>6, Zenon
  <2>. QED
      BY <2>4, <2>7
<1>4. Filter(s, S) = [k \in 1..n |-> s[Nth(a..b, k)]]
    BY <1>2, FilterIs
<1>5. \A k \in 1..n : SubSeq(s, a, b)[k] = s[k + a - 1]
    BY <1>1
<1>6. SubSeq(s, a, b) \in Seq(X) /\ Len(SubSeq(s, a, b)) = n /\ DOMAIN SubSeq(s, a, b) = 1..n
    BY <1>1
<1>7. Filter(s, S) \in Seq(X) /\ Len(Filter(s, S)) = n
    BY <1>1, <1>4, FilterKeeps
<1>8. \A k \in 1..n : Filter(s, S)[k] = SubSeq(s, a, b)[k]
    BY <1>3, <1>4, <1>5
<1>. QED
    BY <1>6, <1>7, <1>8, SeqEqual

\* A list that passes whole is itself.
LEMMA FilterAll ==
    ASSUME NEW X, NEW s \in Seq(X), NEW S, ToSet(s) \subseteq S
    PROVE  Filter(s, S) = s
<1>1. Places(s, S) = 1..Len(s)
    BY DEF Places, ToSet
<1>2. CASE s = <<>>
  <2>1. Filter(s, S) \in Seq(X) /\ Len(Filter(s, S)) <= Len(s)
      BY FilterKeeps
  <2>. QED
      BY <1>2, <2>1
<1>3. CASE s # <<>>
  <2>1. 1 \in 1..Len(s) /\ Len(s) \in 1..Len(s) /\ 1 <= Len(s)
      BY <1>3
  <2>2. Filter(s, S) = SubSeq(s, 1, Len(s))
      BY <1>1, <2>1, FilterInterval
  <2>. QED
      BY <2>2
<1>. QED
    BY <1>2, <1>3

\* In a list without repetition every page has one place.
LEMMA OnePlace ==
    ASSUME NEW X, NEW s \in Seq(X), IsInjective(s), NEW i \in DOMAIN s
    PROVE  PosOf(s, s[i]) = i
<1>1. s[i] \in ToSet(s)
    BY DEF ToSet
<1>. QED
    BY <1>1, PlaceOf DEF IsInjective

\* A stretch of pages is what the order keeps of its members.
Stretch(s, a, b) == SubSeq(s, a, b)

LEMMA StretchOf ==
    ASSUME NEW X, NEW s \in Seq(X), IsInjective(s),
           NEW a \in 1..Len(s), NEW b \in 1..Len(s), a <= b
    PROVE  LET m == Stretch(s, a, b)
           IN  /\ m \in Seq(X) /\ m # <<>> /\ IsInjective(m)
               /\ Filter(s, ToSet(m)) = m
               /\ PosOf(s, Head(m)) = a /\ PosOf(s, Last(m)) = b
<1>. DEFINE n == b - a + 1
            m == SubSeq(s, a, b)
<1>1. /\ m \in Seq(X) /\ Len(m) = n /\ n \in Nat /\ n # 0 /\ DOMAIN m = 1..n
      /\ \A k \in 1..n : m[k] = s[k + a - 1]
    OBVIOUS
<1>2. Places(s, ToSet(m)) = a..b
  <2>1. ASSUME NEW i \in a..b PROVE i \in Places(s, ToSet(m))
    <3>1. i - a + 1 \in 1..n /\ (i - a + 1) + a - 1 = i /\ i \in DOMAIN s
        OBVIOUS
    <3>2. m[i - a + 1] = s[i]
        BY <1>1, <3>1
    <3>. QED
        BY <1>1, <3>1, <3>2 DEF Places, ToSet
  <2>2. ASSUME NEW i \in Places(s, ToSet(m)) PROVE i \in a..b
    <3>1. PICK k \in 1..n : m[k] = s[i]
        BY <1>1 DEF Places, ToSet
    <3>2. k + a - 1 \in a..b /\ k + a - 1 \in DOMAIN s
      <4>1. a \in Nat /\ b \in Nat /\ k \in Nat /\ 1 <= k /\ k <= b - a + 1 /\ 1 <= a /\ b <= Len(s)
          OBVIOUS
      <4>. QED
          BY <4>1
    <3>3. s[k + a - 1] = s[i] /\ i \in DOMAIN s
        BY <1>1, <3>1 DEF Places
    <3>4. k + a - 1 = i
        BY <3>2, <3>3 DEF IsInjective
    <3>. QED
        BY <3>2, <3>4
  <2>. QED
      BY <2>1, <2>2
<1>3. Filter(s, ToSet(m)) = m
    BY <1>2, FilterInterval
<1>4. Head(m) = s[a] /\ Last(m) = s[b]
  <2>1. m[1] = s[a]
      BY <1>1
  <2>2. m[n] = s[b]
      BY <1>1
  <2>. QED
      BY <1>1, <2>1, <2>2 DEF Last
<1>5. a \in DOMAIN s /\ b \in DOMAIN s
    OBVIOUS
<1>6. IsInjective(m)
  <2>1. IsInjective(Filter(s, ToSet(m)))
      BY FilterKeeps
  <2>. QED
      BY <1>3, <2>1
<1>. QED
    BY <1>1, <1>3, <1>4, <1>5, <1>6, OnePlace DEF Stretch

\* The first and the last of the pages kept are those with the least and the
\* greatest place.
LEMMA EndsOf ==
    ASSUME NEW X, NEW s \in Seq(X), IsInjective(s), NEW S, S # {}, S \subseteq ToSet(s)
    PROVE  LET places == {PosOf(s, x) : x \in S}
           IN  /\ Filter(s, S) # <<>>
               /\ PosOf(s, Head(Filter(s, S))) = Min(places)
               /\ PosOf(s, Last(Filter(s, S))) = Max(places)
               /\ Min(places) \in 1..Len(s) /\ Max(places) \in 1..Len(s)
               /\ Min(places) <= Max(places)
<1>. DEFINE I == Places(s, S)
            N == Cardinality(I)
            F == Filter(s, S)
            places == {PosOf(s, x) : x \in S}
<1>1. I \in SUBSET (1..Len(s)) /\ Len(s) \in Nat /\ F = [k \in 1..N |-> s[Nth(I, k)]]
    BY FilterIs
<1>2. places = I
  <2>1. ASSUME NEW x \in S PROVE PosOf(s, x) \in I
      BY PlaceOf DEF Places
  <2>2. ASSUME NEW i \in I PROVE i = PosOf(s, s[i]) /\ s[i] \in S
      BY OnePlace DEF Places
  <2>. QED
      BY <2>1, <2>2
<1>3. /\ N \in Nat /\ (\A i \in I : Rank(I, i) \in 1..N)
      /\ (\A i, j \in I : i < j => Rank(I, i) < Rank(I, j))
    BY <1>1, RankGrows
<1>4. I # {}
  <2>1. PICK x \in S : TRUE
      OBVIOUS
  <2>. QED
      BY <1>2
<1>5. N \in Nat /\ N # 0 /\ 1 \in 1..N /\ N \in 1..N
  <2>1. PICK i \in I : TRUE
      BY <1>4
  <2>2. Rank(I, i) \in 1..N
      BY <1>3
  <2>. QED
      BY <1>3, <2>2
<1>6. /\ \A k \in 1..N : Nth(I, k) \in I /\ Rank(I, Nth(I, k)) = k
      /\ \A i \in I : Nth(I, Rank(I, i)) = i
      /\ \A k, m \in 1..N : k < m => Nth(I, k) < Nth(I, m)
    BY <1>1, NthPlace
<1>7. \A i \in I : i \in Nat /\ i <= Len(s)
    BY <1>1
<1>8. Min(I) \in I /\ (\A i \in I : Min(I) <= i) /\ Max(I) \in I /\ (\A i \in I : i <= Max(I))
  <2>1. I \in SUBSET Nat
      BY <1>7
  <2>. QED
      BY <1>1, <1>4, <1>7, <2>1, LeastNatural, GreatestNatural
<1>9. Nth(I, 1) = Min(I)
  <2>. DEFINE i == Nth(I, 1)
              j == Min(I)
  <2>1. i \in I /\ Rank(I, i) = 1 /\ i \in Nat /\ j \in Nat /\ j \in I /\ j <= i
      BY <1>5, <1>6, <1>7, <1>8
  <2>2. Rank(I, j) \in 1..N
      BY <1>3, <2>1
  <2>3. ~(j < i)
      BY <1>3, <2>1, <2>2
  <2>. QED
      BY <2>1, <2>3
<1>10. Nth(I, N) = Max(I)
  <2>. DEFINE i == Nth(I, N)
              j == Max(I)
  <2>1. i \in I /\ Rank(I, i) = N /\ i \in Nat /\ j \in Nat /\ j \in I /\ i <= j
      BY <1>5, <1>6, <1>7, <1>8
  <2>2. Rank(I, j) \in 1..N
      BY <1>3, <2>1
  <2>3. ~(i < j)
      BY <1>3, <1>5, <2>1, <2>2
  <2>. QED
      BY <2>1, <2>3
<1>11. F \in Seq(X) /\ Len(F) = N /\ F # <<>>
    BY <1>1, <1>5, FilterKeeps
<1>12. Head(F) = s[Min(I)] /\ Last(F) = s[Max(I)]
    BY <1>1, <1>5, <1>9, <1>10, <1>11 DEF Last
<1>13. PosOf(s, s[Min(I)]) = Min(I) /\ PosOf(s, s[Max(I)]) = Max(I)
    BY <1>1, <1>8, OnePlace
<1>. QED
    BY <1>1, <1>2, <1>7, <1>8, <1>11, <1>12, <1>13

\* Inserting, removing and replacing one page.
LEMMA Inserted ==
    ASSUME NEW X, NEW s \in Seq(X), NEW k \in 1..(Len(s) + 1), NEW x \in X
    PROVE  LET t == InsertAt(s, k, x)
           IN  /\ t \in Seq(X) /\ Len(t) = Len(s) + 1
               /\ \A i \in 1..(Len(s) + 1) : t[i] = IF i < k THEN s[i] ELSE IF i = k THEN x ELSE s[i - 1]
<1>. DEFINE n == Len(s)
            u == SubSeq(s, 1, k - 1)
            v == SubSeq(s, k, n)
            w == u \o <<x>>
            t == InsertAt(s, k, x)
<1>1. n \in Nat /\ k \in Nat /\ 1 <= k /\ k <= n + 1
    OBVIOUS
<1>2. u \in Seq(X) /\ Len(u) = k - 1 /\ \A i \in 1..(k - 1) : u[i] = s[i]
    BY <1>1
<1>3. v \in Seq(X) /\ Len(v) = n - k + 1 /\ \A i \in 1..(n - k + 1) : v[i] = s[i + k - 1]
    BY <1>1
<1>4. w \in Seq(X) /\ Len(w) = k
      /\ \A i \in 1..k : w[i] = IF i < k THEN s[i] ELSE x
    BY <1>1, <1>2
<1>5. t = w \o v
    BY DEF InsertAt
<1>. HIDE DEF u, v, w
<1>6. t \in Seq(X) /\ Len(t) = n + 1
  <2>1. t \in Seq(X) /\ Len(t) = Len(w) + Len(v)
      BY <1>3, <1>4, <1>5
  <2>. QED
      BY <1>1, <1>3, <1>4, <2>1
<1>7. ASSUME NEW i \in 1..(n + 1)
      PROVE  t[i] = IF i < k THEN s[i] ELSE IF i = k THEN x ELSE s[i - 1]
  <2>1. CASE i <= k
    <3>1. i \in 1..k
        BY <1>1, <2>1
    <3>2. t[i] = w[i]
        BY <1>3, <1>4, <1>5, <3>1
    <3>. QED
        BY <1>4, <2>1, <3>1, <3>2
  <2>2. CASE k < i
    <3>1. i - k \in 1..(n - k + 1) /\ (i - k) + k - 1 = i - 1
        BY <1>1, <2>2
    <3>2. t[i] = v[i - k]
      <4>1. i \in 1..(Len(w) + Len(v)) /\ ~(i <= Len(w)) /\ Len(w) = k
          BY <1>1, <1>3, <1>4, <2>2
      <4>2. w \in Seq(X) /\ v \in Seq(X)
          BY <1>3, <1>4
      <4>3. (w \o v)[i] = IF i <= Len(w) THEN w[i] ELSE v[i - Len(w)]
          BY <4>1, <4>2, ConcatProperties
      <4>. QED
          BY <1>5, <4>1, <4>3, Zenon
    <3>3. v[i - k] = s[(i - k) + k - 1]
        BY <1>3, <3>1
    <3>. QED
        BY <1>1, <2>2, <3>1, <3>2, <3>3
  <2>. QED
      BY <1>1, <2>1, <2>2
<1>. QED
    BY <1>6, <1>7

LEMMA Removed ==
    ASSUME NEW X, NEW s \in Seq(X), NEW k \in 1..Len(s)
    PROVE  LET t == RemoveAt(s, k)
           IN  /\ t \in Seq(X) /\ Len(t) = Len(s) - 1
               /\ \A i \in 1..(Len(s) - 1) : t[i] = IF i < k THEN s[i] ELSE s[i + 1]
<1>. DEFINE n == Len(s)
            u == SubSeq(s, 1, k - 1)
            v == SubSeq(s, k + 1, n)
            t == RemoveAt(s, k)
<1>1. n \in Nat /\ k \in Nat /\ 1 <= k /\ k <= n
    OBVIOUS
<1>2. u \in Seq(X) /\ Len(u) = k - 1 /\ \A i \in 1..(k - 1) : u[i] = s[i]
    BY <1>1
<1>3. v \in Seq(X) /\ Len(v) = n - k /\ \A i \in 1..(n - k) : v[i] = s[i + k]
    BY <1>1
<1>4. t = u \o v
    BY DEF RemoveAt
<1>. HIDE DEF u, v
<1>5. t \in Seq(X) /\ Len(t) = n - 1
  <2>1. t \in Seq(X) /\ Len(t) = Len(u) + Len(v)
    <3>1. u \in Seq(X) /\ v \in Seq(X)
        BY <1>2, <1>3
    <3>2. u \o v \in Seq(X) /\ Len(u \o v) = Len(u) + Len(v)
        BY <3>1
    <3>. QED
        BY <1>4, <3>2
  <2>. QED
      BY <1>1, <1>2, <1>3, <2>1
<1>6. ASSUME NEW i \in 1..(n - 1) PROVE t[i] = IF i < k THEN s[i] ELSE s[i + 1]
  <2>1. CASE i < k
    <3>1. i \in 1..(k - 1)
        BY <1>1, <2>1
    <3>2. t[i] = u[i]
        BY <1>2, <1>3, <1>4, <3>1
    <3>. QED
        BY <1>2, <2>1, <3>1, <3>2
  <2>2. CASE k <= i
    <3>1. i - (k - 1) \in 1..(n - k) /\ (i - (k - 1)) + k = i + 1 /\ ~(i < k)
        BY <1>1, <2>2
    <3>2. t[i] = v[i - (k - 1)]
      <4>1. i \in 1..(Len(u) + Len(v)) /\ ~(i <= Len(u)) /\ Len(u) = k - 1
          BY <1>1, <1>2, <1>3, <2>2
      <4>. QED
          BY <1>2, <1>3, <1>4, <4>1, ConcatProperties
    <3>3. v[i - (k - 1)] = s[(i - (k - 1)) + k]
        BY <1>3, <3>1
    <3>. QED
        BY <1>1, <3>1, <3>2, <3>3
  <2>. QED
      BY <1>1, <2>1, <2>2
<1>. QED
    BY <1>5, <1>6

LEMMA InsertedNew ==
    ASSUME NEW X, NEW s \in Seq(X), NEW k \in 1..(Len(s) + 1), NEW x \in X,
           IsInjective(s), x \notin ToSet(s)
    PROVE  IsInjective(InsertAt(s, k, x))
<1>. DEFINE n == Len(s)
            t == InsertAt(s, k, x)
<1>1. /\ t \in Seq(X) /\ Len(t) = n + 1 /\ DOMAIN t = 1..(n + 1)
      /\ \A i \in 1..(n + 1) : t[i] = IF i < k THEN s[i] ELSE IF i = k THEN x ELSE s[i - 1]
    BY Inserted
<1>2. n \in Nat /\ k \in Nat /\ \A i \in 1..n : s[i] # x
    BY DEF ToSet
<1>3. \A i, j \in 1..n : s[i] = s[j] => i = j
    BY DEF IsInjective
<1>4. ASSUME NEW i \in 1..(n + 1), NEW j \in 1..(n + 1), t[i] = t[j] PROVE i = j
  <2>1. \A h \in 1..(n + 1) : /\ h < k => h \in 1..n
                              /\ k < h => h - 1 \in 1..n
      BY <1>2
  <2>2. ASSUME NEW h \in 1..(n + 1), h # k PROVE t[h] # x
    <3>1. CASE h < k
      <4>1. t[h] = s[h] /\ h \in 1..n
          BY <1>1, <2>1, <3>1
      <4>. QED
          BY <1>2, <4>1
    <3>2. CASE k < h
      <4>1. t[h] = s[h - 1] /\ h - 1 \in 1..n
          BY <1>1, <1>2, <2>1, <3>2
      <4>. QED
          BY <1>2, <4>1
    <3>. QED
        BY <1>2, <2>2, <3>1, <3>2
  <2>3. t[k] = x
      BY <1>1
  <2>4. CASE i = k \/ j = k
      BY <1>4, <2>2, <2>3, <2>4
  <2>5. CASE i # k /\ j # k
    <3>. DEFINE a == IF i < k THEN i ELSE i - 1
                b == IF j < k THEN j ELSE j - 1
    <3>1. a \in 1..n /\ b \in 1..n
        BY <1>2, <2>1, <2>5
    <3>2. t[i] = s[a] /\ t[j] = s[b]
        BY <1>1, <2>5
    <3>3. a = b
        BY <1>3, <1>4, <3>1, <3>2
    <3>. QED
        BY <1>2, <2>5, <3>3
  <2>. QED
      BY <2>4, <2>5
<1>. QED
    BY <1>1, <1>4 DEF IsInjective

LEMMA RemovedDistinct ==
    ASSUME NEW X, NEW s \in Seq(X), NEW k \in 1..Len(s), IsInjective(s)
    PROVE  IsInjective(RemoveAt(s, k)) /\ s[k] \notin ToSet(RemoveAt(s, k))
<1>. DEFINE n == Len(s)
            t == RemoveAt(s, k)
<1>1. /\ t \in Seq(X) /\ Len(t) = n - 1 /\ DOMAIN t = 1..(n - 1)
      /\ \A i \in 1..(n - 1) : t[i] = IF i < k THEN s[i] ELSE s[i + 1]
  <2>1. /\ t \in Seq(X) /\ Len(t) = n - 1
        /\ \A i \in 1..(n - 1) : t[i] = IF i < k THEN s[i] ELSE s[i + 1]
      BY Removed
  <2>. QED
      BY <2>1
<1>2. n \in Nat /\ k \in Nat
    OBVIOUS
<1>3. \A i, j \in 1..n : s[i] = s[j] => i = j
    BY DEF IsInjective
<1>. DEFINE from(i) == IF i < k THEN i ELSE i + 1
<1>4. ASSUME NEW i \in 1..(n - 1) PROVE from(i) \in 1..n /\ from(i) # k /\ t[i] = s[from(i)]
    BY <1>1, <1>2
<1>5. ASSUME NEW i \in 1..(n - 1), NEW j \in 1..(n - 1), t[i] = t[j] PROVE i = j
  <2>1. from(i) = from(j)
      BY <1>3, <1>4, <1>5
  <2>. QED
      BY <1>2, <2>1
<1>6. \A i \in 1..(n - 1) : t[i] # s[k]
    BY <1>3, <1>4
<1>. QED
    BY <1>1, <1>5, <1>6 DEF IsInjective, ToSet

LEMMA ReplacedNew ==
    ASSUME NEW X, NEW s \in Seq(X), NEW k \in 1..Len(s), NEW x \in X
    PROVE  /\ ReplaceAt(s, k, x) \in Seq(X) /\ Len(ReplaceAt(s, k, x)) = Len(s)
           /\ IsInjective(s) /\ x \notin ToSet(s) => IsInjective(ReplaceAt(s, k, x))
<1>1. /\ ReplaceAt(s, k, x) \in Seq(X) /\ Len(ReplaceAt(s, k, x)) = Len(s)
      /\ DOMAIN ReplaceAt(s, k, x) = DOMAIN s
      /\ \A i \in DOMAIN s : ReplaceAt(s, k, x)[i] = IF i = k THEN x ELSE s[i]
    BY DEF ReplaceAt
<1>. QED
    BY <1>1 DEF IsInjective, ToSet

-----------------------------------------------------------------------------
(* Requests.                                                               *)

Kind  == {"none", "add", "replace", "delete", "move", "reorder", "addChapter", "updateChapter",
          "deleteChapter", "import", "deleteWork"}
OpRec == [kind : Kind, img : Image \cup {NoImage}, i : 0..MaxPages, j : 0..MaxPages,
          ch : 0..MaxChapter, seq : Seq(Image), sel : SUBSET (Image \cup {NoImage})]

\* What every request is, and an operation stays: the chapter it makes and the
\* page range of that chapter are filled in.
WellMade(s, o) ==
    /\ o \in OpRec
    /\ o.kind \in {"add", "replace"} => o.img \in Image
    /\ o.kind \in {"import", "reorder"} => IsInjective(o.seq) /\ Len(o.seq) <= MaxPages
    /\ o.kind = "import" => o.sel \subseteq ToSet(o.seq)
    /\ o.kind = "reorder" /\ o.sel = {NoImage} => o.ch = 0
    /\ o.kind \in {"addChapter", "updateChapter"} => o.i \in Positions /\ o.j \in Positions
    /\ o.kind \in {"updateChapter", "deleteChapter"} => o.ch \in 1..s.chapters

LEMMA ScaleFacts ==
    ASSUME NEW s \in Scales
    PROVE  /\ s.images \subseteq Image /\ s.chapters \in 0..MaxChapter /\ s.ops \in Nat
           /\ s.repeats \in BOOLEAN
           /\ Cardinality(s.images) \in 0..MaxPages /\ IsFiniteSet(s.images)
           /\ MaxPages \in Nat /\ MaxChapter \in Nat /\ NoImage \notin Image
           /\ Numbers(s) \subseteq Positions
<1>1. Cardinality(s.images) \in Nat /\ Cardinality(s.images) <= MaxPages /\ IsFiniteSet(s.images)
    BY ComicAssumption, FS_CardinalityType
<1>2. s \in [images : SUBSET Image, chapters : 0..MaxChapter, ops : Nat, overlap : SUBSET Nat,
             fails : BOOLEAN, repeats : BOOLEAN, downloads : Nat]
    BY ComicAssumption
<1>3. MaxPages \in Nat /\ MaxChapter \in Nat /\ NoImage \notin Image
    BY ComicAssumption
<1>4. Numbers(s) \subseteq Positions
    BY <1>1, <1>3 DEF Numbers, Positions
<1>. QED
    BY <1>1, <1>2, <1>3, <1>4

\* An order of a set of images has each of them once.
LEMMA Orders ==
    ASSUME NEW S \in SUBSET Image, IsFiniteSet(S), Cardinality(S) <= MaxPages, NEW f \in SetToSeqs(S)
    PROVE  f \in Seq(Image) /\ IsInjective(f) /\ Len(f) <= MaxPages /\ ToSet(f) \subseteq Image
<1>1. Cardinality(S) \in Nat
    BY FS_CardinalityType
<1>2. f \in [1..Cardinality(S) -> S] /\ IsInjective(f)
    BY DEF SetToSeqs, IsInjective
<1>3. f \in Seq(Image) /\ Len(f) = Cardinality(S)
    BY <1>1, <1>2
<1>. QED
    BY <1>2, <1>3 DEF ToSet

LEMMA SomeOrders ==
    ASSUME NEW S \in SUBSET Image, IsFiniteSet(S), Cardinality(S) <= MaxPages, MaxPages \in Nat,
           NEW f \in SetToAllKPermutations(S)
    PROVE  f \in Seq(Image) /\ IsInjective(f) /\ Len(f) <= MaxPages /\ ToSet(f) \subseteq Image
<1>1. PICK T \in SUBSET S : f \in SetToSeqs(T)
    BY DEF SetToAllKPermutations
<1>2. IsFiniteSet(T) /\ Cardinality(T) <= Cardinality(S)
    BY FS_Subset
<1>3. Cardinality(T) \in Nat /\ Cardinality(S) \in Nat
    BY <1>2, FS_CardinalityType
<1>4. Cardinality(T) <= MaxPages
    BY <1>2, <1>3
<1>. QED
    BY <1>1, <1>2, <1>4, Orders

LEMMA RequestsAreWellMade ==
    ASSUME scale \in Scales, NEW part \in {"page", "chapter", "work"}, NEW o \in Requests[scale][part]
    PROVE  WellMade(scale, o) /\ o.kind # "none"
<1>. DEFINE s == scale
<1>1. /\ s.images \subseteq Image /\ s.chapters \in 0..MaxChapter
      /\ Cardinality(s.images) \in 0..MaxPages /\ IsFiniteSet(s.images)
      /\ MaxPages \in Nat /\ MaxChapter \in Nat /\ NoImage \notin Image
      /\ Numbers(s) \subseteq Positions
    BY ScaleFacts
<1>2. \A n \in Numbers(s) : n \in Positions /\ n \in 0..MaxPages
    BY <1>1 DEF Positions
<1>3. 0 \in 0..MaxPages /\ 0 \in 0..MaxChapter /\ <<>> \in Seq(Image)
      /\ \A c \in 1..s.chapters : c \in 0..MaxChapter
    BY <1>1
<1>4. CASE o \in AddOps(s)
  <2>1. PICK a \in s.images, n \in {0} \cup Numbers(s) : o = Op("add", a, n, 0, 0, <<>>, {})
      BY <1>4 DEF AddOps
  <2>. QED
      BY <1>1, <1>2, <1>3, <2>1 DEF Op, WellMade, OpRec, Kind
<1>5. CASE o \in ReplaceOps(s)
  <2>1. PICK a \in s.images, n \in Numbers(s) : o = Op("replace", a, n, 0, 0, <<>>, {})
      BY <1>5 DEF ReplaceOps
  <2>. QED
      BY <1>1, <1>2, <1>3, <2>1 DEF Op, WellMade, OpRec, Kind
<1>6. CASE o \in DeleteOps(s)
  <2>1. PICK n \in Numbers(s) : o = Op("delete", NoImage, n, 0, 0, <<>>, {})
      BY <1>6 DEF DeleteOps
  <2>. QED
      BY <1>1, <1>2, <1>3, <2>1 DEF Op, WellMade, OpRec, Kind
<1>7. CASE o \in MoveOps(s)
  <2>1. PICK n \in Numbers(s), m \in Numbers(s) : o = Op("move", NoImage, n, m, 0, <<>>, {})
      BY <1>7 DEF MoveOps
  <2>. QED
      BY <1>1, <1>2, <1>3, <2>1 DEF Op, WellMade, OpRec, Kind
<1>8. CASE o \in ReorderOps(s)
  <2>. DEFINE Some(x) == {Op("reorder", NoImage, 0, 0, c, x, w) : c \in 1..s.chapters, w \in SUBSET ToSet(x)}
              Plain == {Op("reorder", NoImage, 0, 0, 0, x, {NoImage}) : x \in SetToSeqs(s.images)}
  <2>1. o \in UNION {Some(x) : x \in SetToSeqs(s.images)} \/ o \in Plain
      BY <1>8 DEF ReorderOps
  <2>2. CASE o \in UNION {Some(x) : x \in SetToSeqs(s.images)}
    <3>1. PICK x \in SetToSeqs(s.images) : o \in Some(x)
        BY <2>2
    <3>2. PICK c \in 1..s.chapters, w \in SUBSET ToSet(x) : o = Op("reorder", NoImage, 0, 0, c, x, w)
        BY <3>1
    <3>3. x \in Seq(Image) /\ IsInjective(x) /\ Len(x) <= MaxPages /\ ToSet(x) \subseteq Image
        BY <1>1, Orders
    <3>4. w \in SUBSET Image /\ w # {NoImage} /\ w \in SUBSET (Image \cup {NoImage})
        BY <1>1, <3>3
    <3>. QED
        BY <1>3, <3>2, <3>3, <3>4 DEF Op, WellMade, OpRec, Kind
  <2>3. CASE o \in Plain
    <3>1. PICK x \in SetToSeqs(s.images) : o = Op("reorder", NoImage, 0, 0, 0, x, {NoImage})
        BY <2>3
    <3>2. x \in Seq(Image) /\ IsInjective(x) /\ Len(x) <= MaxPages
        BY <1>1, Orders
    <3>. QED
        BY <1>3, <3>1, <3>2 DEF Op, WellMade, OpRec, Kind
  <2>. QED
      BY <2>1, <2>2, <2>3
<1>9. CASE o \in AddChapterOps(s)
  <2>1. PICK n \in Numbers(s), m \in Numbers(s) : o = Op("addChapter", NoImage, n, m, 0, <<>>, {})
      BY <1>9 DEF AddChapterOps
  <2>. QED
      BY <1>2, <1>3, <2>1 DEF Op, WellMade, OpRec, Kind
<1>10. CASE o \in UpdateChapterOps(s)
  <2>1. PICK n \in Numbers(s), m \in Numbers(s), c \in 1..s.chapters :
            o = Op("updateChapter", NoImage, n, m, c, <<>>, {})
      BY <1>10 DEF UpdateChapterOps
  <2>. QED
      BY <1>2, <1>3, <2>1 DEF Op, WellMade, OpRec, Kind
<1>11. CASE o \in DeleteChapterOps(s)
  <2>1. PICK c \in 1..s.chapters : o = Op("deleteChapter", NoImage, 0, 0, c, <<>>, {})
      BY <1>11 DEF DeleteChapterOps
  <2>. QED
      BY <1>2, <1>3, <2>1 DEF Op, WellMade, OpRec, Kind
<1>12. CASE o \in WorkOps(s)
  <2>. DEFINE Archive(x) == {Op("import", NoImage, 0, 0, 0, x, w) : w \in SUBSET ToSet(x)}
              Archives == SetToAllKPermutations(s.images) \ {<<>>}
  <2>1. o \in UNION {Archive(x) : x \in Archives} \/ o = Op("deleteWork", NoImage, 0, 0, 0, <<>>, {})
      BY <1>12 DEF WorkOps
  <2>2. CASE o \in UNION {Archive(x) : x \in Archives}
    <3>1. PICK x \in Archives : o \in Archive(x)
        BY <2>2
    <3>2. PICK w \in SUBSET ToSet(x) : o = Op("import", NoImage, 0, 0, 0, x, w)
        BY <3>1
    <3>3. x \in Seq(Image) /\ IsInjective(x) /\ Len(x) <= MaxPages /\ ToSet(x) \subseteq Image
        BY <1>1, SomeOrders
    <3>4. w \in SUBSET (Image \cup {NoImage})
        BY <3>3
    <3>. QED
        BY <1>3, <3>2, <3>3, <3>4 DEF Op, WellMade, OpRec, Kind
  <2>3. CASE o = Op("deleteWork", NoImage, 0, 0, 0, <<>>, {})
      BY <1>3, <2>3 DEF Op, WellMade, OpRec, Kind
  <2>. QED
      BY <2>1, <2>2, <2>3
<1>13. o \in PageOps(s) \/ o \in ChapterOps(s) \/ o \in WorkOps(s)
    BY DEF Requests
<1>. QED
    BY <1>4, <1>5, <1>6, <1>7, <1>8, <1>9, <1>10, <1>11, <1>12, <1>13
       DEF PageOps, ChapterOps

\* The page list an operation computes is as long and as varied as one may be.
LEMMA PlanIsAPageList ==
    ASSUME scale \in Scales, pages \in Seq(Image), Len(pages) <= MaxPages,
           ~scale.repeats => IsInjective(pages),
           NEW o, WellMade(scale, o), WithinBounds(o), Accepts(o, pages)
    PROVE  /\ Plan(o, pages) \in Seq(Image) /\ Len(Plan(o, pages)) <= MaxPages
           /\ ~scale.repeats => IsInjective(Plan(o, pages))
<1>. DEFINE n == Len(pages)
<1>1. n \in Nat /\ MaxPages \in Nat /\ o \in OpRec /\ DOMAIN pages = 1..n
    BY ScaleFacts DEF WellMade
<1>2. CASE o.kind = "import"
    BY <1>1, <1>2 DEF Plan, WellMade, OpRec
<1>3. CASE o.kind = "add"
  <2>1. n < MaxPages /\ o.img \in Image /\ (~scale.repeats => o.img \notin ToSet(pages))
      BY <1>3 DEF WithinBounds, WellMade
  <2>2. CASE o.i \in DOMAIN pages
    <3>1. o.i + 1 \in 1..(Len(pages) + 1) /\ Plan(o, pages) = InsertAt(pages, o.i + 1, o.img)
        BY <1>1, <1>3, <2>2 DEF Plan
    <3>2. Plan(o, pages) \in Seq(Image) /\ Len(Plan(o, pages)) = n + 1
        BY <2>1, <3>1, Inserted
    <3>3. ~scale.repeats => IsInjective(Plan(o, pages))
        BY <2>1, <3>1, InsertedNew
    <3>. QED
        BY <1>1, <2>1, <3>2, <3>3
  <2>3. CASE o.i \notin DOMAIN pages
    <3>1. Plan(o, pages) = Append(pages, o.img)
        BY <1>1, <1>3, <2>3 DEF Plan
    <3>2. /\ Plan(o, pages) \in Seq(Image) /\ Len(Plan(o, pages)) = n + 1
          /\ DOMAIN Plan(o, pages) = 1..(n + 1)
          /\ \A i \in 1..(n + 1) : Plan(o, pages)[i] = IF i <= n THEN pages[i] ELSE o.img
        BY <1>1, <2>1, <3>1
    <3>3. ASSUME ~scale.repeats PROVE IsInjective(Plan(o, pages))
      <4>1. \A i \in 1..n : pages[i] # o.img
          BY <1>1, <2>1, <3>3 DEF ToSet
      <4>2. \A i, j \in 1..n : pages[i] = pages[j] => i = j
          BY <1>1, <3>3 DEF IsInjective
      <4>3. \A i \in 1..(n + 1) : i \in 1..n \/ (i = n + 1 /\ ~(i <= n))
          BY <1>1
      <4>. QED
          BY <3>2, <4>1, <4>2, <4>3 DEF IsInjective
    <3>. QED
        BY <1>1, <2>1, <3>2, <3>3
  <2>. QED
      BY <2>2, <2>3
<1>4. CASE o.kind = "replace"
  <2>1. o.i \in 1..Len(pages) /\ o.img \in Image /\ (~scale.repeats => o.img \notin ToSet(pages))
      BY <1>1, <1>4 DEF WithinBounds, WellMade, Accepts
  <2>2. Plan(o, pages) = ReplaceAt(pages, o.i, o.img)
      BY <1>4 DEF Plan
  <2>. QED
      BY <2>1, <2>2, ReplacedNew
<1>5. CASE o.kind = "delete"
  <2>1. o.i \in 1..Len(pages)
      BY <1>1, <1>5 DEF Accepts
  <2>2. Plan(o, pages) = RemoveAt(pages, o.i)
      BY <1>5 DEF Plan
  <2>3. Plan(o, pages) \in Seq(Image) /\ Len(Plan(o, pages)) = n - 1
      BY <2>1, <2>2, Removed
  <2>4. ~scale.repeats => IsInjective(Plan(o, pages))
      BY <2>1, <2>2, RemovedDistinct
  <2>. QED
      BY <1>1, <2>3, <2>4
<1>6. CASE o.kind = "move"
  <2>. DEFINE u == RemoveAt(pages, o.i)
              x == pages[o.i]
  <2>1. o.i \in 1..Len(pages) /\ o.j \in 1..Len(pages) /\ x \in Image
      BY <1>1, <1>6 DEF Accepts
  <2>2. Plan(o, pages) = InsertAt(u, o.j, x)
      BY <1>6 DEF Plan
  <2>3. u \in Seq(Image) /\ Len(u) = n - 1
      BY <2>1, Removed
  <2>4. o.j \in 1..(Len(u) + 1)
      BY <1>1, <2>1, <2>3
  <2>. HIDE DEF u, x
  <2>5. Plan(o, pages) \in Seq(Image) /\ Len(Plan(o, pages)) = Len(u) + 1
      BY <2>1, <2>2, <2>3, <2>4, Inserted
  <2>6. ASSUME ~scale.repeats PROVE IsInjective(Plan(o, pages))
    <3>1. IsInjective(u) /\ x \notin ToSet(u)
        BY <2>1, <2>6, RemovedDistinct DEF u, x
    <3>. QED
        BY <2>1, <2>2, <2>3, <2>4, <3>1, InsertedNew
  <2>. QED
      BY <1>1, <2>3, <2>5, <2>6
<1>7. CASE o.kind = "reorder"
  <2>1. o.seq \in Seq(Image) /\ Len(o.seq) <= MaxPages /\ IsInjective(o.seq)
      BY <1>7 DEF WellMade, OpRec
  <2>2. Plan(o, pages) = Filter(o.seq, ToSet(pages))
      BY <1>7 DEF Plan
  <2>3. /\ Plan(o, pages) \in Seq(Image) /\ Len(Plan(o, pages)) <= Len(o.seq)
        /\ IsInjective(Plan(o, pages))
      BY <2>1, <2>2, FilterKeeps
  <2>. QED
      BY <1>1, <2>1, <2>3
<1>8. CASE o.kind \notin {"import", "add", "replace", "delete", "move", "reorder"}
  <2>1. Plan(o, pages) = <<>>
      BY <1>8 DEF Plan
  <2>. QED
      BY <1>1, <2>1 DEF IsInjective
<1>. QED
    BY <1>2, <1>3, <1>4, <1>5, <1>6, <1>7, <1>8

-----------------------------------------------------------------------------
(* What the tables and the editors are made of.                            *)

PageKind == {"add", "replace", "delete", "move", "reorder"}
StepName == {"idle", "read", "upsert", "write", "remap", "remapRead", "remapWrite", "clear", "order",
             "list", "chapter", "range", "members", "exact", "dropChapter", "insertChapter",
             "dropWork", "dropFiles", "snapshot"}
ChRec    == [id : ChapterId, first : Positions, last : Positions]
LocRec   == [op : OpRec, old : Image \cup {NoImage}, plan : Seq(Image), order : Seq(Image),
             todo : Seq(ChRec), mem : Seq(Image)]

DistinctIds(s) == \A k, m \in DOMAIN s : s[k].id = s[m].id => k = m

\* The operations that come by a step.
KindFits(step, k) ==
    /\ step \notin {"idle", "snapshot"} => k # "none"
    /\ step \in {"remap", "remapRead", "remapWrite"} => k = "replace"
    /\ step \in {"list", "chapter"} => k \in PageKind
    /\ step \in {"upsert", "write"} => k \in PageKind \cup {"import"}
    /\ step \in {"clear", "exact"} => k = "import"
    /\ step = "insertChapter" => k \in {"import", "addChapter"}
    /\ step = "range" => k \in PageKind \cup {"updateChapter"}
    /\ step \in {"order", "members"} => k \in PageKind \cup {"import", "addChapter", "updateChapter"}
    /\ step = "dropChapter" => k \in PageKind \cup {"import", "deleteChapter"}
    /\ step \in {"dropWork", "dropFiles"} => k = "deleteWork"

\* The steps in the body of a loop over chapters.
InLoop(step, k) ==
    \/ step \in {"chapter", "remapRead", "remapWrite"}
    \/ step \in {"range", "members"} /\ k \in PageKind
    \/ step = "dropChapter" /\ k # "deleteChapter"

\* An operation, its next step and what it has read belong together.
Fits(s, step, l) ==
    /\ step \in {"idle", "snapshot"} => l = NoLoc
    /\ WellMade(s, l.op)
    /\ KindFits(step, l.op.kind)
    /\ l.todo # <<>> <=> InLoop(step, l.op.kind)
    /\ DistinctIds(l.todo)
    /\ Len(l.plan) <= MaxPages /\ Len(l.order) <= MaxPages
    /\ ~s.repeats => IsInjective(l.plan)
    /\ l.op.kind = "import" /\ step # "read" => l.plan = l.op.seq
    /\ step \in {"range", "members"} /\ l.op.kind \in PageKind =>
           l.mem # <<>> /\ ToSet(l.mem) \subseteq ToSet(l.order)
    /\ step \in {"insertChapter", "order", "members", "exact"} /\ l.op.kind = "import" =>
           l.op.sel # {}
    /\ step \in {"order", "members", "exact"} /\ l.op.kind \notin PageKind =>
           l.op.ch \in ChapterId /\ l.op.i \in Positions /\ l.op.j \in Positions

EditorsFit ==
    /\ at \in [Editor -> StepName]
    /\ loc \in [Editor -> LocRec]
    /\ \A e \in Editor : Fits(scale, at[e], loc[e])

TablesFit ==
    /\ scale \in Scales
    /\ row \in [alive : BOOLEAN, count : 0..MaxPages]
    /\ pages \in Seq(Image) /\ Len(pages) <= MaxPages
    /\ chapters \in Seq(ChRec) /\ DistinctIds(chapters)
    /\ members \in [ChapterId -> Seq(Image)]
    /\ lastId \in 0..scale.chapters
    /\ \A k \in DOMAIN chapters : chapters[k].id <= lastId
    /\ ops \in 0..scale.ops
    /\ PagesAreDistinct
    /\ DeletedIsEmpty

Shape == TablesFit /\ EditorsFit

LEMMA NothingFits ==
    ASSUME scale \in Scales
    PROVE  /\ NoLoc \in LocRec
           /\ \A step \in {"idle", "snapshot"} : Fits(scale, step, NoLoc)
<1>1. MaxPages \in Nat /\ MaxChapter \in Nat /\ NoImage \notin Image
    BY ScaleFacts
<1>2. NoOp \in OpRec /\ NoOp.kind = "none"
    BY <1>1 DEF NoOp, Op, OpRec, Kind
<1>3. NoLoc \in LocRec /\ NoLoc.op = NoOp /\ NoLoc.todo = <<>> /\ NoLoc.plan = <<>>
      /\ NoLoc.order = <<>>
    BY <1>2 DEF NoLoc, LocRec
<1>4. WellMade(scale, NoOp)
    BY <1>2 DEF WellMade
<1>5. IsInjective(<<>>) /\ DistinctIds(<<>>) /\ Len(<<>>) <= MaxPages
    BY <1>1 DEF IsInjective, DistinctIds
<1>. QED
    BY <1>2, <1>3, <1>4, <1>5 DEF Fits, KindFits, InLoop, PageKind

LEMMA MovesOn ==
    ASSUME EditorsFit, scale \in Scales, scale' = scale, NEW e \in Editor,
           NEW step \in StepName, NEW l \in LocRec, To(e, step, l),
           step \notin {"idle", "snapshot"} => Fits(scale, step, l),
           step = "idle" => l = NoLoc
    PROVE  EditorsFit'
<1>. DEFINE k == IF step = "snapshot" THEN NoLoc ELSE l
<1>1. k \in LocRec /\ Fits(scale, step, k)
    BY NothingFits
<1>2. at' = [at EXCEPT ![e] = step] /\ loc' = [loc EXCEPT ![e] = k]
    BY DEF To
<1>3. at' \in [Editor -> StepName] /\ loc' \in [Editor -> LocRec]
    BY <1>1, <1>2 DEF EditorsFit
<1>4. ASSUME NEW x \in Editor PROVE Fits(scale, at'[x], loc'[x])
  <2>1. x = e => at'[x] = step /\ loc'[x] = k
      BY <1>2 DEF EditorsFit
  <2>2. x # e => at'[x] = at[x] /\ loc'[x] = loc[x]
      BY <1>2 DEF EditorsFit
  <2>. QED
      BY <1>1, <2>1, <2>2 DEF EditorsFit
<1>. QED
    BY <1>3, <1>4 DEF EditorsFit

LEMMA Stops ==
    ASSUME EditorsFit, scale \in Scales, scale' = scale, NEW e \in Editor, Stop(e)
    PROVE  EditorsFit'
<1>1. To(e, "idle", NoLoc)
    BY DEF Stop
<1>2. "idle" \in StepName
    BY DEF StepName
<1>. QED
    BY <1>1, <1>2, NothingFits, MovesOn

LEMMA TailOf ==
    ASSUME NEW X, NEW s \in Seq(X), s # <<>>
    PROVE  /\ Head(s) \in X /\ Head(s) = s[1] /\ 1 \in DOMAIN s
           /\ Tail(s) \in Seq(X) /\ Len(Tail(s)) = Len(s) - 1
           /\ \A k \in DOMAIN Tail(s) : k + 1 \in DOMAIN s /\ Tail(s)[k] = s[k + 1]
           /\ \A k \in DOMAIN s : k # 1 => k - 1 \in DOMAIN Tail(s) /\ s[k] = Tail(s)[k - 1]
           /\ Tail(s) = <<>> <=> ~(Len(s) > 1)
           /\ DistinctIds(s) => DistinctIds(Tail(s))
<1>1. Len(s) \in Nat /\ Len(s) # 0 /\ DOMAIN s = 1..Len(s)
    OBVIOUS
<1>2. /\ Head(s) \in X /\ Head(s) = s[1]
      /\ Tail(s) \in Seq(X) /\ Len(Tail(s)) = Len(s) - 1
      /\ \A k \in 1..(Len(s) - 1) : Tail(s)[k] = s[k + 1]
    OBVIOUS
<1>3. DOMAIN Tail(s) = 1..(Len(s) - 1)
    BY <1>2
<1>4. \A k \in DOMAIN Tail(s) : k + 1 \in DOMAIN s /\ Tail(s)[k] = s[k + 1]
    BY <1>1, <1>2, <1>3
<1>5. ASSUME NEW k \in DOMAIN s, k # 1 PROVE k - 1 \in DOMAIN Tail(s) /\ s[k] = Tail(s)[k - 1]
  <2>1. k - 1 \in 1..(Len(s) - 1) /\ (k - 1) + 1 = k
      BY <1>1, <1>5
  <2>. QED
      BY <1>2, <1>3, <2>1
<1>6. Tail(s) = <<>> <=> ~(Len(s) > 1)
  <2>1. Tail(s) = <<>> <=> Len(Tail(s)) = 0
      BY <1>2, EmptySeq
  <2>. QED
      BY <1>1, <1>2, <2>1
<1>7. ASSUME DistinctIds(s) PROVE DistinctIds(Tail(s))
  <2>1. ASSUME NEW k \in DOMAIN Tail(s), NEW m \in DOMAIN Tail(s), Tail(s)[k].id = Tail(s)[m].id
        PROVE  k = m
    <3>1. k + 1 = m + 1
        BY <1>4, <1>7, <2>1 DEF DistinctIds
    <3>2. k \in Nat /\ m \in Nat
        BY <1>3
    <3>. QED
        BY <3>1, <3>2
  <2>. QED
      BY <2>1 DEF DistinctIds
<1>. QED
    BY <1>1, <1>2, <1>4, <1>5, <1>6, <1>7

\* The step after one round of a loop.
LEMMA NextRound ==
    ASSUME NEW o \in OpRec, NEW step,
           step \in {"remapRead", "remapWrite", "chapter", "members", "dropChapter"},
           KindFits(step, o.kind), InLoop(step, o.kind)
    PROVE  LET loop == LoopOf(o, step)
           IN  \/ /\ o.kind = "replace" /\ step \in {"remapRead", "remapWrite"} /\ loop = "remap"
                  /\ LoopStep[loop] = "remapRead" /\ After(o, loop) = "order"
               \/ /\ o.kind = "import" /\ step = "dropChapter" /\ loop = "clear"
                  /\ LoopStep[loop] = "dropChapter"
                  /\ After(o, loop) = IF o.sel = {} THEN "snapshot" ELSE "insertChapter"
               \/ /\ o.kind \in PageKind /\ step \in {"chapter", "members", "dropChapter"}
                  /\ loop = "list" /\ LoopStep[loop] = "chapter"
                  /\ After(o, loop) = IF o.kind = "add" THEN "snapshot" ELSE "upsert"
<1>1. LoopStep["remap"] = "remapRead" /\ LoopStep["list"] = "chapter" /\ LoopStep["clear"] = "dropChapter"
    BY DEF LoopStep
<1>2. /\ After(o, "remap") = "order"
      /\ After(o, "clear") = IF o.sel = {} THEN "snapshot" ELSE "insertChapter"
      /\ After(o, "list") = IF o.kind = "add" THEN "snapshot" ELSE "upsert"
    BY DEF After, AfterList
<1>3. CASE step \in {"remapRead", "remapWrite"}
    BY <1>1, <1>2, <1>3 DEF LoopOf, KindFits
<1>4. CASE step \notin {"remapRead", "remapWrite"} /\ o.kind = "import"
    BY <1>1, <1>2, <1>4 DEF LoopOf, KindFits, InLoop, PageKind
<1>5. CASE step \notin {"remapRead", "remapWrite"} /\ o.kind # "import"
    BY <1>1, <1>2, <1>5 DEF LoopOf, KindFits, InLoop, PageKind
<1>. QED
    BY <1>3, <1>4, <1>5

\* The operation with the chapter it has made.
MadeLoc(l, c, i, j) == [l EXCEPT !.op.ch = c, !.op.i = i, !.op.j = j]

LEMMA OpChanges ==
    ASSUME NEW l \in LocRec, NEW c \in ChapterId, NEW i \in Positions, NEW j \in Positions,
           MaxChapter \in Nat, MaxPages \in Nat
    PROVE  LET k == MadeLoc(l, c, i, j)
           IN  /\ k \in LocRec
               /\ k.op.kind = l.op.kind /\ k.op.img = l.op.img /\ k.op.seq = l.op.seq
               /\ k.op.sel = l.op.sel /\ k.op.ch = c /\ k.op.i = i /\ k.op.j = j
               /\ k.old = l.old /\ k.plan = l.plan /\ k.order = l.order
               /\ k.todo = l.todo /\ k.mem = l.mem
<1>. DEFINE o == [l.op EXCEPT !.ch = c, !.i = i, !.j = j]
            k == MadeLoc(l, c, i, j)
<1>1. c \in 0..MaxChapter /\ i \in 0..MaxPages /\ j \in 0..MaxPages
    BY DEF ChapterId, Positions
<1>2. l.op \in OpRec
    BY DEF LocRec
<1>3. /\ o \in OpRec /\ o.kind = l.op.kind /\ o.img = l.op.img /\ o.seq = l.op.seq
      /\ o.sel = l.op.sel /\ o.ch = c /\ o.i = i /\ o.j = j
    BY <1>1, <1>2 DEF OpRec
<1>4. k = [l EXCEPT !.op = o]
    BY DEF LocRec, MadeLoc
<1>. HIDE DEF o, k
<1>5. /\ k \in LocRec /\ k.op = o /\ k.old = l.old /\ k.plan = l.plan /\ k.order = l.order
      /\ k.todo = l.todo /\ k.mem = l.mem
    BY <1>3, <1>4 DEF LocRec
<1>. QED
    BY <1>3, <1>5 DEF k

\* One round of a loop is over.
RoundLoc(l) == [l EXCEPT !.todo = Tail(@), !.mem = <<>>]
RoundStep(step, l) ==
    LET loop == LoopOf(l.op, step)
    IN  IF Len(l.todo) > 1 THEN LoopStep[loop] ELSE After(l.op, loop)

LEMMA RoundFits ==
    ASSUME NEW s \in Scales, NEW step, NEW l \in LocRec, Fits(s, step, l), l.todo # <<>>,
           step \in {"remapRead", "remapWrite", "chapter", "members", "dropChapter"}
    PROVE  LET k    == RoundLoc(l)
               next == RoundStep(step, l)
           IN  /\ k \in LocRec /\ k.op = l.op /\ k.plan = l.plan /\ k.order = l.order
               /\ k.todo = Tail(l.todo)
               /\ next \in StepName /\ next # "idle"
               /\ next # "snapshot" => Fits(s, next, k)
<1>. DEFINE o == l.op
            k == RoundLoc(l)
            loop == LoopOf(l.op, step)
            next == RoundStep(step, l)
<1>1. l.todo \in Seq(ChRec) /\ o \in OpRec /\ <<>> \in Seq(Image)
    BY DEF LocRec
<1>2. /\ Tail(l.todo) \in Seq(ChRec) /\ DistinctIds(Tail(l.todo))
      /\ Tail(l.todo) = <<>> <=> ~(Len(l.todo) > 1)
  <2>1. DistinctIds(l.todo)
      BY DEF Fits
  <2>. QED
      BY <1>1, <2>1, TailOf
<1>3. /\ k \in LocRec /\ k.op = l.op /\ k.plan = l.plan /\ k.order = l.order
      /\ k.todo = Tail(l.todo) /\ k.mem = <<>>
    BY <1>1, <1>2 DEF LocRec, RoundLoc
<1>4. \/ o.kind = "replace" /\ LoopStep[loop] = "remapRead" /\ After(o, loop) = "order"
      \/ /\ o.kind = "import" /\ LoopStep[loop] = "dropChapter"
         /\ After(o, loop) = IF o.sel = {} THEN "snapshot" ELSE "insertChapter"
      \/ /\ o.kind \in PageKind /\ LoopStep[loop] = "chapter"
         /\ After(o, loop) = IF o.kind = "add" THEN "snapshot" ELSE "upsert"
  <2>1. KindFits(step, o.kind) /\ InLoop(step, o.kind)
      BY DEF Fits
  <2>. QED
      BY <1>1, <2>1, NextRound
<1>. HIDE DEF k, next
<1>5. next \in StepName /\ next # "idle"
    BY <1>4 DEF StepName, next, RoundStep
<1>6. ASSUME next # "snapshot" PROVE Fits(s, next, k)
  <2>0. next = IF Len(l.todo) > 1 THEN LoopStep[loop] ELSE After(l.op, loop)
      BY DEF next, RoundStep
  <2>1. KindFits(next, o.kind) /\ (Tail(l.todo) # <<>> <=> InLoop(next, o.kind))
      BY <1>2, <1>4, <1>6, <2>0 DEF KindFits, InLoop, PageKind
  <2>2. next \notin {"idle", "snapshot", "read", "range", "members", "exact"}
      BY <1>4, <1>6, <2>0
  <2>3. next = "order" => o.kind \in PageKind
      BY <1>4, <2>0 DEF PageKind
  <2>4. next = "insertChapter" => o.sel # {}
      BY <1>4, <2>0
  <2>5. o.kind \in PageKind => o.kind # "import"
      BY DEF PageKind
  <2>6. /\ WellMade(s, o) /\ Len(l.plan) <= MaxPages /\ Len(l.order) <= MaxPages
        /\ ~s.repeats => IsInjective(l.plan)
        /\ o.kind = "import" => l.plan = o.seq
      BY DEF Fits
  <2>. QED
      BY <1>2, <1>3, <2>1, <2>2, <2>3, <2>4, <2>5, <2>6 DEF Fits
<1>. QED
    BY <1>3, <1>5, <1>6 DEF k, next

LEMMA NextChapterFits ==
    ASSUME Shape, scale' = scale, NEW e \in Editor, NextChapter(e), loc[e].todo # <<>>,
           at[e] \in {"remapRead", "remapWrite", "chapter", "members", "dropChapter"}
    PROVE  EditorsFit'
<1>1. loc[e] \in LocRec /\ Fits(scale, at[e], loc[e]) /\ scale \in Scales /\ EditorsFit
    BY DEF Shape, EditorsFit, TablesFit
<1>2. To(e, RoundStep(at[e], loc[e]), RoundLoc(loc[e]))
    BY DEF NextChapter, RoundStep, RoundLoc
<1>3. /\ RoundLoc(loc[e]) \in LocRec
      /\ RoundStep(at[e], loc[e]) \in StepName /\ RoundStep(at[e], loc[e]) # "idle"
      /\ RoundStep(at[e], loc[e]) # "snapshot" => Fits(scale, RoundStep(at[e], loc[e]), RoundLoc(loc[e]))
    BY <1>1, RoundFits
<1>. QED
    BY <1>1, <1>2, <1>3, MovesOn

LEMMA BeginFits ==
    ASSUME Shape, scale' = scale, NEW e \in Editor, NEW o, WellMade(scale, o), o.kind # "none",
           To(e, "read", [NoLoc EXCEPT !.op = o])
    PROVE  EditorsFit'
<1>. DEFINE l == [NoLoc EXCEPT !.op = o]
<1>1. scale \in Scales /\ EditorsFit
    BY DEF Shape, TablesFit
<1>2. o \in OpRec
    BY DEF WellMade
<1>3. NoLoc \in LocRec /\ Fits(scale, "idle", NoLoc)
    BY <1>1, NothingFits
<1>4. /\ l \in LocRec /\ l.op = o /\ l.plan = NoLoc.plan /\ l.order = NoLoc.order
      /\ l.todo = NoLoc.todo /\ l.mem = NoLoc.mem /\ l.todo = <<>>
    BY <1>2, <1>3 DEF LocRec, NoLoc
<1>. HIDE DEF l
<1>5. Fits(scale, "read", l)
    BY <1>3, <1>4 DEF Fits, KindFits, InLoop
<1>6. "read" \in StepName
    BY DEF StepName
<1>. QED
    BY <1>1, <1>4, <1>5, <1>6, MovesOn DEF l

\* The step after one that is not in a loop, with the page list computed.
ReadLoc(l, ps) ==
    [l EXCEPT !.plan = Plan(l.op, ps),
              !.old = IF l.op.kind \in {"replace", "delete"} THEN ps[l.op.i] ELSE NoImage]

LEMMA ReadFits ==
    ASSUME Shape, scale' = scale, NEW e \in Editor, ReadPages(e)
    PROVE  EditorsFit'
<1>. DEFINE o == loc[e].op
            step == After(o, "read")
<1>1. /\ loc[e] \in LocRec /\ Fits(scale, "read", loc[e]) /\ scale \in Scales /\ EditorsFit
      /\ pages \in Seq(Image) /\ Len(pages) <= MaxPages /\ (~scale.repeats => IsInjective(pages))
    BY DEF Shape, EditorsFit, TablesFit, ReadPages, PagesAreDistinct
<1>2. /\ WellMade(scale, o) /\ WithinBounds(o) /\ Accepts(o, pages) /\ To(e, step, ReadLoc(loc[e], pages))
      /\ o \in OpRec
    BY <1>1 DEF ReadPages, ReadLoc, Fits, WellMade
<1>3. /\ Plan(o, pages) \in Seq(Image) /\ Len(Plan(o, pages)) <= MaxPages
      /\ ~scale.repeats => IsInjective(Plan(o, pages))
    BY <1>1, <1>2, PlanIsAPageList
<1>4. (IF o.kind \in {"replace", "delete"} THEN pages[o.i] ELSE NoImage) \in Image \cup {NoImage}
    BY <1>1, <1>2 DEF Accepts
<1>5. PICK l \in LocRec : l = loc[e]
    BY <1>1
<1>6. PICK k : k = ReadLoc(l, pages)
    OBVIOUS
<1>7. /\ k \in LocRec /\ k.op = l.op /\ k.plan = Plan(l.op, pages)
      /\ k.order = l.order /\ k.todo = l.todo /\ k.mem = l.mem
    BY <1>3, <1>4, <1>5, <1>6 DEF ReadLoc, LocRec
<1>8. KindFits("read", l.op.kind) /\ l.todo = <<>> /\ l.op \in OpRec /\ l.op.kind # "none"
    BY <1>1, <1>2, <1>5 DEF Fits, KindFits, InLoop
<1>9. l.op.kind \in Kind
    BY <1>8 DEF OpRec
<1>10. /\ KindFits(step, l.op.kind) /\ ~InLoop(step, l.op.kind) /\ step \in StepName
       /\ step \notin {"idle", "snapshot", "order", "members", "exact"}
       /\ step = "insertChapter" => l.op.kind # "import"
       /\ step \in {"range", "members"} => l.op.kind \notin PageKind
    BY <1>5, <1>8, <1>9 DEF After, FirstWrite, KindFits, InLoop, StepName, Kind, PageKind
<1>11. l.op.kind = "import" => k.plan = l.op.seq
    BY <1>7 DEF Plan
<1>12. Fits(scale, step, k)
  <2>1. /\ WellMade(scale, l.op) /\ DistinctIds(l.todo) /\ Len(l.order) <= MaxPages
      BY <1>1, <1>5 DEF Fits
  <2>2. Len(k.plan) <= MaxPages /\ (~scale.repeats => IsInjective(k.plan))
      BY <1>3, <1>5, <1>7
  <2>. HIDE DEF step
  <2>. QED
      BY <1>7, <1>8, <1>10, <1>11, <2>1, <2>2 DEF Fits
<1>. QED
    BY <1>1, <1>2, <1>5, <1>6, <1>7, <1>10, <1>12, MovesOn

\* What an operation holds may change in what is not looked at again.
LEMMA Onward ==
    ASSUME NEW s, NEW was, NEW l, NEW step, NEW k, Fits(s, was, l),
           was \notin {"idle", "read", "snapshot"}, step \notin {"idle", "read", "snapshot"},
           k.op = l.op, k.plan = l.plan, Len(k.order) <= MaxPages, DistinctIds(k.todo),
           KindFits(step, l.op.kind), k.todo # <<>> <=> InLoop(step, l.op.kind),
           step \in {"range", "members"} /\ l.op.kind \in PageKind =>
               k.mem # <<>> /\ ToSet(k.mem) \subseteq ToSet(k.order),
           step \in {"insertChapter", "order", "members", "exact"} /\ l.op.kind = "import" =>
               l.op.sel # {},
           step \in {"order", "members", "exact"} /\ l.op.kind \notin PageKind =>
               l.op.ch \in ChapterId /\ l.op.i \in Positions /\ l.op.j \in Positions
    PROVE  Fits(s, step, k)
BY DEF Fits

LEMMA UpsertFits ==
    ASSUME Shape, scale' = scale, NEW e \in Editor, Upsert(e) \/ WritePages(e)
    PROVE  EditorsFit'
<1>1. PICK was : was = at[e] /\ was \in {"upsert", "write"}
    BY DEF Upsert, WritePages
<1>2. PICK l \in LocRec : l = loc[e] /\ Fits(scale, was, l) /\ scale \in Scales /\ EditorsFit
    BY <1>1 DEF Shape, EditorsFit, TablesFit
<1>3. PICK step : step = After(l.op, was) /\ To(e, step, l)
    BY <1>1, <1>2 DEF Upsert, WritePages
<1>4. /\ KindFits(was, l.op.kind) /\ l.todo = <<>> /\ DistinctIds(l.todo) /\ Len(l.order) <= MaxPages
    BY <1>1, <1>2 DEF Fits, InLoop
<1>5. /\ step \in StepName /\ step \notin {"idle", "read", "members", "exact", "insertChapter", "range"}
      /\ step # "snapshot" => KindFits(step, l.op.kind)
      /\ ~InLoop(step, l.op.kind)
      /\ step = "order" => l.op.kind \in PageKind /\ l.op.kind # "import"
    BY <1>1, <1>3, <1>4 DEF After, AfterPages, KindFits, StepName, InLoop, PageKind
<1>6. step # "snapshot" => Fits(scale, step, l)
    BY <1>1, <1>2, <1>4, <1>5, Onward
<1>. QED
    BY <1>2, <1>3, <1>5, <1>6, MovesOn

LEMMA ListFits ==
    ASSUME Shape, scale' = scale, NEW e \in Editor, NEW loop \in {"remap", "list", "clear"},
           ListChapters(e, loop)
    PROVE  EditorsFit'
<1>1. PICK l \in LocRec : l = loc[e] /\ Fits(scale, loop, l) /\ scale \in Scales /\ EditorsFit
    BY DEF Shape, EditorsFit, TablesFit, ListChapters
<1>2. chapters \in Seq(ChRec) /\ DistinctIds(chapters)
    BY DEF Shape, TablesFit
<1>3. KindFits(loop, l.op.kind) /\ l.todo = <<>> /\ Len(l.order) <= MaxPages /\ DistinctIds(l.todo)
    BY <1>1 DEF Fits, InLoop
<1>4. CASE chapters = <<>>
  <2>1. PICK step : step = After(l.op, loop) /\ To(e, step, l)
      BY <1>1, <1>4 DEF ListChapters
  <2>2. /\ step \in StepName
        /\ step \notin {"idle", "read", "members", "exact", "range"}
        /\ step # "snapshot" => KindFits(step, l.op.kind)
        /\ ~InLoop(step, l.op.kind)
        /\ step = "order" => l.op.kind \in PageKind /\ l.op.kind # "import"
        /\ step = "insertChapter" => l.op.sel # {}
      BY <1>3, <2>1 DEF After, AfterList, KindFits, StepName, InLoop, PageKind
  <2>3. step # "snapshot" => Fits(scale, step, l)
      BY <1>1, <1>3, <2>2, Onward
  <2>. QED
      BY <1>1, <2>1, <2>2, <2>3, MovesOn
<1>5. CASE chapters # <<>>
  <2>1. PICK step, k : step = LoopStep[loop] /\ k = [l EXCEPT !.todo = chapters] /\ To(e, step, k)
      BY <1>1, <1>5 DEF ListChapters
  <2>2. k \in LocRec /\ k.op = l.op /\ k.plan = l.plan /\ k.order = l.order /\ k.todo = chapters
      BY <1>2, <2>1 DEF LocRec
  <2>3. /\ step \in {"remapRead", "chapter", "dropChapter"} /\ step \in StepName
        /\ KindFits(step, l.op.kind)
        /\ InLoop(step, l.op.kind)
      BY <1>3, <2>1 DEF LoopStep, KindFits, StepName, InLoop, PageKind
  <2>4. Fits(scale, step, k)
      BY <1>1, <1>2, <1>3, <1>5, <2>2, <2>3, Onward
  <2>. QED
      BY <1>1, <2>1, <2>2, <2>3, <2>4, MovesOn
<1>. QED
    BY <1>4, <1>5

LEMMA RemapFits ==
    ASSUME Shape, scale' = scale, NEW e \in Editor, RemapRead(e)
    PROVE  EditorsFit'
<1>1. PICK l \in LocRec : l = loc[e] /\ Fits(scale, "remapRead", l) /\ scale \in Scales /\ EditorsFit
    BY DEF Shape, EditorsFit, TablesFit, RemapRead
<1>2. members \in [ChapterId -> Seq(Image)]
    BY DEF Shape, TablesFit
<1>3. KindFits("remapRead", l.op.kind) /\ l.todo # <<>> /\ Len(l.order) <= MaxPages /\ DistinctIds(l.todo)
      /\ l.todo \in Seq(ChRec)
    BY <1>1 DEF Fits, InLoop, LocRec
<1>4. CASE NextChapter(e)
    BY <1>1, <1>3, <1>4, NextChapterFits DEF RemapRead
<1>5. CASE ~NextChapter(e)
  <2>. DEFINE was == members[Head(l.todo).id]
  <2>1. PICK k : k = [l EXCEPT !.mem = Remapped(l, was)] /\ To(e, "remapWrite", k)
      BY <1>1, <1>5 DEF RemapRead
  <2>2. was \in Seq(Image)
    <3>1. Head(l.todo) \in ChRec
        BY <1>3
    <3>. QED
        BY <1>2, <3>1 DEF ChRec
  <2>3. l.op.img \in Image
      BY <1>1, <1>3 DEF Fits, WellMade, KindFits
  <2>. HIDE DEF was
  <2>4. Remapped(l, was) \in Seq(Image)
      BY <2>2, <2>3 DEF Remapped
  <2>5. k \in LocRec /\ k.op = l.op /\ k.plan = l.plan /\ k.order = l.order /\ k.todo = l.todo
      BY <2>1, <2>4 DEF LocRec
  <2>6. KindFits("remapWrite", l.op.kind) /\ InLoop("remapWrite", l.op.kind)
      BY <1>3 DEF KindFits, InLoop
  <2>7. Fits(scale, "remapWrite", k)
      BY <1>1, <1>3, <2>5, <2>6, Onward
  <2>8. "remapWrite" \in StepName
      BY DEF StepName
  <2>. QED
      BY <1>1, <2>1, <2>5, <2>7, <2>8, MovesOn
<1>. QED
    BY <1>4, <1>5

LEMMA PageKinds ==
    ASSUME NEW o
    PROVE  IsPageOp(o) <=> o.kind \in PageKind
BY DEF IsPageOp, PageKind

LEMMA OrderFits ==
    ASSUME Shape, scale' = scale, NEW e \in Editor, ReadOrder(e)
    PROVE  EditorsFit'
<1>1. PICK l \in LocRec : l = loc[e] /\ Fits(scale, "order", l) /\ scale \in Scales /\ EditorsFit
    BY DEF Shape, EditorsFit, TablesFit, ReadOrder
<1>2. pages \in Seq(Image) /\ Len(pages) <= MaxPages
    BY DEF Shape, TablesFit
<1>3. /\ KindFits("order", l.op.kind) /\ l.todo = <<>> /\ Len(l.order) <= MaxPages /\ DistinctIds(l.todo)
      /\ l.op.kind = "import" => l.op.sel # {}
      /\ l.op.kind \notin PageKind => l.op.ch \in ChapterId /\ l.op.i \in Positions /\ l.op.j \in Positions
    BY <1>1 DEF Fits, InLoop
<1>4. CASE IsPageOp(l.op)
  <2>1. PICK k : k = [l EXCEPT !.order = pages] /\ To(e, "list", k)
      BY <1>1, <1>4 DEF ReadOrder
  <2>2. k \in LocRec /\ k.op = l.op /\ k.plan = l.plan /\ k.order = pages /\ k.todo = l.todo
      BY <1>2, <2>1 DEF LocRec
  <2>3. KindFits("list", l.op.kind) /\ ~InLoop("list", l.op.kind) /\ "list" \in StepName
      BY <1>4 DEF KindFits, InLoop, StepName, IsPageOp, PageKind
  <2>4. Fits(scale, "list", k)
      BY <1>1, <1>2, <1>3, <2>2, <2>3, Onward
  <2>. QED
      BY <1>1, <2>1, <2>2, <2>3, <2>4, MovesOn
<1>5. CASE ~IsPageOp(l.op)
  <2>. DEFINE b == IF l.op.j < Len(pages) THEN l.op.j ELSE Len(pages)
  <2>1. PICK k : k = [l EXCEPT !.mem = SubSeq(pages, l.op.i, b)] /\ To(e, "members", k)
      BY <1>1, <1>5 DEF ReadOrder
  <2>2. l.op.i \in Nat /\ 1 <= l.op.i /\ l.op.j \in Nat /\ l.op.kind \notin PageKind
      BY <1>3, <1>5, PageKinds DEF Positions
  <2>3. b \in Int /\ b <= Len(pages) /\ Len(pages) \in Nat
      BY <1>2, <2>2
  <2>. HIDE DEF b
  <2>4. SubSeq(pages, l.op.i, b) \in Seq(Image)
    <3>1. \A n \in (l.op.i)..b : pages[n] \in Image
        BY <1>2, <2>2, <2>3
    <3>. QED
        BY <2>2, <2>3, <3>1
  <2>5. k \in LocRec /\ k.op = l.op /\ k.plan = l.plan /\ k.order = l.order /\ k.todo = l.todo
      BY <2>1, <2>4 DEF LocRec
  <2>6. KindFits("members", l.op.kind) /\ ~InLoop("members", l.op.kind) /\ "members" \in StepName
      BY <1>3, <2>2 DEF KindFits, InLoop, StepName
  <2>7. Fits(scale, "members", k)
      BY <1>1, <1>3, <2>2, <2>5, <2>6, Onward
  <2>. QED
      BY <1>1, <2>1, <2>5, <2>6, <2>7, MovesOn
<1>. QED
    BY <1>4, <1>5

LEMMA MembersFits ==
    ASSUME Shape, scale' = scale, NEW e \in Editor, ReadMembers(e)
    PROVE  EditorsFit'
<1>1. PICK l \in LocRec : l = loc[e] /\ Fits(scale, "chapter", l) /\ scale \in Scales /\ EditorsFit
    BY DEF Shape, EditorsFit, TablesFit, ReadMembers
<1>2. KindFits("chapter", l.op.kind) /\ l.todo # <<>> /\ Len(l.order) <= MaxPages /\ DistinctIds(l.todo)
      /\ l.order \in Seq(Image)
    BY <1>1 DEF Fits, InLoop, LocRec
<1>3. PICK want, keep : keep = Filter(l.order, want) /\ keep = Kept(l, members[Head(l.todo).id])
    BY DEF Kept
<1>4. keep \in Seq(Image) /\ ToSet(keep) \subseteq ToSet(l.order)
  <2>1. Filter(l.order, want) \in Seq(Image) /\ ToSet(Filter(l.order, want)) = ToSet(l.order) \cap want
      BY <1>2, FilterKeeps
  <2>. QED
      BY <1>3, <2>1
<1>5. PICK step, k : /\ step = IF keep = <<>> THEN "dropChapter" ELSE "range"
                     /\ k = [l EXCEPT !.mem = keep] /\ To(e, step, k)
    BY <1>1, <1>3 DEF ReadMembers
<1>6. k \in LocRec /\ k.op = l.op /\ k.plan = l.plan /\ k.order = l.order /\ k.todo = l.todo /\ k.mem = keep
    BY <1>4, <1>5 DEF LocRec
<1>7. KindFits(step, l.op.kind) /\ InLoop(step, l.op.kind) /\ step \in StepName
    BY <1>2, <1>5 DEF KindFits, InLoop, StepName, PageKind
<1>8. Fits(scale, step, k)
    BY <1>1, <1>2, <1>4, <1>5, <1>6, <1>7, Onward
<1>. QED
    BY <1>1, <1>5, <1>6, <1>7, <1>8, MovesOn

LEMMA RangeFits ==
    ASSUME Shape, scale' = scale, NEW e \in Editor, UpdateRange(e)
    PROVE  EditorsFit'
<1>1. PICK l \in LocRec : l = loc[e] /\ Fits(scale, "range", l) /\ scale \in Scales /\ EditorsFit
    BY DEF Shape, EditorsFit, TablesFit, UpdateRange
<1>2. KindFits("range", l.op.kind) /\ Len(l.order) <= MaxPages /\ DistinctIds(l.todo)
      /\ (l.todo # <<>> <=> InLoop("range", l.op.kind))
    BY <1>1 DEF Fits
<1>3. CASE IsPageOp(l.op)
  <2>1. To(e, "members", l)
      BY <1>1, <1>3 DEF UpdateRange
  <2>2. KindFits("members", l.op.kind) /\ (InLoop("members", l.op.kind) <=> InLoop("range", l.op.kind))
        /\ "members" \in StepName /\ l.op.kind \in PageKind /\ l.op.kind # "import"
      BY <1>3 DEF KindFits, InLoop, StepName, PageKind, IsPageOp
  <2>3. l.mem # <<>> /\ ToSet(l.mem) \subseteq ToSet(l.order)
      BY <1>1, <2>2 DEF Fits
  <2>4. Fits(scale, "members", l)
      BY <1>1, <1>2, <2>2, <2>3, Onward
  <2>. QED
      BY <1>1, <2>1, <2>2, <2>4, MovesOn
<1>4. CASE ~IsPageOp(l.op) /\ To(e, "order", l)
  <2>1. l.op.kind = "updateChapter"
      BY <1>2, <1>4, PageKinds DEF KindFits
  <2>2. l.op.i \in Positions /\ l.op.j \in Positions /\ l.op.ch \in ChapterId
    <3>1. scale.chapters \in 0..MaxChapter /\ MaxChapter \in Nat
        BY <1>1, ScaleFacts
    <3>2. WellMade(scale, l.op)
        BY <1>1 DEF Fits
    <3>. QED
        BY <2>1, <3>1, <3>2 DEF WellMade, ChapterId
  <2>3. KindFits("order", l.op.kind) /\ ~InLoop("order", l.op.kind) /\ ~InLoop("range", l.op.kind)
        /\ "order" \in StepName
      BY <2>1 DEF KindFits, InLoop, StepName, PageKind
  <2>4. Fits(scale, "order", l)
      BY <1>1, <1>2, <2>1, <2>2, <2>3, Onward
  <2>. QED
      BY <1>1, <1>4, <2>3, <2>4, MovesOn
<1>5. CASE Stop(e)
    BY <1>1, <1>5, Stops
<1>. QED
    BY <1>1, <1>3, <1>4, <1>5 DEF UpdateRange

LEMMA WriteMembersFits ==
    ASSUME Shape, scale' = scale, NEW e \in Editor, WriteMembers(e)
    PROVE  EditorsFit'
<1>1. PICK was : was = at[e] /\ was \in {"members", "remapWrite", "exact"}
    BY DEF WriteMembers, WritingMembers
<1>2. PICK l \in LocRec : l = loc[e] /\ Fits(scale, was, l) /\ scale \in Scales /\ EditorsFit
    BY <1>1 DEF Shape, EditorsFit, TablesFit
<1>3. /\ KindFits(was, l.op.kind) /\ Len(l.order) <= MaxPages /\ DistinctIds(l.todo)
      /\ l.todo # <<>> <=> InLoop(was, l.op.kind)
    BY <1>2 DEF Fits
<1>4. CASE l.todo # <<>>
  <2>1. NextChapter(e)
      BY <1>2, <1>4 DEF WriteMembers
  <2>2. was \in {"members", "remapWrite"}
      BY <1>1, <1>3, <1>4 DEF InLoop
  <2>. QED
      BY <1>1, <1>2, <1>4, <2>1, <2>2, NextChapterFits
<1>5. CASE l.todo = <<>>
  <2>1. PICK step, k : /\ step = After(l.op, was) /\ k = [l EXCEPT !.mem = FolderImages(l)]
                       /\ To(e, step, k)
      BY <1>1, <1>2, <1>5 DEF WriteMembers
  <2>2. l.op.kind \notin PageKind /\ was # "remapWrite"
      BY <1>1, <1>3, <1>5 DEF InLoop, KindFits, PageKind
  <2>3. step = IF was = "members" /\ l.op.kind = "import" THEN "exact" ELSE "snapshot"
      BY <1>1, <2>1, <2>2 DEF After
  <2>4. FolderImages(l) \in Seq(Image)
    <3>1. l.plan \in Seq(Image)
        BY DEF LocRec
    <3>. QED
        BY <3>1, FilterKeeps DEF FolderImages
  <2>5. k \in LocRec /\ k.op = l.op /\ k.plan = l.plan /\ k.order = l.order /\ k.todo = l.todo
      BY <2>1, <2>4 DEF LocRec
  <2>6. ASSUME step # "snapshot" PROVE Fits(scale, step, k)
    <3>1. l.op.sel # {} /\ l.op.ch \in ChapterId /\ l.op.i \in Positions /\ l.op.j \in Positions
        BY <1>2, <2>2, <2>3, <2>6 DEF Fits
    <3>2. KindFits(step, l.op.kind) /\ ~InLoop(step, l.op.kind)
        BY <2>2, <2>3, <2>6 DEF KindFits, InLoop
    <3>. QED
        BY <1>1, <1>2, <1>3, <1>5, <2>2, <2>3, <2>5, <2>6, <3>1, <3>2, Onward
  <2>7. step \in StepName /\ step # "idle"
      BY <2>3 DEF StepName
  <2>. QED
      BY <1>2, <2>1, <2>5, <2>6, <2>7, MovesOn
<1>. QED
    BY <1>4, <1>5

LEMMA DropChapterFits ==
    ASSUME Shape, scale' = scale, NEW e \in Editor, DropChapter(e)
    PROVE  EditorsFit'
<1>1. loc[e] \in LocRec /\ Fits(scale, "dropChapter", loc[e]) /\ scale \in Scales /\ EditorsFit
      /\ at[e] = "dropChapter"
    BY DEF Shape, EditorsFit, TablesFit, DropChapter
<1>2. CASE loc[e].todo # <<>>
    BY <1>1, <1>2, NextChapterFits DEF DropChapter
<1>3. CASE To(e, "snapshot", loc[e])
  <2>1. "snapshot" \in StepName
      BY DEF StepName
  <2>. QED
      BY <1>1, <1>3, <2>1, MovesOn
<1>4. CASE Stop(e)
    BY <1>1, <1>4, Stops
<1>. QED
    BY <1>2, <1>3, <1>4 DEF DropChapter

\* The place of an archive's directory among its pages.
LEMMA FolderRangeFits ==
    ASSUME scale \in Scales, NEW l \in LocRec, WellMade(scale, l.op), l.op.kind = "import",
           l.op.sel # {}, l.plan = l.op.seq
    PROVE  /\ FolderRange(l)[1] \in Positions /\ FolderRange(l)[2] \in Positions
           /\ FolderRange(l)[1] <= FolderRange(l)[2] /\ FolderRange(l)[2] <= Len(l.plan)
           /\ FolderImages(l) # <<>>
           /\ PosOf(l.plan, Head(FolderImages(l))) = FolderRange(l)[1]
           /\ PosOf(l.plan, Last(FolderImages(l))) = FolderRange(l)[2]
<1>1. /\ l.plan \in Seq(Image) /\ IsInjective(l.plan) /\ Len(l.plan) <= MaxPages
      /\ l.op.sel \subseteq ToSet(l.plan)
    BY DEF WellMade, LocRec
<1>2. PICK places : places = {PosOf(l.plan, x) : x \in l.op.sel}
    OBVIOUS
<1>3. /\ Filter(l.plan, l.op.sel) # <<>>
      /\ PosOf(l.plan, Head(Filter(l.plan, l.op.sel))) = Min(places)
      /\ PosOf(l.plan, Last(Filter(l.plan, l.op.sel))) = Max(places)
      /\ Min(places) \in 1..Len(l.plan) /\ Max(places) \in 1..Len(l.plan)
      /\ Min(places) <= Max(places)
    BY <1>1, <1>2, EndsOf
<1>4. FolderRange(l)[1] = Min(places) /\ FolderRange(l)[2] = Max(places)
    BY <1>2 DEF FolderRange
<1>5. MaxPages \in Nat /\ Len(l.plan) \in Nat
    BY <1>1, ScaleFacts
<1>. QED
    BY <1>1, <1>3, <1>4, <1>5 DEF FolderImages, Positions

\* The chapter a step makes and its range.
MadeRange(l) == IF l.op.kind = "import" THEN FolderRange(l) ELSE <<l.op.i, l.op.j>>

LEMMA InsertChapterFits ==
    ASSUME Shape, scale' = scale, NEW e \in Editor, InsertChapter(e)
    PROVE  /\ EditorsFit'
           /\ lastId + 1 \in ChapterId /\ lastId + 1 \in 1..scale.chapters
           /\ MadeRange(loc[e])[1] \in Positions /\ MadeRange(loc[e])[2] \in Positions
<1>1. PICK l \in LocRec : l = loc[e] /\ Fits(scale, "insertChapter", l) /\ scale \in Scales /\ EditorsFit
    BY DEF Shape, EditorsFit, TablesFit, InsertChapter
<1>2. /\ KindFits("insertChapter", l.op.kind) /\ Len(l.order) <= MaxPages /\ DistinctIds(l.todo)
      /\ l.todo = <<>> /\ WellMade(scale, l.op)
      /\ l.op.kind = "import" => l.op.sel # {} /\ l.plan = l.op.seq
    BY <1>1 DEF Fits, InLoop
<1>3. MaxPages \in Nat /\ MaxChapter \in Nat /\ scale.chapters \in 0..MaxChapter
    BY <1>1, ScaleFacts
<1>4. PICK c, i, j : c = lastId + 1 /\ i = MadeRange(l)[1] /\ j = MadeRange(l)[2]
    OBVIOUS
<1>5. c \in 1..scale.chapters /\ To(e, "order", MadeLoc(l, c, i, j))
    BY <1>1, <1>4 DEF InsertChapter, MadeRange, MadeLoc
<1>6. c \in ChapterId
    BY <1>3, <1>5 DEF ChapterId
<1>7. i \in Positions /\ j \in Positions
  <2>1. CASE l.op.kind = "import"
      BY <1>1, <1>2, <1>4, <2>1, FolderRangeFits DEF MadeRange
  <2>2. CASE l.op.kind = "addChapter"
      BY <1>2, <1>4, <2>2 DEF MadeRange, WellMade
  <2>. QED
      BY <1>2, <2>1, <2>2 DEF KindFits
<1>8. PICK k : k = MadeLoc(l, c, i, j)
    OBVIOUS
<1>9. /\ k \in LocRec
      /\ k.op.kind = l.op.kind /\ k.op.img = l.op.img /\ k.op.seq = l.op.seq
      /\ k.op.sel = l.op.sel /\ k.op.ch = c /\ k.op.i = i /\ k.op.j = j
      /\ k.old = l.old /\ k.plan = l.plan /\ k.order = l.order
      /\ k.todo = l.todo /\ k.mem = l.mem
    BY <1>3, <1>6, <1>7, <1>8, OpChanges
<1>10. WellMade(scale, k.op)
  <2>1. k.op \in OpRec
      BY <1>9 DEF LocRec
  <2>2. l.op.kind \in {"import", "addChapter"}
      BY <1>2 DEF KindFits
  <2>. QED
      BY <1>2, <1>7, <1>9, <2>1, <2>2 DEF WellMade
<1>11. Fits(scale, "order", k)
  <2>1. KindFits("order", l.op.kind) /\ ~InLoop("order", l.op.kind)
      BY <1>2 DEF KindFits, InLoop
  <2>2. Len(l.plan) <= MaxPages /\ (~scale.repeats => IsInjective(l.plan))
      BY <1>1 DEF Fits
  <2>. QED
      BY <1>2, <1>6, <1>7, <1>9, <1>10, <2>1, <2>2 DEF Fits
<1>12. "order" \in StepName
    BY DEF StepName
<1>. QED
    BY <1>1, <1>4, <1>5, <1>6, <1>7, <1>8, <1>9, <1>11, <1>12, MovesOn

\* Whatever an editor does, what it does next belongs to its operation.
LEMMA EditorsStep ==
    ASSUME Shape, NEW e \in Editor, Step(e)
    PROVE  EditorsFit' /\ scale' = scale /\ ops' = ops
<1>1. scale \in Scales /\ EditorsFit
    BY DEF Shape, TablesFit
<1>2. CASE Abandon(e) \/ DropFiles(e) \/ Snapshot(e)
    BY <1>1, <1>2, Stops DEF Abandon, DropFiles, Snapshot
<1>3. CASE ReadPages(e)
    BY <1>3, ReadFits DEF ReadPages, Reads, Quiet
<1>4. CASE Upsert(e) \/ WritePages(e)
    BY <1>4, UpsertFits DEF Upsert, WritePages, Quiet
<1>5. CASE ListChapters(e, "remap") \/ ListChapters(e, "list") \/ ListChapters(e, "clear")
    BY <1>5, ListFits DEF ListChapters, Reads, Quiet
<1>6. CASE RemapRead(e)
    BY <1>6, RemapFits DEF RemapRead, Reads, Quiet
<1>7. CASE ReadOrder(e)
    BY <1>7, OrderFits DEF ReadOrder, Reads, Quiet
<1>8. CASE ReadMembers(e)
    BY <1>8, MembersFits DEF ReadMembers, Reads, Quiet
<1>9. CASE UpdateRange(e)
    BY <1>9, RangeFits DEF UpdateRange, Quiet
<1>10. CASE WriteMembers(e)
    BY <1>10, WriteMembersFits DEF WriteMembers, Quiet
<1>11. CASE DropChapter(e)
    BY <1>11, DropChapterFits DEF DropChapter, Quiet
<1>12. CASE InsertChapter(e)
    BY <1>12, InsertChapterFits DEF InsertChapter, Quiet
<1>13. CASE DropWork(e)
  <2>1. CASE Stop(e)
      BY <1>1, <1>13, <2>1, Stops DEF DropWork, Quiet
  <2>2. CASE To(e, "dropFiles", loc[e])
    <3>1. PICK l \in LocRec : l = loc[e] /\ Fits(scale, "dropWork", l)
        BY <1>1, <1>13 DEF EditorsFit, DropWork
    <3>2. KindFits("dropFiles", l.op.kind) /\ l.todo = <<>> /\ ~InLoop("dropFiles", l.op.kind)
        BY <3>1 DEF Fits, KindFits, InLoop
    <3>3. Len(l.order) <= MaxPages /\ DistinctIds(l.todo)
        BY <3>1 DEF Fits
    <3>4. Fits(scale, "dropFiles", l)
        BY <3>1, <3>2, <3>3, Onward
    <3>5. "dropFiles" \in StepName /\ scale' = scale /\ ops' = ops
        BY <1>13 DEF StepName, DropWork, Quiet
    <3>. QED
        BY <1>1, <2>2, <3>1, <3>4, <3>5, MovesOn
  <2>. QED
      BY <1>13, <2>1, <2>2 DEF DropWork
<1>14. CASE Rejected(e) \/ WritePagesFails(e) \/ WriteMembersFails(e) \/ InsertChapterFails(e) \/ Fail(e)
    BY <1>2, <1>14 DEF Rejected, WritePagesFails, WriteMembersFails, InsertChapterFails, Fail
<1>. QED
    BY <1>2, <1>3, <1>4, <1>5, <1>6, <1>7, <1>8, <1>9, <1>10, <1>11, <1>12, <1>13, <1>14
       DEF Step, EditStep

\* An editor's operation leaves the tables alone but for seven steps.
LEMMA QuietSteps ==
    ASSUME NEW e \in Editor, Step(e)
    PROVE  \/ Upsert(e) \/ WritePages(e) \/ UpdateRange(e) \/ WriteMembers(e) \/ DropChapter(e)
           \/ InsertChapter(e) \/ DropWork(e)
           \/ UNCHANGED dbVars
BY DEF Step, EditStep, ReadPages, Rejected, WritePagesFails, ListChapters, RemapRead, ReadOrder,
       ReadMembers, WriteMembersFails, InsertChapterFails, Fail, Abandon, DropFiles, Snapshot, Reads

LEMMA TablesStay ==
    ASSUME TablesFit, UNCHANGED <<scale, dbVars>>, ops' \in 0..scale.ops
    PROVE  TablesFit'
BY DEF TablesFit, dbVars, PagesAreDistinct, DeletedIsEmpty, Ids

\* The three changes of a chapter list.
Ranged(s, c, first, end) ==
    [k \in DOMAIN s |-> IF s[k].id = c THEN [s[k] EXCEPT !.first = first, !.last = end] ELSE s[k]]
Dropped(s, c) == Filter(s, {x \in ToSet(s) : x.id # c})

LEMMA RangedChapters ==
    ASSUME NEW s \in Seq(ChRec), NEW c, NEW first \in Positions, NEW end \in Positions
    PROVE  LET t == Ranged(s, c, first, end)
           IN  /\ t \in Seq(ChRec) /\ DOMAIN t = DOMAIN s
               /\ \A k \in DOMAIN s : t[k].id = s[k].id /\ (s[k].id # c => t[k] = s[k])
                                      /\ (s[k].id = c => t[k].first = first /\ t[k].last = end)
<1>. DEFINE t == Ranged(s, c, first, end)
<1>1. Len(s) \in Nat /\ DOMAIN s = 1..Len(s)
    OBVIOUS
<1>2. \A k \in DOMAIN s : s[k] \in ChRec
    BY <1>1, ElementOfSeq
<1>3. ASSUME NEW k \in DOMAIN s
      PROVE  /\ t[k] \in ChRec /\ t[k].id = s[k].id /\ (s[k].id # c => t[k] = s[k])
             /\ s[k].id = c => t[k].first = first /\ t[k].last = end
    BY <1>2 DEF ChRec, Ranged
<1>4. t \in [1..Len(s) -> ChRec]
    BY <1>1, <1>3 DEF Ranged
<1>5. t \in Seq(ChRec) /\ DOMAIN t = DOMAIN s
    BY <1>1, <1>4
<1>. QED
    BY <1>3, <1>5

LEMMA DroppedChapters ==
    ASSUME NEW s \in Seq(ChRec), DistinctIds(s), NEW c
    PROVE  LET t == Dropped(s, c)
           IN  /\ t \in Seq(ChRec) /\ DistinctIds(t)
               /\ ToSet(t) = {x \in ToSet(s) : x.id # c}
               /\ s = <<>> => t = <<>>
<1>. DEFINE S == {x \in ToSet(s) : x.id # c}
            t == Dropped(s, c)
<1>1. /\ t \in Seq(ChRec) /\ Len(t) <= Len(s) /\ ToSet(t) = ToSet(s) \cap S
      /\ IsInjective(s) => IsInjective(t)
    BY FilterKeeps DEF Dropped
<1>. HIDE DEF t
<1>2. ToSet(t) = S
    BY <1>1
<1>3. IsInjective(s)
    BY DEF IsInjective, DistinctIds
<1>4. \A x, y \in ToSet(s) : x.id = y.id => x = y
    BY DEF ToSet, DistinctIds
<1>5. \A k \in DOMAIN t : t[k] \in ToSet(s)
    BY <1>2 DEF ToSet
<1>6. DistinctIds(t)
    BY <1>1, <1>3, <1>4, <1>5 DEF DistinctIds, IsInjective
<1>7. s = <<>> => t = <<>>
    BY <1>1
<1>. QED
    BY <1>1, <1>2, <1>6, <1>7 DEF t

LEMMA AddedChapter ==
    ASSUME NEW s \in Seq(ChRec), NEW x \in ChRec, NEW t, t = Append(s, x)
    PROVE  /\ t \in Seq(ChRec) /\ t # <<>> /\ DOMAIN t = 1..(Len(s) + 1) /\ Len(s) \in Nat
           /\ DOMAIN s = 1..Len(s)
           /\ \A k \in DOMAIN t : (k \in DOMAIN s /\ t[k] = s[k]) \/ (k = Len(s) + 1 /\ t[k] = x)
           /\ \A k \in DOMAIN s : k \in DOMAIN t /\ t[k] = s[k]
           /\ t[Len(s) + 1] = x
OBVIOUS

LEMMA TablesStep ==
    ASSUME Shape, NEW e \in Editor, Step(e)
    PROVE  TablesFit'
<1>1. /\ TablesFit /\ EditorsFit /\ scale \in Scales /\ scale' = scale /\ ops' = ops
      /\ at[e] \in StepName
    BY EditorsStep DEF Shape, TablesFit, EditorsFit
<1>2. /\ row \in [alive : BOOLEAN, count : 0..MaxPages]
      /\ pages \in Seq(Image) /\ Len(pages) <= MaxPages
      /\ chapters \in Seq(ChRec) /\ DistinctIds(chapters)
      /\ members \in [ChapterId -> Seq(Image)]
      /\ lastId \in 0..scale.chapters
      /\ \A k \in DOMAIN chapters : chapters[k].id <= lastId
      /\ ops \in 0..scale.ops
      /\ PagesAreDistinct /\ DeletedIsEmpty
    BY <1>1 DEF TablesFit
<1>3. PICK l \in LocRec : l = loc[e] /\ Fits(scale, at[e], l)
    BY <1>1 DEF EditorsFit
<1>4. MaxPages \in Nat /\ MaxChapter \in Nat /\ scale.chapters \in 0..MaxChapter
    BY <1>1, ScaleFacts
<1>5. CASE Upsert(e)
  <2>1. /\ row' = [alive |-> TRUE, count |-> Len(l.plan)]
        /\ UNCHANGED <<pages, chapters, members, lastId>>
      BY <1>3, <1>5 DEF Upsert
  <2>2. Len(l.plan) \in 0..MaxPages
      BY <1>3, <1>4 DEF Fits, LocRec
  <2>. QED
      BY <1>1, <1>2, <2>1, <2>2 DEF TablesFit, PagesAreDistinct, DeletedIsEmpty, Ids
<1>6. CASE WritePages(e)
  <2>1. /\ row.alive \/ l.plan = <<>>
        /\ pages' = l.plan /\ UNCHANGED <<row, chapters, members, lastId>>
      BY <1>3, <1>6 DEF WritePages
  <2>2. l.plan \in Seq(Image) /\ Len(l.plan) <= MaxPages /\ (~scale.repeats => IsInjective(l.plan))
      BY <1>3 DEF Fits, LocRec
  <2>. QED
      BY <1>1, <1>2, <2>1, <2>2 DEF TablesFit, PagesAreDistinct, DeletedIsEmpty, Ids
<1>7. CASE UpdateRange(e)
  <2>. DEFINE first == IF IsPageOp(l.op) THEN PosOf(l.order, Head(l.mem)) ELSE l.op.i
              end == IF IsPageOp(l.op) THEN PosOf(l.order, Last(l.mem)) ELSE l.op.j
  <2>1. Fits(scale, "range", l) /\ UNCHANGED <<row, pages, members, lastId>>
      BY <1>3, <1>7 DEF UpdateRange
  <2>2. PICK c : chapters' = Ranged(chapters, c, first, end)
      BY <1>3, <1>7 DEF UpdateRange, Ranged
  <2>3. first \in Positions /\ end \in Positions
    <3>1. CASE IsPageOp(l.op)
      <4>1. l.mem # <<>> /\ ToSet(l.mem) \subseteq ToSet(l.order) /\ Len(l.order) <= MaxPages
            /\ l.mem \in Seq(Image) /\ l.order \in Seq(Image)
          BY <2>1, <3>1, PageKinds DEF Fits, LocRec
      <4>2. Head(l.mem) \in ToSet(l.mem) /\ Last(l.mem) \in ToSet(l.mem)
          BY <4>1 DEF ToSet, Last
      <4>3. PosOf(l.order, Head(l.mem)) \in DOMAIN l.order /\ PosOf(l.order, Last(l.mem)) \in DOMAIN l.order
          BY <4>1, <4>2, PlaceOf
      <4>4. DOMAIN l.order \subseteq Positions
          BY <1>4, <4>1 DEF Positions
      <4>. QED
          BY <3>1, <4>3, <4>4
    <3>2. CASE ~IsPageOp(l.op)
      <4>1. l.op.kind = "updateChapter"
          BY <2>1, <3>2, PageKinds DEF Fits, KindFits
      <4>. QED
          BY <2>1, <3>2, <4>1 DEF Fits, WellMade
    <3>. QED
        BY <3>1, <3>2
  <2>. HIDE DEF first, end
  <2>4. /\ chapters' \in Seq(ChRec) /\ DOMAIN chapters' = DOMAIN chapters
        /\ \A k \in DOMAIN chapters : chapters'[k].id = chapters[k].id
    <3>1. chapters \in Seq(ChRec)
        BY <1>2
    <3>2. /\ Ranged(chapters, c, first, end) \in Seq(ChRec)
          /\ DOMAIN Ranged(chapters, c, first, end) = DOMAIN chapters
          /\ \A k \in DOMAIN chapters :
                Ranged(chapters, c, first, end)[k].id = chapters[k].id
        BY <2>3, <3>1, RangedChapters
    <3>. QED
        BY <2>2, <3>1, <3>2
  <2>5. chapters = <<>> => chapters' = <<>>
      BY <2>4
  <2>6. Ids' = Ids
      BY <2>4 DEF Ids
  <2>. QED
      BY <1>1, <1>2, <2>1, <2>4, <2>5, <2>6 DEF TablesFit, PagesAreDistinct, DeletedIsEmpty, DistinctIds
<1>8. CASE WriteMembers(e)
  <2>1. PICK c : /\ MembersFit(c, l.mem) /\ members' = [members EXCEPT ![c] = l.mem]
                 /\ UNCHANGED <<row, pages, chapters, lastId>>
      BY <1>3, <1>8 DEF WriteMembers
  <2>2. l.mem \in Seq(Image) /\ (l.mem = <<>> \/ c \in Ids)
      BY <2>1 DEF LocRec, MembersFit
  <2>. QED
      BY <1>1, <1>2, <2>1, <2>2 DEF TablesFit, PagesAreDistinct, DeletedIsEmpty, Ids
<1>9. CASE DropChapter(e)
  <2>1. PICK c : /\ chapters' = Dropped(chapters, c)
                 /\ members' = [members EXCEPT ![c] = <<>>]
                 /\ UNCHANGED <<row, pages, lastId>>
      BY <1>9 DEF DropChapter, Dropped
  <2>2. /\ chapters' \in Seq(ChRec) /\ DistinctIds(chapters')
        /\ ToSet(chapters') = {x \in ToSet(chapters) : x.id # c}
        /\ chapters = <<>> => chapters' = <<>>
      BY <1>2, <2>1, DroppedChapters
  <2>3. \A k \in DOMAIN chapters' : chapters'[k].id <= lastId
    <3>1. \A x \in ToSet(chapters) : x.id <= lastId
        BY <1>2 DEF ToSet
    <3>. QED
        BY <2>2, <3>1 DEF ToSet
  <2>4. ASSUME NEW d \in ChapterId, d \notin Ids' PROVE members'[d] = <<>>
    <3>1. d \in Ids => d = c
        BY <2>2, <2>4 DEF Ids, ToSet
    <3>. QED
        BY <1>2, <2>1, <3>1 DEF DeletedIsEmpty
  <2>5. members' \in [ChapterId -> Seq(Image)]
    <3>1. <<>> \in Seq(Image)
        OBVIOUS
    <3>. QED
        BY <1>2, <2>1, <3>1
  <2>. QED
      BY <1>1, <1>2, <2>1, <2>2, <2>3, <2>4, <2>5 DEF TablesFit, PagesAreDistinct, DeletedIsEmpty
<1>10. CASE InsertChapter(e)
  <2>1. PICK x : /\ x = [id |-> lastId + 1, first |-> MadeRange(l)[1], last |-> MadeRange(l)[2]]
                 /\ chapters' = Append(chapters, x) /\ lastId' = lastId + 1
                 /\ row.alive /\ UNCHANGED <<row, pages, members>>
      BY <1>3, <1>10 DEF InsertChapter, MadeRange
  <2>2. lastId + 1 \in ChapterId /\ lastId + 1 \in 1..scale.chapters /\ x \in ChRec
      BY <1>3, <1>10, <2>1, InsertChapterFits, <1>1 DEF ChRec
  <2>3. /\ chapters' \in Seq(ChRec)
        /\ \A k \in DOMAIN chapters' :
              (k \in DOMAIN chapters /\ chapters'[k] = chapters[k]) \/ (k = Len(chapters) + 1 /\ chapters'[k] = x)
        /\ \A k \in DOMAIN chapters : k \in DOMAIN chapters' /\ chapters'[k] = chapters[k]
      BY <1>2, <2>1, <2>2, AddedChapter
  <2>4. ASSUME NEW k \in DOMAIN chapters PROVE chapters[k].id \in Nat /\ chapters[k].id <= lastId
    <3>1. chapters[k] \in ChRec
        BY <1>2, ElementOfSeq
    <3>. QED
        BY <1>2, <3>1 DEF ChRec, ChapterId
  <2>5. x.id = lastId + 1 /\ lastId \in Nat
      BY <1>2, <1>4, <2>1
  <2>6. \A k \in DOMAIN chapters : chapters[k].id # x.id
      BY <2>4, <2>5
  <2>7. DistinctIds(chapters')
      BY <1>2, <2>3, <2>6 DEF DistinctIds
  <2>8. \A k \in DOMAIN chapters' : chapters'[k].id <= lastId'
      BY <2>1, <2>3, <2>4, <2>5
  <2>9. \A d \in ChapterId \ Ids' : d \notin Ids
      BY <2>3 DEF Ids
  <2>10. lastId' \in 0..scale'.chapters
      BY <1>1, <1>4, <2>1, <2>2
  <2>. QED
      BY <1>1, <1>2, <2>1, <2>3, <2>7, <2>8, <2>9, <2>10 DEF TablesFit, PagesAreDistinct, DeletedIsEmpty
<1>11. CASE DropWork(e)
  <2>1. /\ row' = [alive |-> FALSE, count |-> 0] /\ pages' = <<>> /\ chapters' = <<>>
        /\ members' = [c \in ChapterId |-> <<>>] /\ lastId' = lastId
      BY <1>11 DEF DropWork
  <2>2. /\ row' \in [alive : BOOLEAN, count : 0..MaxPages]
        /\ pages' \in Seq(Image) /\ Len(pages') <= MaxPages /\ IsInjective(pages')
        /\ chapters' \in Seq(ChRec) /\ DistinctIds(chapters') /\ DOMAIN chapters' = {}
        /\ members' \in [ChapterId -> Seq(Image)]
      BY <1>4, <2>1 DEF IsInjective, DistinctIds
  <2>3. DeletedIsEmpty'
      BY <2>1 DEF DeletedIsEmpty
  <2>. QED
      BY <1>1, <1>2, <2>1, <2>2, <2>3 DEF TablesFit, PagesAreDistinct
<1>12. CASE UNCHANGED dbVars
    BY <1>1, <1>2, <1>12, TablesStay
<1>. QED
    BY <1>5, <1>6, <1>7, <1>8, <1>9, <1>10, <1>11, <1>12, QuietSteps

LEMMA BeginTyped ==
    ASSUME Shape, NEW e \in Editor, NEW part \in {"page", "chapter", "work"},
           NEW o \in Requests[scale][part], Begin(e, o)
    PROVE  Shape' /\ scale' = scale /\ UNCHANGED dbVars
<1>1. TablesFit /\ scale \in Scales /\ scale' = scale /\ UNCHANGED dbVars
    BY DEF Begin, Shape, TablesFit, dbVars
<1>2. WellMade(scale, o) /\ o.kind # "none"
    BY <1>1, RequestsAreWellMade
<1>3. EditorsFit'
    BY <1>1, <1>2, BeginFits DEF Begin
<1>4. ops' \in 0..scale.ops
    BY <1>1, ScaleFacts DEF TablesFit, Begin
<1>. QED
    BY <1>1, <1>3, <1>4, TablesStay DEF Shape

LEMMA NothingMoves ==
    ASSUME Shape, UNCHANGED vars
    PROVE  Shape'
<1>1. TablesFit'
    BY TablesStay DEF Shape, vars, TablesFit
<1>2. EditorsFit'
    BY DEF Shape, vars, EditorsFit
<1>. QED
    BY <1>1, <1>2 DEF Shape

LEMMA ShapeStep ==
    ASSUME Shape, [Next]_vars
    PROVE  Shape'
<1>1. ASSUME NEW part \in {"page", "chapter", "work"}, BeginOps(part) PROVE Shape'
    BY <1>1, BeginTyped DEF BeginOps
<1>2. ASSUME NEW e \in Editor, Step(e) PROVE Shape'
    BY <1>2, EditorsStep, TablesStep DEF Shape
<1>3. CASE UNCHANGED vars
    BY <1>3, NothingMoves
<1>. QED
    BY <1>1, <1>2, <1>3 DEF Next, Done

LEMMA ShapeAtFirst ==
    ASSUME Init
    PROVE  Shape
<1>1. scale \in Scales /\ MaxPages \in Nat /\ scale.chapters \in 0..MaxChapter /\ scale.ops \in Nat
    BY ScaleFacts DEF Init
<1>2. TablesFit
  <2>1. /\ row \in [alive : BOOLEAN, count : 0..MaxPages] /\ row.alive = FALSE
        /\ pages \in Seq(Image) /\ Len(pages) <= MaxPages /\ IsInjective(pages) /\ pages = <<>>
        /\ chapters \in Seq(ChRec) /\ DistinctIds(chapters) /\ DOMAIN chapters = {} /\ chapters = <<>>
        /\ members \in [ChapterId -> Seq(Image)] /\ \A c \in ChapterId : members[c] = <<>>
        /\ lastId \in 0..scale.chapters /\ ops \in 0..scale.ops
      BY <1>1 DEF Init, IsInjective, DistinctIds
  <2>. QED
      BY <1>1, <2>1 DEF TablesFit, PagesAreDistinct, DeletedIsEmpty
<1>3. EditorsFit
  <2>1. at = [e \in Editor |-> "idle"] /\ loc = [e \in Editor |-> NoLoc] /\ "idle" \in StepName
      BY DEF Init, StepName
  <2>. QED
      BY <1>1, <2>1, NothingFits DEF EditorsFit
<1>. QED
    BY <1>2, <1>3 DEF Shape

\* The tables and every editor keep their shape, whatever the editors do: what
\* the theorems below rest on.
THEOREM ShapeHolds == Spec => []Shape
<1>. QED
    BY ShapeAtFirst, ShapeStep, PTL DEF Spec

\* A comic with any number of editors, each with an operation under way: the
\* rows, the page lists and the chapter ranges stay what the tables may hold.
\* A chapter range names pages that there can be, whatever was deleted or
\* moved between the read of the page list and the write of the range.
THEOREM TablesAreTyped == Spec => []TypeOK
<1>1. Shape => TypeOK
  <2>. SUFFICES ASSUME Shape PROVE TypeOK
      OBVIOUS
  <2>1. /\ row \in [alive : BOOLEAN, count : 0..MaxPages]
        /\ pages \in Seq(Image) /\ Len(pages) <= MaxPages
        /\ chapters \in Seq(ChRec) /\ members \in [ChapterId -> Seq(Image)]
        /\ lastId \in 0..scale.chapters /\ ops \in 0..scale.ops
        /\ scale.chapters \in 0..MaxChapter /\ MaxChapter \in Nat
        /\ \A k \in DOMAIN chapters : chapters[k].id <= lastId
      BY ScaleFacts DEF Shape, TablesFit
  <2>2. ToSet(pages) \subseteq Image /\ \A c \in ChapterId : ToSet(members[c]) \subseteq Image
      BY <2>1 DEF ToSet
  <2>3. ASSUME NEW k \in DOMAIN chapters
        PROVE  chapters[k] \in [id : 1..lastId, first : Positions, last : Positions]
    <3>1. chapters[k] \in ChRec
        BY <2>1, ElementOfSeq
    <3>. QED
        BY <2>1, <3>1 DEF ChRec, ChapterId
  <2>. QED
      BY <2>1, <2>2, <2>3 DEF TypeOK
<1>. QED
    BY <1>1, ShapeHolds, PTL

\* Uploads that add no image twice never make a page list with one twice, for
\* any number of editors: every list written is computed from one read list.
THEOREM NoPageTwice == Spec => []PagesAreDistinct
<1>1. Shape => PagesAreDistinct
    BY DEF Shape, TablesFit
<1>. QED
    BY <1>1, ShapeHolds, PTL

\* A deleted work leaves no page, chapter or member behind, though any number
\* of editors were in the middle of an operation on it.
THEOREM NothingIsLeftBehind == Spec => []DeletedIsEmpty
<1>1. Shape => DeletedIsEmpty
    BY DEF Shape, TablesFit
<1>. QED
    BY <1>1, ShapeHolds, PTL

-----------------------------------------------------------------------------
(* An operation that runs alone.                                           *)

\* A chapter that has its members in page order and its range around them.
Sound(x) ==
    LET m == members[x.id]
    IN  /\ m # <<>>
        /\ m = Filter(pages, ToSet(m))
        /\ x.first = PosOf(pages, Head(m))
        /\ x.last  = PosOf(pages, Last(m))

TodoIds(l) == {x.id : x \in ToSet(l.todo)}

\* The tables agree with each other; whether the version history is behind is
\* for the snapshot to see.
Agree == CountMatches /\ ChaptersFollowPages

\* The work agreed with itself when the operation began, no image twice.
Clean == solo.clean /\ IsInjective(solo.pages)

\* The page list is written, and an operation that wrote the row first wrote
\* the number of its pages.
Written(l) ==
    /\ pages = l.plan
    /\ l.op.kind \in {"add", "import"} => row.count = Len(pages)

\* The loop over the chapters: those behind it are sound.
Reconciles(l) ==
    /\ Written(l)
    /\ l.order = pages
    /\ \A x \in ToSet(chapters) : x.id \notin TodoIds(l) => Sound(x)

\* The one chapter of an import is there, with the range of its directory.
FolderMade(l) ==
    /\ Written(l)
    /\ chapters = <<[id |-> l.op.ch, first |-> l.op.i, last |-> l.op.j]>>
    /\ l.op.i = FolderRange(l)[1] /\ l.op.j = FolderRange(l)[2]

InPages(o) == o.i <= o.j /\ o.j <= Len(pages)

\* The chapter of the chapter editor has the range asked for, the others are
\* sound.
RangeMade(l) ==
    /\ InPages(l.op)
    /\ Clean =>
          /\ CountMatches /\ IsInjective(pages)
          /\ \A x \in ToSet(chapters) :
                IF x.id = l.op.ch THEN x.first = l.op.i /\ x.last = l.op.j ELSE Sound(x)

\* What an operation that runs alone has made of the work when it comes to a
\* step.
KnowsPage(step, l) ==
    /\ step = "upsert" /\ l.op.kind # "add" => Written(l) /\ ChaptersFollowPages
    /\ step \in {"remap", "remapRead", "remapWrite", "order"} => Written(l)
    /\ step = "list" => Written(l) /\ l.order = pages
    /\ step \in {"chapter", "range", "members", "dropChapter"} => Reconciles(l)
    /\ step \in {"range", "members"} => l.mem = Filter(pages, ToSet(l.mem))
    /\ step = "members" =>
           \A x \in ToSet(chapters) :
               x.id = Head(l.todo).id => /\ x.first = PosOf(pages, Head(l.mem))
                                         /\ x.last = PosOf(pages, Last(l.mem))

KnowsImport(step, l) ==
    /\ step = "clear" => Written(l)
    /\ step = "dropChapter" => Written(l) /\ \A x \in ToSet(chapters) : x.id \in TodoIds(l)
    /\ step = "insertChapter" => Written(l) /\ chapters = <<>>
    /\ step \in {"order", "members", "exact"} => FolderMade(l)
    /\ step = "exact" => l.mem = FolderImages(l)

KnowsChapter(step, l) ==
    /\ step \in {"range", "dropChapter"} => (Clean => Consistent /\ IsInjective(pages))
    /\ step = "insertChapter" => (Clean => Agree /\ IsInjective(pages))
    /\ step \in {"range", "insertChapter"} => InPages(l.op)
    /\ step \in {"order", "members"} => RangeMade(l)
    /\ step = "members" => l.mem = SubSeq(pages, l.op.i, l.op.j)

Knows(step, l) ==
    /\ step = "read" => pages = solo.pages /\ members = solo.members /\ (solo.clean => Consistent)
    /\ step = "write" /\ l.op.kind \in {"add", "import"} => row.count = Len(l.plan)
    /\ step = "dropFiles" => ~row.alive /\ chapters = <<>>
    /\ step = "snapshot" => (Repairs(solo) => Agree)
    /\ l.op.kind \in PageKind => KnowsPage(step, l)
    /\ l.op.kind = "import" => KnowsImport(step, l)
    /\ l.op.kind \in {"addChapter", "updateChapter", "deleteChapter"} => KnowsChapter(step, l)

SoloRec == [op : OpRec, pages : Seq(Image), members : [ChapterId -> Seq(Image)], clean : BOOLEAN]

\* The operation under way is the one of the history.
Same(step, l) ==
    step \notin {"idle", "snapshot"} =>
        /\ l.op.kind = solo.op.kind
        /\ l.op.kind \in PageKind => l.op = solo.op

Alone == \A e, f \in Editor : at[e] # "idle" /\ at[f] # "idle" => e = f

SoloInv ==
    \/ solo = NoSolo
    \/ /\ solo \in SoloRec /\ solo.op.kind # "none"
       /\ Alone
       /\ \A e \in Editor : Same(at[e], loc[e]) /\ Knows(at[e], loc[e])
       /\ SelfRepair

-----------------------------------------------------------------------------

\* The chapters follow the pages when each of them does.
LEMMA AllSound == ChaptersFollowPages <=> \A x \in ToSet(chapters) : Sound(x)
<1>1. ASSUME NEW k \in DOMAIN chapters
      PROVE  Sound(chapters[k]) <=>
                 LET c == chapters[k]
                     m == members[c.id]
                 IN  /\ m # <<>>
                     /\ m = Filter(pages, ToSet(m))
                     /\ c.first = PosOf(pages, Head(m))
                     /\ c.last  = PosOf(pages, Last(m))
    BY DEF Sound
<1>2. ChaptersFollowPages <=> \A k \in DOMAIN chapters : Sound(chapters[k])
    BY <1>1, Zenon DEF ChaptersFollowPages
<1>. QED
    BY <1>2 DEF ToSet

\* An editor that has stopped knows nothing.
LEMMA IdleKnows ==
    ASSUME NEW CONSTANT step, step = "idle" \/ step = "snapshot"
    PROVE  /\ Same(step, NoLoc)' /\ (step = "idle" => Knows(step, NoLoc)')
           /\ (Repairs(solo) => Agree)' => Knows(step, NoLoc)'
<1>1. NoLoc.op.kind = "none"
    BY DEF NoLoc, NoOp, Op
<1>. QED
    BY <1>1 DEF Same, Knows, PageKind

\* An operation that runs alone goes on to a step.
LEMMA AloneStep ==
    ASSUME Shape, SoloInv, solo # NoSolo, solo' = solo, NEW e \in Editor, at[e] # "idle",
           NEW CONSTANT step, NEW CONSTANT k, To(e, step, k),
           step = "idle" => k = NoLoc /\ SelfRepair',
           step = "snapshot" => (Repairs(solo) => Agree)',
           step \notin {"idle", "snapshot"} => Same(step, k)' /\ Knows(step, k)'
    PROVE  SoloInv'
<1>1. /\ solo \in SoloRec /\ solo.op.kind # "none" /\ Alone
      /\ at \in [Editor -> StepName] /\ loc \in [Editor -> LocRec]
      /\ \A f \in Editor : Fits(scale, at[f], loc[f])
    BY DEF SoloInv, Shape, EditorsFit
<1>2. /\ at' = [at EXCEPT ![e] = step]
      /\ loc' = [loc EXCEPT ![e] = IF step = "snapshot" THEN NoLoc ELSE k]
    BY DEF To
<1>3. \A f \in Editor \ {e} : at[f] = "idle" /\ loc[f] = NoLoc
    BY <1>1 DEF Alone, Fits
<1>4. \A f \in Editor \ {e} : at'[f] = "idle" /\ loc'[f] = NoLoc
    BY <1>1, <1>2, <1>3
<1>5. at'[e] = step /\ loc'[e] = IF step = "snapshot" THEN NoLoc ELSE k
    BY <1>1, <1>2
<1>6. Alone'
    BY <1>4 DEF Alone
<1>7. ASSUME NEW f \in Editor PROVE Same(at[f], loc[f])' /\ Knows(at[f], loc[f])'
  <2>1. CASE f # e
    <3>1. Same("idle", NoLoc)' /\ Knows("idle", NoLoc)'
        BY IdleKnows
    <3>. QED
        BY <1>4, <2>1, <3>1
  <2>2. CASE f = e /\ step \in {"idle", "snapshot"}
    <3>1. at'[f] = step /\ loc'[f] = NoLoc
        BY <1>5, <2>2
    <3>2. Same(step, NoLoc)' /\ Knows(step, NoLoc)'
        BY <2>2, IdleKnows
    <3>. QED
        BY <3>1, <3>2
  <2>3. CASE f = e /\ step \notin {"idle", "snapshot"}
      BY <1>5, <2>3
  <2>. QED
      BY <2>1, <2>2, <2>3
<1>8. SelfRepair'
  <2>1. CASE step = "idle"
      BY <2>1
  <2>2. CASE step # "idle"
    <3>1. ~AllIdle'
        BY <1>5, <2>2 DEF AllIdle
    <3>. QED
        BY <3>1 DEF SelfRepair
  <2>. QED
      BY <2>1, <2>2
<1>. QED
    BY <1>1, <1>6, <1>7, <1>8 DEF SoloInv

\* What such an operation is about.
LEMMA AloneHas ==
    ASSUME Shape, SoloInv, solo # NoSolo, NEW e \in Editor
    PROVE  /\ \E l \in LocRec : /\ l = loc[e] /\ Fits(scale, at[e], l)
                                /\ Same(at[e], l) /\ Knows(at[e], l)
           /\ solo \in SoloRec /\ solo.op.kind # "none"
           /\ scale \in Scales /\ EditorsFit /\ TablesFit
<1>. QED
    BY DEF Shape, EditorsFit, TablesFit, SoloInv

\* Steps that read change nothing that is known.
LEMMA KnowsStays ==
    ASSUME NEW CONSTANT step, NEW CONSTANT k, Reads,
           Same(step, k), Knows(step, k)
    PROVE  Same(step, k)' /\ Knows(step, k)'
<1>1. UNCHANGED <<scale, row, pages, chapters, members, lastId, version, solo>>
    BY DEF Reads, Quiet, dbVars
<1>2. Same(step, k)'
    BY <1>1 DEF Same
<1>3. Written(k)' = Written(k) /\ (\A x : Sound(x)' = Sound(x)) /\ Clean' = Clean /\ Agree' = Agree
      /\ Consistent' = Consistent /\ ChaptersFollowPages' = ChaptersFollowPages
      /\ CountMatches' = CountMatches
    BY <1>1 DEF Written, Sound, Clean, Agree, Consistent, ChaptersFollowPages, CountMatches, VersionIsCurrent
<1>4. Reconciles(k)' = Reconciles(k) /\ FolderMade(k)' = FolderMade(k) /\ RangeMade(k)' = RangeMade(k)
      /\ InPages(k.op)' = InPages(k.op)
    BY <1>1, <1>3 DEF Reconciles, FolderMade, RangeMade, InPages
<1>5. KnowsPage(step, k)' = KnowsPage(step, k)
    BY <1>1, <1>3, <1>4 DEF KnowsPage
<1>6. KnowsImport(step, k)' = KnowsImport(step, k)
    BY <1>1, <1>3, <1>4 DEF KnowsImport
<1>7. KnowsChapter(step, k)' = KnowsChapter(step, k)
    BY <1>1, <1>3, <1>4 DEF KnowsChapter
<1>8. Repairs(solo)' = Repairs(solo)
    BY <1>1 DEF Repairs
<1>. QED
    BY <1>1, <1>2, <1>3, <1>4, <1>5, <1>6, <1>7, <1>8 DEF Knows

LEMMA BeginKnows ==
    ASSUME Shape, SoloInv, NEW e \in Editor, NEW part \in {"page", "chapter", "work"},
           NEW CONSTANT o, o \in Requests[scale][part], Begin(e, o)
    PROVE  SoloInv'
<1>1. scale \in Scales /\ EditorsFit /\ TablesFit
    BY DEF Shape, TablesFit
<1>2. o \in OpRec /\ o.kind # "none"
    BY <1>1, RequestsAreWellMade DEF WellMade
<1>3. PICK k : k = [NoLoc EXCEPT !.op = o] /\ To(e, "read", k)
    BY DEF Begin
<1>4. k.op = o
    BY <1>3 DEF NoLoc
<1>5. UNCHANGED <<row, pages, chapters, members, lastId, version>>
    BY DEF Begin, dbVars
<1>6. CASE ~AllIdle
    BY <1>6 DEF Begin, SoloInv
<1>7. CASE AllIdle
  <2>1. solo' = [op |-> o, pages |-> pages, members |-> members, clean |-> Consistent]
      BY <1>7 DEF Begin
  <2>2. Consistent \in BOOLEAN
      BY DEF Consistent, CountMatches, ChaptersFollowPages, VersionIsCurrent
  <2>3. /\ solo' \in SoloRec /\ solo'.op = o /\ solo'.pages = pages /\ solo'.members = members
        /\ solo'.clean = Consistent
      BY <1>1, <1>2, <2>1, <2>2 DEF SoloRec, TablesFit
  <2>4. Consistent' = Consistent
      BY <1>5 DEF Consistent, CountMatches, ChaptersFollowPages, VersionIsCurrent
  <2>5. Same("read", k)'
      BY <1>4, <2>3 DEF Same
  <2>6. KnowsPage("read", k)' /\ KnowsImport("read", k)' /\ KnowsChapter("read", k)'
      BY DEF KnowsPage, KnowsImport, KnowsChapter
  <2>7. Knows("read", k)'
      BY <1>5, <2>3, <2>4, <2>6 DEF Knows
  <2>8. /\ at \in [Editor -> StepName] /\ loc \in [Editor -> LocRec]
        /\ \A f \in Editor : at[f] = "idle" /\ loc[f] = NoLoc
      BY <1>1, <1>7 DEF AllIdle, EditorsFit, Fits
  <2>9. /\ at' = [at EXCEPT ![e] = "read"] /\ loc' = [loc EXCEPT ![e] = k]
      BY <1>3 DEF To
  <2>10. /\ \A f \in Editor \ {e} : at'[f] = "idle" /\ loc'[f] = NoLoc
         /\ at'[e] = "read" /\ loc'[e] = k
      BY <2>8, <2>9
  <2>11. Alone' /\ SelfRepair'
      BY <2>10 DEF Alone, SelfRepair, AllIdle
  <2>12. ASSUME NEW f \in Editor PROVE Same(at[f], loc[f])' /\ Knows(at[f], loc[f])'
    <3>1. Same("idle", NoLoc)' /\ Knows("idle", NoLoc)'
        BY IdleKnows
    <3>. QED
        BY <2>5, <2>7, <2>10, <3>1
  <2>. QED
      BY <1>2, <2>3, <2>11, <2>12 DEF SoloInv
<1>. QED
    BY <1>6, <1>7

LEMMA ReadKnows ==
    ASSUME Shape, SoloInv, solo # NoSolo, NEW e \in Editor, ReadPages(e)
    PROVE  SoloInv'
<1>1. PICK l \in LocRec : l = loc[e] /\ Fits(scale, "read", l) /\ Same("read", l) /\ Knows("read", l)
    BY AloneHas DEF ReadPages
<1>2. scale \in Scales /\ EditorsFit /\ TablesFit /\ solo \in SoloRec
    BY AloneHas
<1>3. PICK step, k : /\ step = After(l.op, "read")
                     /\ k = ReadLoc(l, pages)
                     /\ To(e, step, k)
    BY <1>1 DEF ReadPages, ReadLoc
<1>4. k.op = l.op
    BY <1>3 DEF ReadLoc, LocRec
<1>5. /\ at[e] # "idle" /\ Accepts(l.op, pages) /\ Reads /\ solo' = solo
    BY <1>1 DEF ReadPages, Reads, Quiet
<1>6. l.op \in OpRec /\ l.op.kind \in Kind /\ l.op.kind # "none"
    BY <1>1 DEF LocRec, OpRec, Fits, KindFits
<1>7. /\ step = IF l.op.kind \in {"import", "add"} THEN "upsert"
                ELSE IF l.op.kind = "addChapter" THEN "insertChapter"
                ELSE IF l.op.kind = "updateChapter" THEN "range"
                ELSE IF l.op.kind = "deleteChapter" THEN "dropChapter"
                ELSE IF l.op.kind = "deleteWork" THEN "dropWork"
                ELSE "write"
    BY <1>3, <1>6 DEF After, FirstWrite, Kind
<1>8. Same(step, k)
    BY <1>1, <1>4 DEF Same
<1>9. l.op.kind \in {"addChapter", "updateChapter"} => InPages(l.op)
    BY <1>5 DEF Accepts, InPages
<1>10. Clean => Consistent /\ IsInjective(pages) /\ Agree
    BY <1>1 DEF Knows, Clean, Consistent, Agree
<1>11. l.op.kind \in PageKind => KnowsPage(step, k)
    BY <1>4, <1>7 DEF KnowsPage, PageKind
<1>12. l.op.kind = "import" => KnowsImport(step, k)
    BY <1>7 DEF KnowsImport
<1>13. l.op.kind \in {"addChapter", "updateChapter", "deleteChapter"} => KnowsChapter(step, k)
    BY <1>4, <1>7, <1>9, <1>10 DEF KnowsChapter
<1>14. Knows(step, k)
    BY <1>4, <1>7, <1>11, <1>12, <1>13 DEF Knows
<1>15. step # "idle" /\ step # "snapshot"
    BY <1>7
<1>. QED
    BY <1>3, <1>5, <1>8, <1>14, <1>15, KnowsStays, AloneStep

\* The row is written, of the page list in hand or of the one written.
LEMMA UpsertKnows ==
    ASSUME Shape, SoloInv, solo # NoSolo, NEW e \in Editor, Upsert(e)
    PROVE  SoloInv'
<1>1. PICK l \in LocRec : l = loc[e] /\ Fits(scale, "upsert", l) /\ Same("upsert", l) /\ Knows("upsert", l)
    BY AloneHas DEF Upsert
<1>2. /\ row' = [alive |-> TRUE, count |-> Len(l.plan)]
      /\ UNCHANGED <<pages, chapters, members, lastId, solo>> /\ at[e] # "idle"
    BY <1>1 DEF Upsert, Quiet
<1>3. PICK step : step = After(l.op, "upsert") /\ To(e, step, l)
    BY <1>1 DEF Upsert
<1>4. l.op.kind \in PageKind \cup {"import"}
    BY <1>1 DEF Fits, KindFits
<1>5. CASE l.op.kind \in {"import", "add"}
  <2>1. step = "write"
      BY <1>3, <1>5 DEF After
  <2>2. Same(step, l)'
      BY <1>1, <1>2, <2>1 DEF Same
  <2>3. KnowsPage(step, l)' /\ KnowsImport(step, l)' /\ KnowsChapter(step, l)'
      BY <2>1 DEF KnowsPage, KnowsImport, KnowsChapter
  <2>4. Knows(step, l)'
      BY <1>2, <2>1, <2>3 DEF Knows
  <2>. QED
      BY <1>2, <1>3, <2>1, <2>2, <2>4, AloneStep
<1>6. CASE l.op.kind \notin {"import", "add"}
  <2>1. step = "snapshot"
      BY <1>3, <1>6 DEF After
  <2>2. pages = l.plan /\ ChaptersFollowPages
      BY <1>1, <1>4, <1>6 DEF Knows, KnowsPage, Written
  <2>3. ChaptersFollowPages' /\ CountMatches'
      BY <1>2, <2>2 DEF ChaptersFollowPages, CountMatches
  <2>. QED
      BY <1>2, <1>3, <2>1, <2>3, AloneStep DEF Agree
<1>. QED
    BY <1>5, <1>6

LEMMA WriteKnows ==
    ASSUME Shape, SoloInv, solo # NoSolo, NEW e \in Editor, WritePages(e)
    PROVE  SoloInv'
<1>1. PICK l \in LocRec : l = loc[e] /\ Fits(scale, "write", l) /\ Same("write", l) /\ Knows("write", l)
    BY AloneHas DEF WritePages
<1>2. /\ pages' = l.plan
      /\ UNCHANGED <<row, chapters, members, lastId, solo>> /\ at[e] # "idle"
    BY <1>1 DEF WritePages, Quiet
<1>3. PICK step : step = After(l.op, "write") /\ To(e, step, l)
    BY <1>1 DEF WritePages
<1>4. l.op.kind \in PageKind \cup {"import"}
    BY <1>1 DEF Fits, KindFits
<1>5. step = IF l.op.kind = "import" THEN "clear" ELSE IF l.op.kind = "replace" THEN "remap" ELSE "order"
    BY <1>3, <1>4 DEF After, AfterPages
<1>6. Same(step, l)'
    BY <1>1, <1>2 DEF Same
<1>7. Written(l)'
    BY <1>1, <1>2 DEF Written, Knows
<1>8. /\ l.op.kind \in PageKind => KnowsPage(step, l)'
      /\ l.op.kind = "import" => KnowsImport(step, l)'
    BY <1>5, <1>7 DEF KnowsPage, KnowsImport, PageKind
<1>9. Knows(step, l)'
    BY <1>4, <1>5, <1>8 DEF Knows, PageKind
<1>. QED
    BY <1>2, <1>3, <1>5, <1>6, <1>9, AloneStep

LEMMA ListKnows ==
    ASSUME Shape, SoloInv, solo # NoSolo, NEW e \in Editor, NEW loop \in {"remap", "list", "clear"},
           ListChapters(e, loop)
    PROVE  SoloInv'
<1>1. PICK l \in LocRec : l = loc[e] /\ Fits(scale, loop, l) /\ Same(loop, l) /\ Knows(loop, l)
    BY AloneHas DEF ListChapters
<1>2. /\ Reads /\ solo' = solo /\ at[e] # "idle"
      /\ UNCHANGED <<row, pages, chapters, members>>
    BY <1>1 DEF ListChapters, Reads, Quiet, dbVars
<1>3. KindFits(loop, l.op.kind) /\ l.todo = <<>>
    BY <1>1 DEF Fits, InLoop
<1>4. /\ loop = "remap" => l.op.kind = "replace" /\ Written(l)
      /\ loop = "list"  => l.op.kind \in PageKind /\ Written(l) /\ l.order = pages
      /\ loop = "clear" => l.op.kind = "import" /\ Written(l)
    BY <1>1, <1>3 DEF KindFits, Knows, KnowsPage, KnowsImport, PageKind
<1>5. CASE chapters = <<>>
  <2>1. PICK step : step = After(l.op, loop) /\ To(e, step, l)
      BY <1>1, <1>5 DEF ListChapters
  <2>2. /\ loop = "remap" => step = "order"
        /\ loop = "list" => step = IF l.op.kind = "add" THEN "snapshot" ELSE "upsert"
        /\ loop = "clear" => step = IF l.op.sel = {} THEN "snapshot" ELSE "insertChapter"
      BY <2>1 DEF After, AfterList
  <2>3. ChaptersFollowPages
      BY <1>5 DEF ChaptersFollowPages
  <2>4. Same(step, l)
      BY <1>1 DEF Same
  <2>5. CASE step = "snapshot"
    <3>1. row.count = Len(pages)
        BY <1>4, <2>2, <2>5 DEF Written
    <3>2. Agree'
        BY <1>2, <2>3, <3>1 DEF Agree, CountMatches, ChaptersFollowPages
    <3>. QED
        BY <1>2, <2>1, <2>5, <3>2, AloneStep
  <2>6. CASE step # "snapshot"
    <3>1. l.op.kind \in PageKind => KnowsPage(step, l)
        BY <1>4, <2>2, <2>3, <2>6 DEF KnowsPage, PageKind
    <3>2. l.op.kind = "import" => KnowsImport(step, l)
        BY <1>4, <1>5, <2>2, <2>6 DEF KnowsImport, PageKind
    <3>3. Knows(step, l)
        BY <1>4, <2>2, <2>6, <3>1, <3>2 DEF Knows, PageKind
    <3>4. Same(step, l)' /\ Knows(step, l)'
        BY <1>2, <2>4, <3>3, KnowsStays
    <3>5. step # "idle"
        BY <2>2
    <3>. QED
        BY <1>2, <2>1, <2>6, <3>4, <3>5, AloneStep
  <2>. QED
      BY <2>5, <2>6
<1>6. CASE chapters # <<>>
  <2>1. PICK step, k : step = LoopStep[loop] /\ k = [l EXCEPT !.todo = chapters] /\ To(e, step, k)
      BY <1>1, <1>6 DEF ListChapters
  <2>2. k.op = l.op /\ k.plan = l.plan /\ k.order = l.order /\ k.todo = chapters
      BY <2>1 DEF LocRec
  <2>3. /\ loop = "remap" => step = "remapRead"
        /\ loop = "list" => step = "chapter"
        /\ loop = "clear" => step = "dropChapter"
      BY <2>1 DEF LoopStep
  <2>4. Same(step, k)
      BY <1>1, <2>2 DEF Same
  <2>5. Written(l) = Written(k) /\ \A x \in ToSet(chapters) : x.id \in TodoIds(k)
      BY <2>2 DEF Written, TodoIds
  <2>6. loop = "list" => Reconciles(k)
      BY <1>4, <2>2, <2>5 DEF Reconciles
  <2>7. l.op.kind \in PageKind => KnowsPage(step, k)
      BY <1>4, <2>2, <2>3, <2>5, <2>6 DEF KnowsPage, PageKind
  <2>8. l.op.kind = "import" => KnowsImport(step, k)
      BY <1>4, <2>2, <2>3, <2>5 DEF KnowsImport, PageKind
  <2>9. Knows(step, k)
      BY <1>4, <2>2, <2>3, <2>7, <2>8 DEF Knows, PageKind
  <2>10. Same(step, k)' /\ Knows(step, k)'
      BY <1>2, <2>4, <2>9, KnowsStays
  <2>11. step # "idle" /\ step # "snapshot"
      BY <2>3
  <2>. QED
      BY <1>2, <2>1, <2>10, <2>11, AloneStep
<1>. QED
    BY <1>5, <1>6

LEMMA RemapKnows ==
    ASSUME Shape, SoloInv, solo # NoSolo, NEW e \in Editor, RemapRead(e)
    PROVE  SoloInv'
<1>1. PICK l \in LocRec : l = loc[e] /\ Fits(scale, "remapRead", l) /\ Same("remapRead", l) /\ Knows("remapRead", l)
    BY AloneHas DEF RemapRead
<1>2. /\ Reads /\ solo' = solo /\ at[e] = "remapRead"
    BY <1>1 DEF RemapRead, Reads, Quiet
<1>3. l.op.kind = "replace" /\ l.todo # <<>> /\ Written(l)
    BY <1>1 DEF Fits, KindFits, InLoop, Knows, KnowsPage, PageKind
<1>4. PICK step, k : /\ step \in {"remapRead", "order", "remapWrite"} /\ To(e, step, k)
                     /\ k.op = l.op /\ k.plan = l.plan
  <2>1. CASE NextChapter(e)
    <3>1. To(e, RoundStep("remapRead", l), RoundLoc(l))
        BY <1>1, <1>2, <2>1 DEF NextChapter, RoundStep, RoundLoc
    <3>2. RoundStep("remapRead", l) \in {"remapRead", "order"}
        BY <1>3 DEF RoundStep, LoopOf, LoopStep, After
    <3>3. RoundLoc(l).op = l.op /\ RoundLoc(l).plan = l.plan
        BY DEF RoundLoc, LocRec
    <3>. QED
        BY <3>1, <3>2, <3>3
  <2>2. CASE To(e, "remapWrite", [l EXCEPT !.mem = Remapped(l, members[Head(l.todo).id])])
    <3>1. [l EXCEPT !.mem = Remapped(l, members[Head(l.todo).id])].op = l.op
          /\ [l EXCEPT !.mem = Remapped(l, members[Head(l.todo).id])].plan = l.plan
        BY DEF LocRec
    <3>. QED
        BY <2>2, <3>1
  <2>. QED
      BY <1>1, <2>1, <2>2 DEF RemapRead
<1>5. Same(step, k)
    BY <1>1, <1>4 DEF Same
<1>6. Written(k)
    BY <1>3, <1>4 DEF Written
<1>7. KnowsPage(step, k)
    BY <1>4, <1>6 DEF KnowsPage
<1>8. Knows(step, k)
    BY <1>3, <1>4, <1>7 DEF Knows
<1>9. Same(step, k)' /\ Knows(step, k)'
    BY <1>2, <1>5, <1>8, KnowsStays
<1>10. at[e] # "idle" /\ step # "idle" /\ step # "snapshot"
    BY <1>2, <1>4
<1>. QED
    BY <1>2, <1>4, <1>9, <1>10, AloneStep

LEMMA OrderKnows ==
    ASSUME Shape, SoloInv, solo # NoSolo, NEW e \in Editor, ReadOrder(e)
    PROVE  SoloInv'
<1>1. PICK l \in LocRec : l = loc[e] /\ Fits(scale, "order", l) /\ Same("order", l) /\ Knows("order", l)
    BY AloneHas DEF ReadOrder
<1>2. /\ Reads /\ solo' = solo /\ at[e] # "idle"
    BY <1>1 DEF ReadOrder, Reads, Quiet
<1>3. l.op.kind \in PageKind \cup {"import", "addChapter", "updateChapter"}
    BY <1>1 DEF Fits, KindFits
<1>4. CASE l.op.kind \in PageKind
  <2>1. PICK k : k = [l EXCEPT !.order = pages] /\ To(e, "list", k)
      BY <1>1, <1>4, PageKinds DEF ReadOrder
  <2>2. k.op = l.op /\ k.plan = l.plan /\ k.order = pages
      BY <2>1 DEF LocRec
  <2>3. Written(l)
      BY <1>1, <1>4 DEF Knows, KnowsPage
  <2>4. Same("list", k) /\ Written(k)
      BY <1>1, <2>2, <2>3 DEF Same, Written
  <2>5. KnowsPage("list", k)
      BY <2>2, <2>4 DEF KnowsPage
  <2>6. Knows("list", k)
      BY <1>4, <2>2, <2>5 DEF Knows, PageKind
  <2>7. Same("list", k)' /\ Knows("list", k)'
      BY <1>2, <2>4, <2>6, KnowsStays
  <2>. QED
      BY <1>2, <2>1, <2>7, AloneStep
<1>5. CASE l.op.kind \notin PageKind
  <2>1. PICK end, k : /\ end = (IF l.op.j < Len(pages) THEN l.op.j ELSE Len(pages))
                       /\ k = [l EXCEPT !.mem = SubSeq(pages, l.op.i, end)] /\ To(e, "members", k)
      BY <1>1, <1>5, PageKinds DEF ReadOrder
  <2>2. k.op = l.op /\ k.plan = l.plan /\ k.mem = SubSeq(pages, l.op.i, end)
      BY <2>1 DEF LocRec
  <2>3. Same("members", k)
      BY <1>1, <2>2 DEF Same
  <2>4. l.op.kind = "import" => KnowsImport("members", k)
    <3>1. l.op.kind = "import" => FolderMade(l)
        BY <1>1 DEF Knows, KnowsImport
    <3>2. FolderMade(l) => FolderMade(k)
        BY <2>2 DEF FolderMade, FolderRange, Written
    <3>. QED
        BY <3>1, <3>2 DEF KnowsImport
  <2>5. l.op.kind \in {"addChapter", "updateChapter"} => KnowsChapter("members", k)
    <3>. SUFFICES ASSUME l.op.kind \in {"addChapter", "updateChapter"}
                  PROVE  KnowsChapter("members", k)
        OBVIOUS
    <3>1. RangeMade(l)
        BY <1>1 DEF Knows, KnowsChapter
    <3>2. RangeMade(k)
        BY <2>2, <3>1 DEF RangeMade, InPages
    <3>3. end = l.op.j
      <4>1. l.op.j <= Len(pages) /\ Len(pages) \in Nat
          BY <3>1 DEF RangeMade, InPages, Shape, TablesFit
      <4>2. l.op.j \in Nat
        <5>1. l.op.j \in 0..MaxPages
            BY <1>1 DEF LocRec, OpRec
        <5>. QED
            BY <5>1, ScaleFacts
      <4>. QED
          BY <2>1, <4>1, <4>2
    <3>. QED
        BY <2>2, <3>2, <3>3 DEF KnowsChapter
  <2>6. Knows("members", k)
      BY <1>3, <1>5, <2>2, <2>4, <2>5 DEF Knows, PageKind
  <2>7. Same("members", k)' /\ Knows("members", k)'
      BY <1>2, <2>3, <2>6, KnowsStays
  <2>. QED
      BY <1>2, <2>1, <2>7, AloneStep
<1>. QED
    BY <1>4, <1>5

\* The members a chapter keeps are in page order.
LEMMA MembersKnows ==
    ASSUME Shape, SoloInv, solo # NoSolo, NEW e \in Editor, ReadMembers(e)
    PROVE  SoloInv'
<1>1. PICK l \in LocRec : l = loc[e] /\ Fits(scale, "chapter", l) /\ Same("chapter", l) /\ Knows("chapter", l)
    BY AloneHas DEF ReadMembers
<1>2. /\ Reads /\ solo' = solo /\ at[e] # "idle"
    BY <1>1 DEF ReadMembers, Reads, Quiet
<1>3. l.op.kind \in PageKind
    BY <1>1 DEF Fits, KindFits
<1>4. Reconciles(l) /\ l.order = pages
    BY <1>1, <1>3 DEF Knows, KnowsPage, Reconciles
<1>5. PICK step, k : /\ k = [l EXCEPT !.mem = Kept(l, members[Head(l.todo).id])]
                     /\ step = IF k.mem = <<>> THEN "dropChapter" ELSE "range"
                     /\ To(e, step, k)
  <2>1. [l EXCEPT !.mem = Kept(l, members[Head(l.todo).id])].mem = Kept(l, members[Head(l.todo).id])
      BY DEF LocRec
  <2>. QED
      BY <1>1, <2>1 DEF ReadMembers
<1>6. /\ k.op = l.op /\ k.plan = l.plan /\ k.order = l.order /\ k.todo = l.todo
      /\ k.mem = Kept(l, members[Head(l.todo).id])
    BY <1>5 DEF LocRec
<1>7. \E want : k.mem = Filter(pages, want)
    BY <1>4, <1>6 DEF Kept
<1>8. k.mem = Filter(pages, ToSet(k.mem))
    BY <1>7, FilterTwice DEF Shape, TablesFit
<1>9. Reconciles(k)
    BY <1>4, <1>6 DEF Reconciles, Written, TodoIds
<1>10. Same(step, k)
    BY <1>1, <1>6 DEF Same
<1>11. step \in {"dropChapter", "range"}
    BY <1>5
<1>12. KnowsPage(step, k)
    BY <1>8, <1>9, <1>11 DEF KnowsPage
<1>13. Knows(step, k)
    BY <1>3, <1>6, <1>11, <1>12 DEF Knows, PageKind
<1>14. Same(step, k)' /\ Knows(step, k)'
    BY <1>2, <1>10, <1>13, KnowsStays
<1>15. step # "idle" /\ step # "snapshot"
    BY <1>11
<1>. QED
    BY <1>2, <1>5, <1>14, <1>15, AloneStep

\* The range of one chapter is written, the others are left alone.
LEMMA RangeKnows ==
    ASSUME Shape, SoloInv, solo # NoSolo, NEW e \in Editor, UpdateRange(e)
    PROVE  SoloInv'
<1>1. PICK l \in LocRec : l = loc[e] /\ Fits(scale, "range", l) /\ Same("range", l) /\ Knows("range", l)
    BY AloneHas DEF UpdateRange
<1>2. PICK c, first, end : /\ c = Target(l)
                           /\ first = IF IsPageOp(l.op) THEN PosOf(l.order, Head(l.mem)) ELSE l.op.i
                           /\ end = IF IsPageOp(l.op) THEN PosOf(l.order, Last(l.mem)) ELSE l.op.j
                           /\ chapters' = Ranged(chapters, c, first, end)
                           /\ IF IsPageOp(l.op) THEN To(e, "members", l)
                              ELSE IF c \in Ids THEN To(e, "order", l) ELSE Stop(e)
  <2>1. chapters' = Ranged(chapters, Target(l),
                           IF IsPageOp(l.op) THEN PosOf(l.order, Head(l.mem)) ELSE l.op.i,
                           IF IsPageOp(l.op) THEN PosOf(l.order, Last(l.mem)) ELSE l.op.j)
      BY <1>1 DEF UpdateRange, Ranged
  <2>2. IF IsPageOp(l.op) THEN To(e, "members", l)
        ELSE IF Target(l) \in Ids THEN To(e, "order", l) ELSE Stop(e)
      BY <1>1 DEF UpdateRange
  <2>. QED
      BY <2>1, <2>2, Zenon
<1>3. UNCHANGED <<scale, row, pages, members, version, solo>> /\ at[e] # "idle"
    BY <1>1 DEF UpdateRange, Quiet
<1>4. l.op.kind \in PageKind \cup {"updateChapter"}
    BY <1>1 DEF Fits, KindFits
<1>5. /\ \A x \in ToSet(chapters') : x.id # c => x \in ToSet(chapters)
      /\ \A x \in ToSet(chapters') : x.id = c => x.first = first /\ x.last = end
      /\ c \notin Ids => chapters' = chapters
  <2>1. chapters \in Seq(ChRec)
      BY DEF Shape, TablesFit
  <2>2. /\ DOMAIN chapters' = DOMAIN chapters
        /\ \A k \in DOMAIN chapters : chapters'[k] = IF chapters[k].id = c
                  THEN [chapters[k] EXCEPT !.first = first, !.last = end] ELSE chapters[k]
      BY <1>2 DEF Ranged
  <2>3. \A k \in DOMAIN chapters : chapters[k] \in ChRec
      BY <2>1, ElementOfSeq
  <2>4. \A k \in DOMAIN chapters :
            chapters[k].id = c => /\ chapters'[k].id = c /\ chapters'[k].first = first
                                  /\ chapters'[k].last = end
      BY <2>2, <2>3 DEF ChRec
  <2>5. c \notin Ids => chapters' = chapters
    <3>1. c \notin Ids => \A k \in DOMAIN chapters : chapters'[k] = chapters[k]
        BY <2>2 DEF Ids
    <3>2. chapters' = Ranged(chapters, c, first, end) /\ chapters' = [k \in DOMAIN chapters |-> chapters'[k]]
        BY <1>2, <2>2 DEF Ranged
    <3>3. chapters = [k \in DOMAIN chapters |-> chapters[k]]
        BY <2>1
    <3>. QED
        BY <3>1, <3>2, <3>3
  <2>6. ASSUME NEW x \in ToSet(chapters')
        PROVE  (x.id # c => x \in ToSet(chapters)) /\ (x.id = c => x.first = first /\ x.last = end)
    <3>1. PICK k \in DOMAIN chapters : x = chapters'[k]
        BY <2>2 DEF ToSet
    <3>2. chapters[k].id = c => x.first = first /\ x.last = end /\ x.id = c
        BY <2>4, <3>1
    <3>3. chapters[k].id # c => x = chapters[k]
        BY <2>2, <3>1
    <3>. QED
        BY <3>1, <3>2, <3>3 DEF ToSet
  <2>. QED
      BY <2>5, <2>6
<1>6. CASE l.op.kind \in PageKind
  <2>1. IsPageOp(l.op) /\ To(e, "members", l)
      BY <1>2, <1>6, PageKinds
  <2>2. /\ Reconciles(l) /\ l.order = pages /\ l.mem = Filter(pages, ToSet(l.mem))
        /\ l.todo # <<>>
      BY <1>1, <1>6 DEF Knows, KnowsPage, Reconciles, Fits, InLoop
  <2>3. c = Head(l.todo).id /\ c \in TodoIds(l)
    <3>1. c = Head(l.todo).id /\ Head(l.todo) = l.todo[1] /\ 1 \in DOMAIN l.todo
        BY <1>2, <2>2, TailOf DEF Target, LocRec
    <3>. QED
        BY <3>1 DEF TodoIds, ToSet
  <2>4. Same("members", l)'
      BY <1>1, <1>3 DEF Same
  <2>5. Reconciles(l)'
    <3>1. Written(l)' /\ l.order = pages'
        BY <1>3, <2>2 DEF Reconciles, Written
    <3>2. ASSUME NEW x \in ToSet(chapters'), x.id \notin TodoIds(l) PROVE Sound(x)'
      <4>1. x \in ToSet(chapters) /\ Sound(x)
          BY <1>5, <2>2, <2>3, <3>2 DEF Reconciles
      <4>. QED
          BY <1>3, <4>1 DEF Sound
    <3>. QED
        BY <3>1, <3>2 DEF Reconciles
  <2>6. KnowsPage("members", l)'
    <3>1. \A x \in ToSet(chapters') :
              x.id = Head(l.todo).id => /\ x.first = PosOf(pages', Head(l.mem))
                                        /\ x.last = PosOf(pages', Last(l.mem))
        BY <1>2, <1>3, <1>5, <2>1, <2>2, <2>3
    <3>. QED
        BY <1>3, <2>2, <2>5, <3>1 DEF KnowsPage
  <2>7. Knows("members", l)'
      BY <1>6, <2>6 DEF Knows, PageKind
  <2>. QED
      BY <1>3, <2>1, <2>4, <2>7, AloneStep
<1>7. CASE l.op.kind = "updateChapter"
  <2>1. /\ ~IsPageOp(l.op) /\ first = l.op.i /\ end = l.op.j
      BY <1>2, <1>7, PageKinds DEF PageKind
  <2>2. l.todo = <<>> /\ c = l.op.ch
      BY <1>1, <1>2, <1>7 DEF Fits, InLoop, Target, PageKind
  <2>3. (Clean => Consistent /\ IsInjective(pages)) /\ InPages(l.op)
      BY <1>1, <1>7 DEF Knows, KnowsChapter
  <2>4. CASE c \in Ids
    <3>1. To(e, "order", l)
        BY <1>2, <2>1, <2>4
    <3>2. RangeMade(l)'
      <4>1. InPages(l.op)' /\ Clean' = Clean
          BY <1>3, <2>3 DEF InPages, Clean
      <4>2. ASSUME Clean PROVE CountMatches' /\ IsInjective(pages')
          BY <1>3, <2>3, <4>2 DEF CountMatches, Consistent
      <4>3. ASSUME Clean, NEW x \in ToSet(chapters'), x.id # l.op.ch PROVE Sound(x)'
        <5>1. x \in ToSet(chapters) /\ ChaptersFollowPages
            BY <1>5, <2>2, <2>3, <4>3 DEF Consistent
        <5>2. Sound(x)
            BY <5>1, AllSound
        <5>. QED
            BY <1>3, <5>2 DEF Sound
      <4>4. \A x \in ToSet(chapters') : x.id = l.op.ch => x.first = l.op.i /\ x.last = l.op.j
          BY <1>5, <2>1, <2>2
      <4>. QED
          BY <4>1, <4>2, <4>3, <4>4 DEF RangeMade
    <3>3. KnowsChapter("order", l)'
        BY <3>2 DEF KnowsChapter
    <3>4. Same("order", l)' /\ Knows("order", l)'
        BY <1>1, <1>3, <1>7, <3>3 DEF Knows, Same, PageKind
    <3>. QED
        BY <1>3, <3>1, <3>4, AloneStep
  <2>5. CASE c \notin Ids
    <3>1. To(e, "idle", NoLoc)
        BY <1>2, <2>1, <2>5 DEF Stop
    <3>2. chapters' = chapters
        BY <1>5, <2>5
    <3>3. SelfRepair'
      <4>1. Repairs(solo)' => Clean
        <5>1. solo.op.kind = "updateChapter"
            BY <1>1, <1>7 DEF Same
        <5>. QED
            BY <1>3, <5>1 DEF Repairs, Clean, IsPageOp
      <4>2. Consistent => Consistent'
          BY <1>3, <3>2 DEF Consistent, CountMatches, ChaptersFollowPages, VersionIsCurrent
      <4>. QED
          BY <2>3, <4>1, <4>2 DEF SelfRepair
    <3>. QED
        BY <1>3, <3>1, <3>3, AloneStep
  <2>. QED
      BY <2>4, <2>5
<1>. QED
    BY <1>4, <1>6, <1>7

\* The chapters of a list are its head and those that remain.
LEMMA TodoLeft ==
    ASSUME NEW CONSTANT l \in LocRec, l.todo # <<>>
    PROVE  /\ TodoIds(l) = {Head(l.todo).id} \cup TodoIds(RoundLoc(l))
           /\ ~(Len(l.todo) > 1) => TodoIds(RoundLoc(l)) = {}
           /\ RoundLoc(l).op = l.op /\ RoundLoc(l).plan = l.plan /\ RoundLoc(l).order = l.order
           /\ RoundLoc(l).todo = Tail(l.todo)
<1>1. l.todo \in Seq(ChRec)
    BY DEF LocRec
<1>2. /\ RoundLoc(l).op = l.op /\ RoundLoc(l).plan = l.plan /\ RoundLoc(l).order = l.order
      /\ RoundLoc(l).todo = Tail(l.todo)
    BY DEF RoundLoc, LocRec
<1>3. /\ Head(l.todo) = l.todo[1] /\ 1 \in DOMAIN l.todo
      /\ \A k \in DOMAIN Tail(l.todo) : k + 1 \in DOMAIN l.todo /\ Tail(l.todo)[k] = l.todo[k + 1]
      /\ \A k \in DOMAIN l.todo : k # 1 => k - 1 \in DOMAIN Tail(l.todo) /\ l.todo[k] = Tail(l.todo)[k - 1]
      /\ Tail(l.todo) = <<>> <=> ~(Len(l.todo) > 1)
    BY <1>1, TailOf
<1>4. ToSet(l.todo) = {Head(l.todo)} \cup ToSet(Tail(l.todo))
  <2>1. ASSUME NEW x \in ToSet(l.todo) PROVE x = Head(l.todo) \/ x \in ToSet(Tail(l.todo))
    <3>1. PICK i \in DOMAIN l.todo : x = l.todo[i]
        BY <2>1 DEF ToSet
    <3>. QED
        BY <1>3, <3>1 DEF ToSet
  <2>2. ASSUME NEW x \in ToSet(Tail(l.todo)) PROVE x \in ToSet(l.todo)
    <3>1. PICK i \in DOMAIN Tail(l.todo) : x = Tail(l.todo)[i]
        BY <2>2 DEF ToSet
    <3>. QED
        BY <1>3, <3>1 DEF ToSet
  <2>3. Head(l.todo) \in ToSet(l.todo)
      BY <1>3 DEF ToSet
  <2>. QED
      BY <2>1, <2>2, <2>3
<1>5. Tail(l.todo) = <<>> => ToSet(Tail(l.todo)) = {}
    BY DEF ToSet
<1>. QED
    BY <1>2, <1>3, <1>4, <1>5 DEF TodoIds

\* A round of the loop that reconciles the chapters leaves one more behind it
\* that is sound.
LEMMA RoundKnows ==
    ASSUME Shape, SoloInv, solo # NoSolo, solo' = solo, NEW e \in Editor, NEW CONSTANT l \in LocRec,
           at[e] \in {"members", "dropChapter"}, l = loc[e], NextChapter(e),
           Fits(scale, at[e], l), Same(at[e], l), l.op.kind \in PageKind, l.todo # <<>>,
           Written(l)', l.order = pages',
           \A x \in ToSet(chapters') : x.id \notin TodoIds(l) \/ x.id = Head(l.todo).id => Sound(x)'
    PROVE  SoloInv'
<1>1. at[e] # "idle" /\ To(e, RoundStep(at[e], l), RoundLoc(l))
    BY DEF NextChapter, RoundStep, RoundLoc
<1>2. PICK step, k : step = RoundStep(at[e], l) /\ k = RoundLoc(l)
    OBVIOUS
<1>3. To(e, step, k)
    BY <1>1, <1>2
<1>4. /\ TodoIds(l) = {Head(l.todo).id} \cup TodoIds(k)
      /\ ~(Len(l.todo) > 1) => TodoIds(k) = {}
      /\ k.op = l.op /\ k.plan = l.plan /\ k.order = l.order
    BY <1>2, TodoLeft
<1>5. step = IF Len(l.todo) > 1 THEN "chapter" ELSE IF l.op.kind = "add" THEN "snapshot" ELSE "upsert"
    BY <1>2 DEF RoundStep, LoopOf, LoopStep, After, AfterList, PageKind
<1>6. Written(k)' /\ k.order = pages'
    BY <1>4 DEF Written
<1>7. \A x \in ToSet(chapters') : x.id \notin TodoIds(k) => Sound(x)'
    BY <1>4
<1>8. Same(step, k)'
    BY <1>4 DEF Same
<1>9. CASE Len(l.todo) > 1
  <2>1. step = "chapter" /\ Reconciles(k)'
      BY <1>5, <1>6, <1>7, <1>9 DEF Reconciles
  <2>2. KnowsPage(step, k)'
      BY <2>1 DEF KnowsPage
  <2>3. Knows(step, k)'
      BY <1>4, <2>1, <2>2 DEF Knows, PageKind
  <2>. QED
      BY <1>1, <1>3, <1>8, <2>1, <2>3, AloneStep
<1>10. CASE ~(Len(l.todo) > 1)
  <2>1. \A x \in ToSet(chapters') : Sound(x)'
      BY <1>4, <1>7, <1>10
  <2>2. ChaptersFollowPages'
    <3>1. (ChaptersFollowPages <=> \A x \in ToSet(chapters) : Sound(x))'
        BY AllSound, PTL
    <3>. QED
        BY <2>1, <3>1
  <2>3. CASE l.op.kind = "add"
    <3>1. step = "snapshot" /\ CountMatches'
        BY <1>5, <1>10, <2>3 DEF CountMatches, Written
    <3>. QED
        BY <1>1, <1>3, <2>2, <3>1, AloneStep DEF Agree
  <2>4. CASE l.op.kind # "add"
    <3>1. step = "upsert"
        BY <1>5, <1>10, <2>4
    <3>2. KnowsPage(step, k)'
        BY <1>6, <2>2, <3>1 DEF KnowsPage
    <3>3. Knows(step, k)'
        BY <1>4, <3>1, <3>2 DEF Knows, PageKind
    <3>. QED
        BY <1>1, <1>3, <1>8, <3>1, <3>3, AloneStep
  <2>. QED
      BY <2>3, <2>4
<1>. QED
    BY <1>9, <1>10

\* A chapter whose members are written, and the others.
LEMMA MembersWritten ==
    ASSUME Shape, UNCHANGED <<pages, chapters>>, NEW CONSTANT c \in ChapterId,
           NEW CONSTANT m \in Seq(Image), members' = [members EXCEPT ![c] = m],
           NEW x \in ToSet(chapters)
    PROVE  /\ x.id # c /\ Sound(x) => Sound(x)'
           /\ /\ x.id = c /\ m # <<>> /\ m = Filter(pages, ToSet(m))
              /\ x.first = PosOf(pages, Head(m)) /\ x.last = PosOf(pages, Last(m))
              => Sound(x)'
<1>1. x.id \in ChapterId
  <2>1. chapters \in Seq(ChRec)
      BY DEF Shape, TablesFit
  <2>2. PICK i \in DOMAIN chapters : x = chapters[i]
      BY DEF ToSet
  <2>3. x \in ChRec
      BY <2>1, <2>2, ElementOfSeq
  <2>. QED
      BY <2>3 DEF ChRec
<1>2. members \in [ChapterId -> Seq(Image)]
    BY DEF Shape, TablesFit
<1>3. members'[x.id] = IF x.id = c THEN m ELSE members[x.id]
    BY <1>1, <1>2
<1>. QED
    BY <1>3 DEF Sound

LEMMA WriteMembersKnows ==
    ASSUME Shape, SoloInv, solo # NoSolo, NEW e \in Editor, WriteMembers(e)
    PROVE  SoloInv'
<1>. PICK here : here = at[e]
    OBVIOUS
<1>1. PICK l \in LocRec : /\ l = loc[e] /\ here = at[e] /\ Fits(scale, here, l)
                          /\ Same(here, l) /\ Knows(here, l)
    BY AloneHas
<1>2. PICK c : c = Target(l)
    OBVIOUS
<1>3. /\ MembersFit(c, l.mem) /\ members' = [members EXCEPT ![c] = l.mem]
      /\ here \in WritingMembers /\ at[e] # "idle"
      /\ UNCHANGED <<scale, row, pages, chapters, lastId, version, solo>>
      /\ IF l.todo # <<>> THEN NextChapter(e)
         ELSE To(e, After(l.op, here), [l EXCEPT !.mem = FolderImages(l)])
    BY <1>1, <1>2 DEF WriteMembers, Quiet, WritingMembers
<1>4. solo' = solo /\ l.mem \in Seq(Image)
    BY <1>3 DEF LocRec
<1>5. CASE here = "remapWrite"
  <2>1. l.op.kind = "replace" /\ l.todo # <<>> /\ Written(l)
      BY <1>1, <1>5 DEF Fits, KindFits, InLoop, Knows, KnowsPage, PageKind
  <2>2. PICK step, k : step = RoundStep(here, l) /\ k = RoundLoc(l)
      OBVIOUS
  <2>3. To(e, step, k)
      BY <1>1, <1>3, <2>1, <2>2 DEF NextChapter, RoundStep, RoundLoc
  <2>4. step \in {"remapRead", "order"}
      BY <1>5, <2>1, <2>2 DEF RoundStep, LoopOf, LoopStep, After
  <2>5. k.op = l.op /\ k.plan = l.plan
      BY <2>1, <2>2, TodoLeft
  <2>6. Same(step, k)' /\ Written(k)'
      BY <1>1, <1>3, <1>5, <2>1, <2>5 DEF Same, Written
  <2>7. KnowsPage(step, k)'
      BY <2>4, <2>6 DEF KnowsPage
  <2>8. Knows(step, k)'
      BY <2>1, <2>4, <2>5, <2>7 DEF Knows
  <2>. QED
      BY <1>3, <1>4, <2>3, <2>4, <2>6, <2>8, AloneStep
<1>6. CASE here = "members" /\ l.op.kind \in PageKind
  <2>1. /\ Reconciles(l) /\ l.order = pages /\ l.mem = Filter(pages, ToSet(l.mem))
        /\ l.todo # <<>> /\ l.mem # <<>>
        /\ \A x \in ToSet(chapters) :
               x.id = Head(l.todo).id => /\ x.first = PosOf(pages, Head(l.mem))
                                         /\ x.last = PosOf(pages, Last(l.mem))
      BY <1>1, <1>6 DEF Knows, KnowsPage, Reconciles, Fits, InLoop
  <2>2. c = Head(l.todo).id /\ c \in ChapterId
    <3>1. Head(l.todo) \in ChRec
        BY <2>1, TailOf DEF LocRec
    <3>. QED
        BY <1>2, <2>1, <3>1 DEF Target, ChRec
  <2>3. Written(l)' /\ l.order = pages'
      BY <1>3, <2>1 DEF Reconciles, Written
  <2>4. ASSUME NEW x \in ToSet(chapters'), x.id \notin TodoIds(l) \/ x.id = Head(l.todo).id
        PROVE  Sound(x)'
    <3>1. x \in ToSet(chapters) /\ (x.id # c => Sound(x))
        BY <1>3, <2>1, <2>2, <2>4 DEF Reconciles
    <3>. QED
        BY <1>3, <1>4, <2>1, <2>2, <3>1, MembersWritten
  <2>. QED
      BY <1>1, <1>3, <1>4, <1>6, <2>1, <2>3, <2>4, RoundKnows
<1>7. CASE here \in {"members", "exact"} /\ l.op.kind \notin PageKind
  <2>1. /\ l.todo = <<>> /\ c = l.op.ch /\ c \in ChapterId
        /\ l.op.i \in Positions /\ l.op.j \in Positions
      BY <1>1, <1>2, <1>7 DEF Fits, InLoop, Target
  <2>2. l.op.kind \in {"import", "addChapter", "updateChapter"} /\ (here = "exact" => l.op.kind = "import")
      BY <1>1, <1>7 DEF Fits, KindFits
  <2>3. PICK step, k : step = After(l.op, here) /\ k = [l EXCEPT !.mem = FolderImages(l)] /\ To(e, step, k)
      BY <1>3, <2>1
  <2>4. CASE l.op.kind = "import" /\ here = "members"
    <3>1. step = "exact"
        BY <2>3, <2>4 DEF After
    <3>2. k.op = l.op /\ k.plan = l.plan /\ k.mem = FolderImages(l)
        BY <2>3 DEF LocRec
    <3>3. FolderMade(l)
        BY <1>1, <2>4 DEF Knows, KnowsImport
    <3>4. FolderMade(k)' /\ k.mem = FolderImages(k)
        BY <1>3, <3>2, <3>3 DEF FolderMade, Written, FolderRange, FolderImages
    <3>5. KnowsImport(step, k)'
        BY <3>1, <3>4 DEF KnowsImport
    <3>6. Knows(step, k)' /\ Same(step, k)'
        BY <1>1, <1>3, <2>4, <3>1, <3>2, <3>5 DEF Knows, Same, PageKind
    <3>. QED
        BY <1>3, <1>4, <2>3, <3>1, <3>6, AloneStep
  <2>5. CASE here = "exact"
    <3>1. step = "snapshot" /\ l.op.kind = "import"
        BY <2>2, <2>3, <2>5 DEF After
    <3>2. FolderMade(l) /\ l.mem = FolderImages(l)
        BY <1>1, <2>2, <2>5 DEF Knows, KnowsImport
    <3>3. /\ pages = l.plan /\ row.count = Len(pages)
          /\ chapters = <<[id |-> c, first |-> FolderRange(l)[1], last |-> FolderRange(l)[2]]>>
        BY <2>1, <2>2, <2>5, <3>2 DEF FolderMade, Written
    <3>4. WellMade(scale, l.op) /\ l.op.sel # {} /\ l.plan = l.op.seq /\ scale \in Scales
        BY <1>1, <2>2, <2>5 DEF Fits, Shape, TablesFit
    <3>5. /\ FolderImages(l) # <<>>
          /\ PosOf(l.plan, Head(FolderImages(l))) = FolderRange(l)[1]
          /\ PosOf(l.plan, Last(FolderImages(l))) = FolderRange(l)[2]
        BY <2>2, <2>5, <3>4, FolderRangeFits
    <3>6. l.mem = Filter(pages, ToSet(l.mem))
        BY <3>2, <3>3, FilterTwice DEF Shape, TablesFit, FolderImages
    <3>7. ASSUME NEW x \in ToSet(chapters) PROVE Sound(x)'
      <4>1. x.id = c /\ x.first = FolderRange(l)[1] /\ x.last = FolderRange(l)[2]
          BY <3>3 DEF ToSet
      <4>. QED
          BY <1>3, <1>4, <2>1, <3>2, <3>3, <3>5, <3>6, <4>1, MembersWritten
    <3>8. ChaptersFollowPages'
      <4>1. (ChaptersFollowPages <=> \A x \in ToSet(chapters) : Sound(x))'
          BY AllSound, PTL
      <4>. QED
          BY <1>3, <3>7, <4>1
    <3>9. CountMatches'
        BY <1>3, <3>3 DEF CountMatches
    <3>. QED
        BY <1>3, <1>4, <2>3, <3>1, <3>8, <3>9, AloneStep DEF Agree
  <2>6. CASE l.op.kind # "import"
    <3>1. step = "snapshot" /\ here = "members"
        BY <1>7, <2>2, <2>3, <2>6 DEF After
    <3>2. RangeMade(l) /\ l.mem = SubSeq(pages, l.op.i, l.op.j)
        BY <1>1, <2>2, <2>6, <3>1 DEF Knows, KnowsChapter
    <3>3. solo.op.kind \in {"addChapter", "updateChapter"}
        BY <1>1, <2>2, <2>6, <3>1 DEF Same
    <3>4. ASSUME Clean PROVE Agree'
      <4>1. /\ IsInjective(pages) /\ CountMatches /\ pages \in Seq(Image)
            /\ l.op.i <= l.op.j /\ l.op.j <= Len(pages) /\ MaxPages \in Nat
          BY <3>2, <3>4, ScaleFacts DEF RangeMade, InPages, Shape, TablesFit
      <4>2. l.op.i \in 1..Len(pages) /\ l.op.j \in 1..Len(pages)
        <5>1. l.op.i \in Nat \ {0} /\ l.op.j \in Nat \ {0} /\ Len(pages) \in Nat
            BY <2>1, <4>1 DEF Positions
        <5>. QED
            BY <4>1, <5>1
      <4>3. /\ l.mem # <<>> /\ l.mem = Filter(pages, ToSet(l.mem))
            /\ PosOf(pages, Head(l.mem)) = l.op.i /\ PosOf(pages, Last(l.mem)) = l.op.j
        <5>1. PICK ps \in Seq(Image) : ps = pages /\ IsInjective(ps)
            BY <4>1
        <5>2. PICK a \in 1..Len(ps), b \in 1..Len(ps) : a = l.op.i /\ b = l.op.j /\ a <= b
            BY <4>1, <4>2, <5>1
        <5>3. l.mem = Stretch(ps, a, b)
            BY <3>2, <5>1, <5>2 DEF Stretch
        <5>4. LET m == Stretch(ps, a, b)
              IN  /\ m # <<>> /\ Filter(ps, ToSet(m)) = m
                  /\ PosOf(ps, Head(m)) = a /\ PosOf(ps, Last(m)) = b
            BY <5>1, <5>2, StretchOf
        <5>. QED
            BY <5>1, <5>2, <5>3, <5>4
      <4>4. ASSUME NEW x \in ToSet(chapters) PROVE Sound(x)'
        <5>1. IF x.id = c THEN x.first = l.op.i /\ x.last = l.op.j ELSE Sound(x)
            BY <2>1, <3>2, <3>4 DEF RangeMade
        <5>. QED
            BY <1>3, <1>4, <2>1, <4>3, <5>1, MembersWritten
      <4>5. ChaptersFollowPages'
        <5>1. (ChaptersFollowPages <=> \A x \in ToSet(chapters) : Sound(x))'
            BY AllSound, PTL
        <5>. QED
            BY <1>3, <4>4, <5>1
      <4>6. CountMatches'
          BY <1>3, <4>1 DEF CountMatches
      <4>. QED
          BY <4>5, <4>6 DEF Agree
    <3>5. (Repairs(solo) => Agree)'
      <4>1. Repairs(solo)' => Clean
          BY <1>3, <3>3 DEF Repairs, IsPageOp, Clean
      <4>. QED
          BY <3>4, <4>1
    <3>. QED
        BY <1>3, <1>4, <2>3, <3>1, <3>5, AloneStep
  <2>. QED
      BY <1>7, <2>4, <2>5, <2>6
<1>8. here = "exact" => l.op.kind \notin PageKind
    BY <1>1 DEF Fits, KindFits, PageKind
<1>. QED
    BY <1>3, <1>5, <1>6, <1>7, <1>8 DEF WritingMembers

LEMMA DropChapterKnows ==
    ASSUME Shape, SoloInv, solo # NoSolo, NEW e \in Editor, DropChapter(e)
    PROVE  SoloInv'
<1>1. PICK l \in LocRec : /\ l = loc[e] /\ Fits(scale, "dropChapter", l)
                          /\ Same("dropChapter", l) /\ Knows("dropChapter", l)
    BY AloneHas DEF DropChapter
<1>2. PICK c : c = Target(l)
    OBVIOUS
<1>3. /\ chapters' = Dropped(chapters, c) /\ members' = [members EXCEPT ![c] = <<>>]
      /\ at[e] = "dropChapter" /\ solo' = solo
      /\ UNCHANGED <<scale, row, pages, lastId, version, solo>>
      /\ IF l.todo # <<>> THEN NextChapter(e)
         ELSE IF c \in Ids THEN To(e, "snapshot", l) ELSE Stop(e)
    BY <1>1, <1>2 DEF DropChapter, Dropped, Quiet
<1>4. /\ chapters \in Seq(ChRec) /\ DistinctIds(chapters) /\ members \in [ChapterId -> Seq(Image)]
    BY DEF Shape, TablesFit
<1>5. ToSet(chapters') = {x \in ToSet(chapters) : x.id # c}
    BY <1>3, <1>4, DroppedChapters
<1>6. ASSUME NEW x \in ToSet(chapters'), Sound(x) PROVE Sound(x)'
  <2>1. x.id # c
      BY <1>5, <1>6
  <2>2. members'[x.id] = members[x.id]
      BY <1>3, <1>4, <2>1
  <2>. QED
      BY <1>3, <1>6, <2>2 DEF Sound
<1>7. l.op.kind \in PageKind \cup {"import", "deleteChapter"}
    BY <1>1 DEF Fits, KindFits
<1>8. CASE l.op.kind \in PageKind
  <2>1. Reconciles(l) /\ l.todo # <<>>
      BY <1>1, <1>8 DEF Knows, KnowsPage, Fits, InLoop, PageKind
  <2>2. c = Head(l.todo).id
      BY <1>2, <2>1 DEF Target
  <2>3. Written(l)' /\ l.order = pages'
      BY <1>3, <2>1 DEF Reconciles, Written
  <2>4. ASSUME NEW x \in ToSet(chapters'), x.id \notin TodoIds(l) \/ x.id = Head(l.todo).id
        PROVE  Sound(x)'
    <3>1. x \in ToSet(chapters) /\ x.id # c
        BY <1>5, <2>4
    <3>2. Sound(x)
        BY <2>1, <2>2, <2>4, <3>1 DEF Reconciles
    <3>. QED
        BY <1>6, <2>4, <3>2
  <2>. QED
      BY <1>1, <1>3, <1>8, <2>1, <2>3, <2>4, RoundKnows
<1>9. CASE l.op.kind = "import"
  <2>1. /\ Written(l) /\ l.todo # <<>> /\ row.count = Len(pages)
        /\ \A x \in ToSet(chapters) : x.id \in TodoIds(l)
      BY <1>1, <1>9 DEF Knows, KnowsImport, Fits, InLoop, Written
  <2>2. c = Head(l.todo).id
      BY <1>2, <2>1 DEF Target
  <2>3. PICK step, k : step = RoundStep("dropChapter", l) /\ k = RoundLoc(l)
      OBVIOUS
  <2>4. To(e, step, k)
      BY <1>1, <1>3, <2>1, <2>3 DEF NextChapter, RoundStep, RoundLoc
  <2>5. /\ TodoIds(l) = {Head(l.todo).id} \cup TodoIds(k)
        /\ ~(Len(l.todo) > 1) => TodoIds(k) = {}
        /\ k.op = l.op /\ k.plan = l.plan
      BY <2>1, <2>3, TodoLeft
  <2>6. step = IF Len(l.todo) > 1 THEN "dropChapter" ELSE IF l.op.sel = {} THEN "snapshot" ELSE "insertChapter"
      BY <1>9, <2>3 DEF RoundStep, LoopOf, LoopStep, After
  <2>7. \A x \in ToSet(chapters') : x.id \in TodoIds(k)
      BY <1>5, <2>1, <2>2, <2>5
  <2>8. Written(k)' /\ Same(step, k)'
      BY <1>1, <1>3, <2>1, <2>5 DEF Written, Same
  <2>9. ~(Len(l.todo) > 1) => chapters' = <<>>
    <3>1. ~(Len(l.todo) > 1) => ToSet(chapters') = {}
        BY <2>5, <2>7
    <3>2. chapters' \in Seq(ChRec)
        BY <1>3, <1>4, DroppedChapters
    <3>3. ToSet(chapters') = {} => DOMAIN chapters' = {}
        BY DEF ToSet
    <3>4. DOMAIN chapters' = {} => chapters' = <<>>
        BY <3>2
    <3>. QED
        BY <3>1, <3>3, <3>4
  <2>10. CASE step = "snapshot"
    <3>1. chapters' = <<>>
        BY <2>6, <2>9, <2>10
    <3>2. ChaptersFollowPages' /\ CountMatches'
        BY <1>3, <2>1, <3>1 DEF ChaptersFollowPages, CountMatches
    <3>. QED
        BY <1>3, <2>4, <2>10, <3>2, AloneStep DEF Agree
  <2>11. CASE step # "snapshot"
    <3>1. KnowsImport(step, k)'
        BY <2>6, <2>7, <2>8, <2>9, <2>11 DEF KnowsImport
    <3>2. Knows(step, k)'
        BY <1>9, <2>5, <2>6, <2>11, <3>1 DEF Knows, PageKind
    <3>3. step # "idle"
        BY <2>6
    <3>. QED
        BY <1>3, <2>4, <2>8, <2>11, <3>2, <3>3, AloneStep
  <2>. QED
      BY <2>10, <2>11
<1>10. CASE l.op.kind = "deleteChapter"
  <2>1. l.todo = <<>> /\ c = l.op.ch /\ c \in ChapterId
    <3>1. WellMade(scale, l.op) /\ l.todo = <<>> /\ scale \in Scales
        BY <1>1, <1>10 DEF Fits, InLoop, PageKind, Shape, TablesFit
    <3>2. l.op.ch \in 1..scale.chapters
        BY <1>10, <3>1 DEF WellMade
    <3>3. 1..scale.chapters \subseteq ChapterId
        BY <3>1, ScaleFacts DEF ChapterId
    <3>. QED
        BY <1>2, <3>1, <3>2, <3>3 DEF Target
  <2>2. Clean => Consistent
      BY <1>1, <1>10 DEF Knows, KnowsChapter
  <2>3. Repairs(solo) => Clean
    <3>1. solo.op.kind = "deleteChapter"
        BY <1>1, <1>10 DEF Same
    <3>. QED
        BY <3>1 DEF Repairs, Clean, IsPageOp
  <2>4. Repairs(solo)' = Repairs(solo)
      BY <1>3 DEF Repairs
  <2>5. CASE c \in Ids
    <3>1. To(e, "snapshot", l)
        BY <1>3, <2>1, <2>5
    <3>2. ASSUME Clean PROVE Agree'
      <4>1. CountMatches /\ \A x \in ToSet(chapters) : Sound(x)
          BY <2>2, <3>2, AllSound DEF Consistent
      <4>2. \A x \in ToSet(chapters') : Sound(x)'
          BY <1>5, <1>6, <4>1
      <4>3. (ChaptersFollowPages <=> \A x \in ToSet(chapters) : Sound(x))'
          BY AllSound, PTL
      <4>4. CountMatches'
          BY <1>3, <4>1 DEF CountMatches
      <4>. QED
          BY <4>2, <4>3, <4>4 DEF Agree
    <3>. QED
        BY <1>3, <2>3, <2>4, <3>1, <3>2, AloneStep
  <2>6. CASE c \notin Ids
    <3>1. To(e, "idle", NoLoc)
        BY <1>3, <2>1, <2>6 DEF Stop
    <3>2. chapters' = chapters
      <4>1. ToSet(chapters) \subseteq {x \in ToSet(chapters) : x.id # c}
          BY <2>6 DEF Ids, ToSet
      <4>. QED
          BY <1>3, <1>4, <4>1, FilterAll DEF Dropped
    <3>3. members' = members
      <4>1. members[c] = <<>>
          BY <2>1, <2>6 DEF Shape, TablesFit, DeletedIsEmpty
      <4>. QED
          BY <1>3, <1>4, <2>1, <4>1
    <3>4. Consistent => Consistent'
        BY <1>3, <3>2, <3>3 DEF Consistent, CountMatches, ChaptersFollowPages, VersionIsCurrent
    <3>5. SelfRepair'
        BY <2>2, <2>3, <2>4, <3>4 DEF SelfRepair
    <3>. QED
        BY <1>3, <3>1, <3>5, AloneStep
  <2>. QED
      BY <2>5, <2>6
<1>. QED
    BY <1>7, <1>8, <1>9, <1>10

LEMMA InsertChapterKnows ==
    ASSUME Shape, SoloInv, solo # NoSolo, NEW e \in Editor, InsertChapter(e)
    PROVE  SoloInv'
<1>1. PICK l \in LocRec : /\ l = loc[e] /\ Fits(scale, "insertChapter", l)
                          /\ Same("insertChapter", l) /\ Knows("insertChapter", l)
    BY AloneHas DEF InsertChapter
<1>2. PICK first, end, c, x : /\ first = MadeRange(l)[1] /\ end = MadeRange(l)[2] /\ c = lastId + 1
                              /\ x = [id |-> c, first |-> first, last |-> end]
    OBVIOUS
<1>3. /\ chapters' = Append(chapters, x)
      /\ To(e, "order", MadeLoc(l, c, first, end))
      /\ UNCHANGED <<scale, row, pages, members, version, solo>> /\ solo' = solo
      /\ at[e] # "idle"
    BY <1>1, <1>2 DEF InsertChapter, MadeRange, MadeLoc, Quiet
<1>4. first \in Positions /\ end \in Positions /\ c \in ChapterId
    BY <1>1, <1>2, <1>3, InsertChapterFits
<1>5. PICK k : k = MadeLoc(l, c, first, end)
    OBVIOUS
<1>6. /\ k.op.kind = l.op.kind /\ k.op.sel = l.op.sel /\ k.op.ch = c /\ k.op.i = first /\ k.op.j = end
      /\ k.plan = l.plan /\ k.order = l.order
    BY <1>1, <1>4, <1>5, OpChanges, ComicAssumption
<1>7. l.op.kind \in {"import", "addChapter"}
    BY <1>1 DEF Fits, KindFits
<1>8. Same("order", k)'
    BY <1>1, <1>3, <1>6, <1>7 DEF Same, PageKind
<1>9. CASE l.op.kind = "import"
  <2>1. Written(l) /\ chapters = <<>>
      BY <1>1, <1>9 DEF Knows, KnowsImport
  <2>2. first = FolderRange(l)[1] /\ end = FolderRange(l)[2]
      BY <1>2, <1>9 DEF MadeRange
  <2>3. FolderRange(k) = FolderRange(l)
      BY <1>6 DEF FolderRange
  <2>4. chapters' = <<x>>
      BY <1>3, <2>1
  <2>5. Written(k)'
      BY <1>3, <1>6, <2>1 DEF Written
  <2>6. FolderMade(k)'
      BY <1>2, <1>6, <2>2, <2>3, <2>4, <2>5 DEF FolderMade
  <2>7. KnowsImport("order", k)'
      BY <2>6 DEF KnowsImport
  <2>8. Knows("order", k)'
      BY <1>6, <1>9, <2>7 DEF Knows, PageKind
  <2>. QED
      BY <1>3, <1>5, <1>8, <2>8, AloneStep
<1>10. CASE l.op.kind = "addChapter"
  <2>1. /\ Clean => Agree /\ IsInjective(pages)
        /\ InPages(l.op) /\ first = l.op.i /\ end = l.op.j
      BY <1>1, <1>2, <1>10 DEF Knows, KnowsChapter, MadeRange
  <2>2. InPages(k.op)'
      BY <1>3, <1>6, <2>1 DEF InPages
  <2>3. Clean' = Clean /\ (Clean => CountMatches' /\ IsInjective(pages'))
      BY <1>3, <2>1 DEF Clean, Agree, CountMatches
  <2>4. ASSUME Clean, NEW y \in ToSet(chapters')
        PROVE  IF y.id = k.op.ch THEN y.first = k.op.i /\ y.last = k.op.j ELSE Sound(y)'
    <3>1. /\ chapters \in Seq(ChRec) /\ \A i \in DOMAIN chapters : chapters[i].id <= lastId
          /\ lastId \in Nat
        BY ScaleFacts DEF Shape, TablesFit
    <3>2. y \in ToSet(chapters) \/ y = x
      <4>1. x \in ChRec
          BY <1>2, <1>4 DEF ChRec
      <4>2. \A i \in DOMAIN chapters' : \/ i \in DOMAIN chapters /\ chapters'[i] = chapters[i]
                                        \/ chapters'[i] = x
          BY <1>3, <3>1, <4>1, AddedChapter
      <4>. QED
          BY <4>2 DEF ToSet
    <3>3. CASE y \in ToSet(chapters)
      <4>1. y.id # c
        <5>1. y.id \in Nat /\ y.id <= lastId
          <6>1. PICK i \in DOMAIN chapters : y = chapters[i]
              BY <3>3 DEF ToSet
          <6>2. y \in ChRec
              BY <3>1, <6>1, ElementOfSeq
          <6>. QED
              BY <3>1, <6>1, <6>2 DEF ChRec, ChapterId
        <5>. QED
            BY <1>2, <3>1, <5>1
      <4>2. Sound(y)
          BY <2>1, <2>4, <3>3, AllSound DEF Agree
      <4>3. Sound(y)'
          BY <1>3, <4>2 DEF Sound
      <4>. QED
          BY <1>6, <4>1, <4>3
    <3>4. CASE y = x
        BY <1>2, <1>6, <3>4
    <3>. QED
        BY <3>2, <3>3, <3>4
  <2>5. RangeMade(k)'
      BY <2>2, <2>3, <2>4 DEF RangeMade
  <2>6. KnowsChapter("order", k)'
      BY <2>5 DEF KnowsChapter
  <2>7. Knows("order", k)'
      BY <1>6, <1>10, <2>6 DEF Knows, PageKind
  <2>. QED
      BY <1>3, <1>5, <1>8, <2>7, AloneStep
<1>. QED
    BY <1>7, <1>9, <1>10

\* A work that is gone agrees with itself.
LEMMA GoneKnows ==
    ASSUME Shape, SoloInv, solo # NoSolo, NEW e \in Editor, DropWork(e) \/ DropFiles(e)
    PROVE  SoloInv'
<1>1. PICK l \in LocRec : l = loc[e] /\ Fits(scale, at[e], l) /\ Same(at[e], l) /\ Knows(at[e], l)
    BY AloneHas
<1>2. solo' = solo /\ at[e] # "idle"
    BY DEF DropWork, DropFiles, Quiet
<1>3. ~row'.alive /\ chapters' = <<>>
  <2>1. CASE DropWork(e)
      BY <2>1 DEF DropWork
  <2>2. CASE DropFiles(e)
      BY <1>1, <2>2 DEF DropFiles, Knows, dbVars
  <2>. QED
      BY <2>1, <2>2
<1>4. SelfRepair'
    BY <1>3 DEF SelfRepair, Consistent, CountMatches, ChaptersFollowPages, VersionIsCurrent
<1>5. CASE To(e, "idle", NoLoc)
    BY <1>2, <1>4, <1>5, AloneStep
<1>6. CASE DropWork(e) /\ To(e, "dropFiles", l)
  <2>1. l.op.kind = "deleteWork"
      BY <1>1, <1>6 DEF DropWork, Fits, KindFits
  <2>2. Same("dropFiles", l)'
      BY <1>1, <1>2, <1>6 DEF DropWork, Same
  <2>3. Knows("dropFiles", l)'
      BY <1>3, <2>1 DEF Knows, PageKind
  <2>. QED
      BY <1>2, <1>6, <2>2, <2>3, AloneStep
<1>. QED
    BY <1>1, <1>5, <1>6 DEF DropWork, DropFiles, Stop

\* The snapshot brings the version history up to date.
LEMMA SnapshotKnows ==
    ASSUME Shape, SoloInv, solo # NoSolo, NEW e \in Editor, Snapshot(e)
    PROVE  SoloInv' /\ (row.alive /\ Repairs(solo) => Consistent')
<1>1. PICK l \in LocRec : l = loc[e] /\ Same("snapshot", l) /\ Knows("snapshot", l)
    BY AloneHas DEF Snapshot
<1>2. /\ UNCHANGED <<row, pages, chapters, members, solo>> /\ solo' = solo /\ at[e] # "idle"
      /\ version' = (IF row.alive THEN Manifest ELSE version) /\ To(e, "idle", NoLoc)
    BY DEF Snapshot, Stop, dbVars
<1>3. Repairs(solo) => Agree
    BY <1>1 DEF Knows
<1>4. Repairs(solo) => Consistent'
    BY <1>2, <1>3 DEF Agree, Consistent, CountMatches, ChaptersFollowPages, VersionIsCurrent, Manifest
<1>5. Repairs(solo)' = Repairs(solo)
    BY <1>2 DEF Repairs
<1>6. SelfRepair'
    BY <1>4, <1>5 DEF SelfRepair
<1>. QED
    BY <1>2, <1>4, <1>6, AloneStep

\* An operation that runs alone knows what it has done at every step.
LEMMA SoloStep ==
    ASSUME Shape, SoloInv, [Next]_vars
    PROVE  SoloInv'
<1>1. ASSUME NEW part \in {"page", "chapter", "work"}, BeginOps(part) PROVE SoloInv'
    BY <1>1, BeginKnows DEF BeginOps
<1>2. ASSUME NEW e \in Editor, Step(e) PROVE SoloInv'
  <2>1. CASE Rejected(e) \/ WritePagesFails(e) \/ WriteMembersFails(e) \/ InsertChapterFails(e) \/ Fail(e)
    <3>1. solo' = NoSolo
        BY <2>1 DEF Rejected, WritePagesFails, WriteMembersFails, InsertChapterFails, Fail, Abandon
    <3>. QED
        BY <3>1 DEF SoloInv
  <2>2. CASE solo = NoSolo
    <3>1. solo' = NoSolo
        BY <1>2, <2>2 DEF Step, EditStep, ReadPages, Rejected, Upsert, WritePages, WritePagesFails,
           ListChapters, RemapRead, ReadOrder, ReadMembers, UpdateRange, WriteMembers,
           WriteMembersFails, DropChapter, InsertChapter, InsertChapterFails, DropWork, Fail,
           DropFiles, Snapshot, Abandon, Quiet, Reads
    <3>. QED
        BY <3>1 DEF SoloInv
  <2>. QED
      BY <1>2, <2>1, <2>2, ReadKnows, UpsertKnows, WriteKnows, ListKnows, RemapKnows, OrderKnows,
         MembersKnows, RangeKnows, WriteMembersKnows, DropChapterKnows, InsertChapterKnows,
         GoneKnows, SnapshotKnows DEF Step, EditStep
<1>3. CASE UNCHANGED vars
  <2>1. UNCHANGED <<scale, row, pages, chapters, members, lastId, version, at, loc, ops, solo>>
      BY <1>3 DEF vars, dbVars
  <2>2. SelfRepair' = SelfRepair
      BY <2>1 DEF SelfRepair, AllIdle, Repairs, Consistent, CountMatches, ChaptersFollowPages,
                  VersionIsCurrent
  <2>3. Alone' = Alone
      BY <2>1 DEF Alone
  <2>4. ASSUME NEW e \in Editor, Same(at[e], loc[e]), Knows(at[e], loc[e])
        PROVE  Same(at[e], loc[e])' /\ Knows(at[e], loc[e])'
    <3>1. PICK step, k : step = at[e] /\ k = loc[e]
        OBVIOUS
    <3>2. Reads
        BY <2>1 DEF Reads, Quiet, dbVars
    <3>3. Same(step, k)' /\ Knows(step, k)'
        BY <2>4, <3>1, <3>2, KnowsStays
    <3>. QED
        BY <2>1, <3>1, <3>3
  <2>. QED
      BY <2>1, <2>2, <2>3, <2>4 DEF SoloInv
<1>. QED
    BY <1>1, <1>2, <1>3 DEF Next, Done

LEMMA SoloAtFirst ==
    ASSUME Init
    PROVE  SoloInv
<1>. QED
    BY DEF Init, SoloInv

\* Whatever crashes, failures and edits that overlap left behind, for any
\* number of editors, pages and chapters: one page operation or import that
\* then runs alone to its end puts the row, the chapters and the version
\* history right, and no operation that runs alone disturbs a work that agrees
\* with itself and has no image twice.
THEOREM OneOperationRepairs == Spec => []SelfRepair
<1>1. SoloInv => SelfRepair
  <2>1. solo = NoSolo => ~Repairs(solo)
      BY DEF NoSolo, NoOp, Op, Repairs, IsPageOp
  <2>. QED
      BY <2>1 DEF SoloInv, SelfRepair
<1>. QED
    BY <1>1, SoloAtFirst, SoloStep, ShapeHolds, PTL DEF Spec

-----------------------------------------------------------------------------
(* The members of the chapters.                                            *)

\* A page operation that says nothing of members.
Tracked == IsPageOp(solo.op) /\ (solo.op.kind = "reorder" => solo.op.sel = {NoImage})

Had(c) == solo.members[c] # <<>>

\* What is to become of the members of a chapter, and what they are in between:
\* a deleted image leaves the chapter only when the lists are reconciled.
Due(c)  == Expected(ToSet(solo.members[c]), solo.op, solo.pages)
Half(c) == IF solo.op.kind = "delete" THEN ToSet(solo.members[c]) ELSE Due(c)

Untouched(c)  == members[c] = solo.members[c]
Renamed(c)    == members[c] # <<>> /\ ToSet(members[c]) = Half(c)
Reconciled(c) == ToSet(members[c]) = Due(c) \cap ToSet(pages)

\* What is known of the chapters that had members at a step of the operation.
Follows(step, l) ==
    /\ step \notin {"idle", "read", "snapshot"} /\ l.op.kind \in {"delete", "replace"} =>
           l.old = solo.pages[l.op.i]
    /\ step \in {"write", "remap"} \/ (step = "upsert" /\ l.op.kind = "add") =>
           \A c \in ChapterId : Untouched(c)
    /\ step \in {"remapRead", "remapWrite"} =>
           \A c \in ChapterId : Had(c) => IF c \in TodoIds(l) THEN Untouched(c) ELSE Renamed(c)
    /\ step = "remapWrite" => l.mem = Remapped(l, members[Head(l.todo).id])
    /\ step \in {"order", "list"} => \A c \in ChapterId : Had(c) => Renamed(c)
    /\ step \in {"chapter", "range", "members", "dropChapter"} =>
           \A c \in ChapterId : Had(c) => IF c \in TodoIds(l) THEN Renamed(c) ELSE Reconciled(c)
    /\ step \in {"range", "members", "dropChapter"} /\ Had(Head(l.todo).id) =>
           ToSet(l.mem) = Due(Head(l.todo).id) \cap ToSet(pages)
    /\ step = "dropChapter" => l.mem = <<>>
    /\ step = "snapshot" \/ (step = "upsert" /\ l.op.kind # "add") =>
           \A c \in ChapterId : Had(c) => Reconciled(c)

FollowInv ==
    \/ solo = NoSolo \/ ~Tracked
    \/ MembershipFollows /\ \A e \in Editor : Follows(at[e], loc[e])

LEMMA IdleFollows == Follows("idle", NoLoc)'
<1>. QED
    BY DEF Follows

\* A page operation that runs alone goes on to a step.
LEMMA TrackedStep ==
    ASSUME Shape, SoloInv, FollowInv, solo # NoSolo, Tracked, solo' = solo, NEW e \in Editor,
           at[e] # "idle", NEW CONSTANT step, NEW CONSTANT k, To(e, step, k),
           step = "idle" => k = NoLoc /\ MembershipFollows',
           step \notin {"idle", "snapshot"} => Follows(step, k)',
           step = "snapshot" => \A c \in ChapterId : Had(c)' => Reconciled(c)'
    PROVE  FollowInv'
<1>1. /\ at \in [Editor -> StepName] /\ loc \in [Editor -> LocRec] /\ Alone
      /\ \A f \in Editor : Fits(scale, at[f], loc[f])
    BY DEF SoloInv, Shape, EditorsFit
<1>2. /\ at' = [at EXCEPT ![e] = step]
      /\ loc' = [loc EXCEPT ![e] = IF step = "snapshot" THEN NoLoc ELSE k]
    BY DEF To
<1>3. \A f \in Editor \ {e} : at'[f] = "idle" /\ loc'[f] = NoLoc
    BY <1>1, <1>2 DEF Alone, Fits
<1>4. at'[e] = step /\ loc'[e] = IF step = "snapshot" THEN NoLoc ELSE k
    BY <1>1, <1>2
<1>5. step = "snapshot" => Follows(step, NoLoc)'
  <2>1. NoLoc.op.kind = "none"
      BY DEF NoLoc, NoOp, Op
  <2>. QED
      BY <2>1 DEF Follows
<1>6. ASSUME NEW f \in Editor PROVE Follows(at[f], loc[f])'
  <2>1. CASE f # e
      BY <1>3, <2>1, IdleFollows
  <2>2. CASE f = e /\ step = "idle"
      BY <1>4, <2>2, IdleFollows
  <2>3. CASE f = e /\ step = "snapshot"
    <3>1. at'[f] = step /\ loc'[f] = NoLoc
        BY <1>4, <2>3
    <3>. QED
        BY <1>5, <2>3, <3>1
  <2>4. CASE f = e /\ step \notin {"idle", "snapshot"}
    <3>1. at'[f] = step /\ loc'[f] = k
        BY <1>4, <2>4
    <3>. QED
        BY <2>4, <3>1
  <2>. QED
      BY <2>1, <2>2, <2>3, <2>4
<1>7. MembershipFollows'
  <2>1. CASE step = "idle"
      BY <2>1
  <2>2. CASE step # "idle"
      BY <1>4, <2>2 DEF MembershipFollows, AllIdle
  <2>. QED
      BY <2>1, <2>2
<1>. QED
    BY <1>6, <1>7 DEF FollowInv

\* What a page operation that runs alone is about.
LEMMA TrackedHas ==
    ASSUME Shape, SoloInv, FollowInv, solo # NoSolo, Tracked, NEW e \in Editor
    PROVE  /\ \E l \in LocRec : /\ l = loc[e] /\ Fits(scale, at[e], l) /\ Knows(at[e], l)
                                /\ Follows(at[e], l)
                                /\ at[e] \notin {"idle", "snapshot"} =>
                                      l.op = solo.op /\ l.op.kind \in PageKind /\ IsPageOp(l.op)
           /\ solo \in SoloRec /\ solo.op.kind \in PageKind
           /\ scale \in Scales /\ TablesFit /\ EditorsFit
           /\ pages \in Seq(Image) /\ members \in [ChapterId -> Seq(Image)]
           /\ chapters \in Seq(ChRec)
           /\ \A c \in ChapterId : members[c] # <<>> => c \in Ids
<1>1. IsPageOp(solo.op) /\ solo.op.kind \in PageKind
    BY PageKinds DEF Tracked
<1>2. PICK l \in LocRec : l = loc[e] /\ Fits(scale, at[e], l) /\ Same(at[e], l) /\ Knows(at[e], l)
    BY AloneHas
<1>3. Follows(at[e], l)
    BY <1>2 DEF FollowInv
<1>4. at[e] \notin {"idle", "snapshot"} => l.op = solo.op /\ l.op.kind \in PageKind /\ IsPageOp(l.op)
    BY <1>1, <1>2, PageKinds DEF Same
<1>5. solo \in SoloRec /\ scale \in Scales /\ TablesFit /\ EditorsFit
    BY AloneHas
<1>. QED
    BY <1>1, <1>2, <1>3, <1>4, <1>5 DEF TablesFit, DeletedIsEmpty

\* A chapter that is reached is not listed again.
LEMMA HeadLeft ==
    ASSUME NEW CONSTANT l \in LocRec, l.todo # <<>>, DistinctIds(l.todo)
    PROVE  /\ TodoIds(RoundLoc(l)) = TodoIds(l) \ {Head(l.todo).id}
           /\ Head(l.todo).id \in TodoIds(l) /\ Head(l.todo).id \in ChapterId
           /\ ~(Len(l.todo) > 1) => TodoIds(RoundLoc(l)) = {}
<1>1. l.todo \in Seq(ChRec)
    BY DEF LocRec
<1>2. /\ Head(l.todo) \in ChRec /\ Head(l.todo) = l.todo[1] /\ 1 \in DOMAIN l.todo
      /\ Tail(l.todo) \in Seq(ChRec)
      /\ \A k \in DOMAIN Tail(l.todo) : k + 1 \in DOMAIN l.todo /\ Tail(l.todo)[k] = l.todo[k + 1]
    BY <1>1, TailOf
<1>3. /\ TodoIds(l) = {Head(l.todo).id} \cup TodoIds(RoundLoc(l)) /\ RoundLoc(l).todo = Tail(l.todo)
      /\ ~(Len(l.todo) > 1) => TodoIds(RoundLoc(l)) = {}
    BY TodoLeft
<1>4. ASSUME NEW x \in ToSet(Tail(l.todo)) PROVE x.id # Head(l.todo).id
  <2>1. PICK k \in DOMAIN Tail(l.todo) : x = Tail(l.todo)[k]
      BY <1>4 DEF ToSet
  <2>2. k \in Nat \ {0} /\ k + 1 # 1
      BY <1>2, <2>1
  <2>. QED
      BY <1>2, <2>1, <2>2 DEF DistinctIds
<1>. QED
    BY <1>2, <1>3, <1>4 DEF TodoIds, ChRec

\* The members with one image renamed.
LEMMA RenamedSet ==
    ASSUME NEW CONSTANT l, NEW CONSTANT was \in Seq(Image)
    PROVE  /\ ToSet(Remapped(l, was)) = IF l.old \in ToSet(was)
                                        THEN (ToSet(was) \ {l.old}) \cup {l.op.img}
                                        ELSE ToSet(was)
           /\ was # <<>> => Remapped(l, was) # <<>>
<1>. DEFINE now == Remapped(l, was)
<1>1. DOMAIN now = DOMAIN was /\ \A k \in DOMAIN was : now[k] = IF was[k] = l.old THEN l.op.img ELSE was[k]
    BY DEF Remapped
<1>2. was # <<>> => now # <<>>
  <2>1. was # <<>> => 1 \in DOMAIN was
      OBVIOUS
  <2>. QED
      BY <1>1, <2>1
<1>. HIDE DEF now
<1>3. ASSUME NEW x \in ToSet(now)
      PROVE  (x \in ToSet(was) /\ x # l.old) \/ (x = l.op.img /\ l.old \in ToSet(was))
  <2>1. PICK k \in DOMAIN was : x = now[k]
      BY <1>1, <1>3 DEF ToSet
  <2>. QED
      BY <1>1, <2>1 DEF ToSet
<1>4. ASSUME NEW x \in ToSet(was), x # l.old PROVE x \in ToSet(now)
  <2>1. PICK k \in DOMAIN was : x = was[k]
      BY <1>4 DEF ToSet
  <2>. QED
      BY <1>1, <1>4, <2>1 DEF ToSet
<1>5. ASSUME l.old \in ToSet(was) PROVE l.op.img \in ToSet(now)
  <2>1. PICK k \in DOMAIN was : l.old = was[k]
      BY <1>5 DEF ToSet
  <2>. QED
      BY <1>1, <2>1 DEF ToSet
<1>6. ToSet(now) = IF l.old \in ToSet(was) THEN (ToSet(was) \ {l.old}) \cup {l.op.img} ELSE ToSet(was)
    BY <1>3, <1>4, <1>5
<1>. QED
    BY <1>2, <1>6 DEF now

LEMMA FollowStays ==
    ASSUME NEW CONSTANT step, NEW CONSTANT k, UNCHANGED <<pages, members, solo>>
    PROVE  Follows(step, k)' = Follows(step, k)
<1>1. \A c : /\ Untouched(c)' = Untouched(c) /\ Renamed(c)' = Renamed(c)
             /\ Reconciled(c)' = Reconciled(c) /\ Had(c)' = Had(c) /\ Due(c)' = Due(c)
    BY DEF Untouched, Renamed, Reconciled, Had, Due, Half
<1>. QED
    BY <1>1 DEF Follows

LEMMA BeginFollows ==
    ASSUME Shape, FollowInv, NEW e \in Editor, NEW CONSTANT o, Begin(e, o)
    PROVE  FollowInv'
<1>1. CASE ~AllIdle
    BY <1>1 DEF Begin, FollowInv
<1>2. CASE AllIdle
  <2>1. PICK k : k = [NoLoc EXCEPT !.op = o] /\ To(e, "read", k)
      BY DEF Begin
  <2>2. /\ at \in [Editor -> StepName] /\ loc \in [Editor -> LocRec]
        /\ \A f \in Editor : at[f] = "idle" /\ loc[f] = NoLoc
      BY <1>2 DEF AllIdle, Shape, EditorsFit, Fits
  <2>3. /\ \A f \in Editor \ {e} : at'[f] = "idle" /\ loc'[f] = NoLoc
        /\ at'[e] = "read" /\ loc'[e] = k
      BY <2>1, <2>2 DEF To
  <2>4. Follows("read", k)'
      BY DEF Follows
  <2>5. \A f \in Editor : Follows(at[f], loc[f])'
      BY <2>3, <2>4, IdleFollows
  <2>6. MembershipFollows'
      BY <2>3 DEF MembershipFollows, AllIdle
  <2>. QED
      BY <2>5, <2>6 DEF FollowInv
<1>. QED
    BY <1>1, <1>2

LEMMA ReadFollows ==
    ASSUME Shape, SoloInv, FollowInv, solo # NoSolo, Tracked, NEW e \in Editor, ReadPages(e)
    PROVE  FollowInv'
<1>1. PICK l \in LocRec : /\ l = loc[e] /\ Fits(scale, "read", l) /\ Knows("read", l)
                          /\ l.op = solo.op /\ l.op.kind \in PageKind
    BY TrackedHas DEF ReadPages
<1>2. PICK step, k : step = After(l.op, "read") /\ k = ReadLoc(l, pages) /\ To(e, step, k)
    BY <1>1 DEF ReadPages, ReadLoc
<1>3. /\ k.op = l.op
      /\ k.old = IF l.op.kind \in {"replace", "delete"} THEN pages[l.op.i] ELSE NoImage
    BY <1>2 DEF ReadLoc, LocRec
<1>4. UNCHANGED <<pages, members, solo>> /\ at[e] # "idle"
    BY DEF ReadPages, Reads, Quiet, dbVars
<1>5. pages = solo.pages /\ members = solo.members
    BY <1>1 DEF Knows
<1>6. step = IF l.op.kind = "add" THEN "upsert" ELSE "write"
    BY <1>1, <1>2 DEF After, FirstWrite, PageKind
<1>7. Follows(step, k)
    BY <1>3, <1>5, <1>6 DEF Follows, Untouched
<1>. QED
    BY <1>2, <1>4, <1>6, <1>7, FollowStays, TrackedStep

LEMMA UpsertFollows ==
    ASSUME Shape, SoloInv, FollowInv, solo # NoSolo, Tracked, NEW e \in Editor, Upsert(e)
    PROVE  FollowInv'
<1>1. PICK l \in LocRec : /\ l = loc[e] /\ Fits(scale, "upsert", l) /\ Follows("upsert", l)
                          /\ l.op = solo.op /\ l.op.kind \in PageKind
    BY TrackedHas DEF Upsert
<1>2. PICK step : step = After(l.op, "upsert") /\ To(e, step, l)
    BY <1>1 DEF Upsert
<1>3. UNCHANGED <<pages, members, solo>> /\ at[e] # "idle"
    BY DEF Upsert, Quiet
<1>4. step = IF l.op.kind = "add" THEN "write" ELSE "snapshot"
    BY <1>1, <1>2 DEF After, PageKind
<1>5. CASE l.op.kind = "add"
  <2>1. Follows(step, l)
      BY <1>1, <1>4, <1>5 DEF Follows
  <2>. QED
      BY <1>2, <1>3, <1>4, <1>5, <2>1, FollowStays, TrackedStep
<1>6. CASE l.op.kind # "add"
  <2>1. \A c \in ChapterId : Had(c) => Reconciled(c)
      BY <1>1, <1>6 DEF Follows
  <2>2. \A c \in ChapterId : Had(c)' => Reconciled(c)'
      BY <1>3, <2>1 DEF Had, Reconciled, Due
  <2>. QED
      BY <1>2, <1>3, <1>4, <1>6, <2>2, TrackedStep
<1>. QED
    BY <1>5, <1>6

LEMMA WriteFollows ==
    ASSUME Shape, SoloInv, FollowInv, solo # NoSolo, Tracked, NEW e \in Editor, WritePages(e)
    PROVE  FollowInv'
<1>1. PICK l \in LocRec : /\ l = loc[e] /\ Fits(scale, "write", l) /\ Follows("write", l)
                          /\ l.op = solo.op /\ l.op.kind \in PageKind
    BY TrackedHas DEF WritePages
<1>2. PICK step : step = After(l.op, "write") /\ To(e, step, l)
    BY <1>1 DEF WritePages
<1>3. UNCHANGED <<members, solo>> /\ solo' = solo /\ at[e] # "idle"
    BY DEF WritePages, Quiet
<1>4. step = IF l.op.kind = "replace" THEN "remap" ELSE "order"
    BY <1>1, <1>2 DEF After, AfterPages, PageKind
<1>5. l.op.kind \in {"delete", "replace"} => l.old = solo.pages[l.op.i]
    BY <1>1 DEF Follows
<1>6. ASSUME NEW c \in ChapterId PROVE Untouched(c)' /\ (l.op.kind # "replace" /\ Had(c)' => Renamed(c)')
  <2>1. members[c] = solo.members[c]
      BY <1>1 DEF Follows, Untouched
  <2>2. l.op.kind # "replace" => Half(c) = ToSet(solo.members[c])
      BY <1>1 DEF Half, Due, Expected, PageKind
  <2>. QED
      BY <1>3, <2>1, <2>2 DEF Untouched, Renamed, Had, Half, Due
<1>7. Follows(step, l)'
    BY <1>3, <1>4, <1>5, <1>6 DEF Follows
<1>. QED
    BY <1>2, <1>3, <1>4, <1>7, TrackedStep

LEMMA ListFollows ==
    ASSUME Shape, SoloInv, FollowInv, solo # NoSolo, Tracked, NEW e \in Editor,
           NEW loop \in {"remap", "list", "clear"}, ListChapters(e, loop)
    PROVE  FollowInv'
<1>1. PICK l \in LocRec : /\ l = loc[e] /\ Fits(scale, loop, l) /\ Follows(loop, l)
                          /\ l.op = solo.op /\ l.op.kind \in PageKind
    BY TrackedHas DEF ListChapters
<1>2. UNCHANGED <<pages, members, solo, chapters>> /\ at[e] # "idle"
    BY DEF ListChapters, Reads, Quiet, dbVars
<1>3. loop \in {"remap", "list"} /\ (loop = "remap" => l.op.kind = "replace")
    BY <1>1 DEF Fits, KindFits, PageKind
<1>4. /\ l.op.kind \in {"delete", "replace"} => l.old = solo.pages[l.op.i]
      /\ loop = "remap" => \A c \in ChapterId : Untouched(c)
      /\ loop = "list" => \A c \in ChapterId : Had(c) => Renamed(c)
    BY <1>1, <1>3 DEF Follows
<1>5. \A c \in ChapterId : Had(c) => c \in Ids
  <2>1. \A c \in ChapterId : Had(c) => members[c] # <<>>
      BY <1>3, <1>4 DEF Untouched, Had, Renamed
  <2>. QED
      BY <2>1, TrackedHas
<1>6. CASE chapters = <<>>
  <2>1. \A c \in ChapterId : ~Had(c)
      BY <1>5, <1>6 DEF Ids
  <2>2. PICK step : step = After(l.op, loop) /\ To(e, step, l)
      BY <1>1, <1>6 DEF ListChapters
  <2>3. step = IF loop = "remap" THEN "order" ELSE IF l.op.kind = "add" THEN "snapshot" ELSE "upsert"
      BY <1>3, <2>2 DEF After, AfterList
  <2>4. Follows(step, l)
      BY <1>3, <1>4, <2>1, <2>3 DEF Follows
  <2>5. \A c \in ChapterId : ~Had(c)'
      BY <1>2, <2>1 DEF Had
  <2>6. step # "idle"
      BY <2>3
  <2>. QED
      BY <1>2, <2>2, <2>4, <2>5, <2>6, FollowStays, TrackedStep
<1>7. CASE chapters # <<>>
  <2>1. PICK step, k : step = LoopStep[loop] /\ k = [l EXCEPT !.todo = chapters] /\ To(e, step, k)
      BY <1>1, <1>7 DEF ListChapters
  <2>2. k.op = l.op /\ k.old = l.old /\ k.todo = chapters
      BY <2>1 DEF LocRec
  <2>3. step = IF loop = "remap" THEN "remapRead" ELSE "chapter"
      BY <1>3, <2>1 DEF LoopStep
  <2>4. \A c \in ChapterId : Had(c) => c \in TodoIds(k)
      BY <1>5, <2>2 DEF TodoIds, Ids, ToSet
  <2>5. Follows(step, k)
      BY <1>3, <1>4, <2>2, <2>3, <2>4 DEF Follows
  <2>. QED
      BY <1>2, <2>1, <2>3, <2>5, FollowStays, TrackedStep
<1>. QED
    BY <1>6, <1>7

LEMMA OrderFollows ==
    ASSUME Shape, SoloInv, FollowInv, solo # NoSolo, Tracked, NEW e \in Editor, ReadOrder(e)
    PROVE  FollowInv'
<1>1. PICK l \in LocRec : /\ l = loc[e] /\ Fits(scale, "order", l) /\ Follows("order", l)
                          /\ l.op = solo.op /\ l.op.kind \in PageKind /\ IsPageOp(l.op)
    BY TrackedHas DEF ReadOrder
<1>2. UNCHANGED <<pages, members, solo>> /\ at[e] # "idle"
    BY DEF ReadOrder, Reads, Quiet, dbVars
<1>3. PICK k : k = [l EXCEPT !.order = pages] /\ To(e, "list", k)
    BY <1>1 DEF ReadOrder
<1>4. k.op = l.op /\ k.old = l.old
    BY <1>3 DEF LocRec
<1>5. Follows("list", k)
    BY <1>1, <1>4 DEF Follows
<1>. QED
    BY <1>2, <1>3, <1>5, FollowStays, TrackedStep

\* A round of either loop over the chapters is over.
LEMMA RoundFollows ==
    ASSUME Shape, SoloInv, FollowInv, solo # NoSolo, Tracked, UNCHANGED <<pages, solo>>, NEW e \in Editor,
           NEW CONSTANT l \in LocRec, NEW CONSTANT here, l = loc[e], here = at[e],
           here \in {"remapRead", "remapWrite", "members", "dropChapter"},
           l.todo # <<>>, DistinctIds(l.todo), l.op.kind \in PageKind,
           here \in {"remapRead", "remapWrite"} => l.op.kind = "replace",
           l.op.kind \in {"delete", "replace"} => l.old = solo.pages[l.op.i],
           NextChapter(e),
           here \in {"remapRead", "remapWrite"} =>
               \A c \in ChapterId : Had(c)' =>
                   IF c \in TodoIds(l) \ {Head(l.todo).id} THEN Untouched(c)' ELSE Renamed(c)',
           here \in {"members", "dropChapter"} =>
               \A c \in ChapterId : Had(c)' =>
                   IF c \in TodoIds(l) \ {Head(l.todo).id} THEN Renamed(c)' ELSE Reconciled(c)'
    PROVE  FollowInv'
<1>1. PICK step, k : step = RoundStep(here, l) /\ k = RoundLoc(l)
    OBVIOUS
<1>2. To(e, step, k) /\ at[e] # "idle" /\ solo' = solo
    BY <1>1 DEF NextChapter, RoundStep, RoundLoc
<1>3. /\ TodoIds(k) = TodoIds(l) \ {Head(l.todo).id}
      /\ ~(Len(l.todo) > 1) => TodoIds(k) = {}
      /\ k.op = l.op /\ k.old = l.old
  <2>1. k.old = l.old
      BY <1>1 DEF RoundLoc, LocRec
  <2>. QED
      BY <1>1, <2>1, HeadLeft, TodoLeft
<1>4. CASE here \in {"remapRead", "remapWrite"}
  <2>1. step = IF Len(l.todo) > 1 THEN "remapRead" ELSE "order"
      BY <1>1, <1>4 DEF RoundStep, LoopOf, LoopStep, After
  <2>2. \A c \in ChapterId : Had(c)' => IF c \in TodoIds(k) THEN Untouched(c)' ELSE Renamed(c)'
      BY <1>3, <1>4
  <2>3. Follows(step, k)'
      BY <1>2, <1>3, <2>1, <2>2 DEF Follows
  <2>. QED
      BY <1>2, <2>1, <2>3, TrackedStep
<1>5. CASE here \in {"members", "dropChapter"}
  <2>1. step = IF Len(l.todo) > 1 THEN "chapter" ELSE IF l.op.kind = "add" THEN "snapshot" ELSE "upsert"
      BY <1>1, <1>5 DEF RoundStep, LoopOf, LoopStep, After, AfterList, PageKind
  <2>2. \A c \in ChapterId : Had(c)' => IF c \in TodoIds(k) THEN Renamed(c)' ELSE Reconciled(c)'
      BY <1>3, <1>5
  <2>3. ~(Len(l.todo) > 1) => \A c \in ChapterId : Had(c)' => Reconciled(c)'
      BY <1>3, <2>2
  <2>4. step # "snapshot" => Follows(step, k)'
      BY <1>2, <1>3, <2>1, <2>2, <2>3 DEF Follows
  <2>5. step = "snapshot" => \A c \in ChapterId : Had(c)' => Reconciled(c)'
      BY <2>1, <2>3
  <2>6. step # "idle"
      BY <2>1
  <2>. QED
      BY <1>2, <2>4, <2>5, <2>6, TrackedStep
<1>. QED
    BY <1>4, <1>5

\* The image a replacement renames.
LEMMA RenamedIsDue ==
    ASSUME solo \in SoloRec, NEW CONSTANT l, l.op = solo.op, l.op.kind = "replace",
           l.old = solo.pages[l.op.i], NEW CONSTANT c \in ChapterId, Had(c)
    PROVE  LET now == Remapped(l, solo.members[c])
           IN  now # <<>> /\ ToSet(now) = Half(c)
<1>1. solo.members[c] \in Seq(Image) /\ solo.members[c] # <<>>
    BY DEF SoloRec, Had
<1>2. Half(c) = IF l.old \in ToSet(solo.members[c])
                THEN (ToSet(solo.members[c]) \ {l.old}) \cup {l.op.img} ELSE ToSet(solo.members[c])
    BY DEF Half, Due, Expected
<1>3. PICK was \in Seq(Image) : was = solo.members[c]
    BY <1>1
<1>. QED
    BY <1>1, <1>2, <1>3, RenamedSet

LEMMA RemapFollows ==
    ASSUME Shape, SoloInv, FollowInv, solo # NoSolo, Tracked, NEW e \in Editor, RemapRead(e)
    PROVE  FollowInv'
<1>1. PICK l \in LocRec : /\ l = loc[e] /\ Fits(scale, "remapRead", l) /\ Follows("remapRead", l)
                          /\ l.op = solo.op /\ l.op.kind \in PageKind /\ solo \in SoloRec
    BY TrackedHas DEF RemapRead
<1>2. UNCHANGED <<pages, members, solo>> /\ at[e] = "remapRead"
    BY DEF RemapRead, Reads, Quiet, dbVars
<1>3. l.op.kind = "replace" /\ l.todo # <<>> /\ DistinctIds(l.todo)
    BY <1>1 DEF Fits, KindFits, InLoop
<1>4. PICK c0, was, now : /\ c0 = Head(l.todo).id /\ was = members[c0] /\ now = Remapped(l, was)
                          /\ (now = was /\ NextChapter(e)) \/ To(e, "remapWrite", [l EXCEPT !.mem = now])
    BY <1>1 DEF RemapRead
<1>5. /\ l.old = solo.pages[l.op.i]
      /\ \A c \in ChapterId : Had(c) => IF c \in TodoIds(l) THEN Untouched(c) ELSE Renamed(c)
    BY <1>1, <1>3 DEF Follows
<1>6. c0 \in TodoIds(l) /\ c0 \in ChapterId
    BY <1>3, <1>4, HeadLeft
<1>7. CASE now = was /\ NextChapter(e)
  <2>1. Had(c0) => Renamed(c0)
    <3>. SUFFICES ASSUME Had(c0) PROVE Renamed(c0)
        OBVIOUS
    <3>1. was = solo.members[c0]
        BY <1>4, <1>5, <1>6 DEF Untouched
    <3>2. now # <<>> /\ ToSet(now) = Half(c0)
        BY <1>1, <1>3, <1>4, <1>5, <1>6, <3>1, RenamedIsDue
    <3>. QED
        BY <1>4, <1>7, <3>2 DEF Renamed
  <2>2. \A c \in ChapterId : Had(c) => IF c \in TodoIds(l) \ {c0} THEN Untouched(c) ELSE Renamed(c)
      BY <1>5, <2>1
  <2>3. \A c \in ChapterId : Had(c)' => IF c \in TodoIds(l) \ {c0} THEN Untouched(c)' ELSE Renamed(c)'
      BY <1>2, <2>2 DEF Had, Untouched, Renamed, Half, Due
  <2>. QED
      BY <1>1, <1>2, <1>3, <1>4, <1>5, <1>7, <2>3, RoundFollows
<1>8. CASE To(e, "remapWrite", [l EXCEPT !.mem = now])
  <2>1. PICK k : k = [l EXCEPT !.mem = now] /\ To(e, "remapWrite", k)
      BY <1>8
  <2>2. k.op = l.op /\ k.old = l.old /\ k.todo = l.todo /\ k.mem = now
      BY <2>1 DEF LocRec
  <2>3. TodoIds(k) = TodoIds(l) /\ k.mem = Remapped(k, members[Head(k.todo).id])
    <3>1. TodoIds(k) = TodoIds(l)
        BY <2>2 DEF TodoIds
    <3>2. \A m : Remapped(k, m) = Remapped(l, m)
        BY <2>2 DEF Remapped
    <3>3. Head(k.todo) = Head(l.todo)
        BY <2>2
    <3>. QED
        BY <1>4, <2>2, <3>1, <3>2, <3>3
  <2>4. Follows("remapWrite", k)
      BY <1>5, <2>2, <2>3 DEF Follows
  <2>. QED
      BY <1>2, <2>1, <2>4, FollowStays, TrackedStep
<1>. QED
    BY <1>4, <1>7, <1>8

\* What a chapter keeps is what is due of it.
LEMMA MembersFollow ==
    ASSUME Shape, SoloInv, FollowInv, solo # NoSolo, Tracked, NEW e \in Editor, ReadMembers(e)
    PROVE  FollowInv'
<1>1. PICK l \in LocRec : /\ l = loc[e] /\ Fits(scale, "chapter", l) /\ Follows("chapter", l)
                          /\ Knows("chapter", l)
                          /\ l.op = solo.op /\ l.op.kind \in PageKind /\ solo \in SoloRec
    BY TrackedHas DEF ReadMembers
<1>2. UNCHANGED <<pages, members, solo>> /\ at[e] # "idle"
    BY DEF ReadMembers, Reads, Quiet, dbVars
<1>3. l.todo # <<>> /\ DistinctIds(l.todo) /\ WellMade(scale, l.op) /\ l.order = pages
    BY <1>1 DEF Fits, InLoop, Knows, KnowsPage, Reconciles
<1>4. PICK c0 : c0 = Head(l.todo).id
    OBVIOUS
<1>5. c0 \in TodoIds(l) /\ c0 \in ChapterId
    BY <1>3, <1>4, HeadLeft
<1>6. PICK step, k : /\ k = [l EXCEPT !.mem = Kept(l, members[c0])]
                     /\ step = IF Kept(l, members[c0]) = <<>> THEN "dropChapter" ELSE "range"
                     /\ To(e, step, k)
    BY <1>1, <1>4 DEF ReadMembers
<1>7. /\ k.op = l.op /\ k.old = l.old /\ k.todo = l.todo /\ k.mem = Kept(l, members[c0])
      /\ TodoIds(k) = TodoIds(l)
    BY <1>6 DEF LocRec, TodoIds
<1>8. /\ l.op.kind \in {"delete", "replace"} => l.old = solo.pages[l.op.i]
      /\ \A c \in ChapterId : Had(c) => IF c \in TodoIds(l) THEN Renamed(c) ELSE Reconciled(c)
    BY <1>1 DEF Follows
<1>9. Had(c0) => ToSet(k.mem) = Due(c0) \cap ToSet(pages)
  <2>. SUFFICES ASSUME Had(c0) PROVE ToSet(k.mem) = Due(c0) \cap ToSet(pages)
      OBVIOUS
  <2>1. members[c0] # <<>> /\ ToSet(members[c0]) = Half(c0)
      BY <1>5, <1>8 DEF Renamed
  <2>2. ~(l.op.kind = "reorder" /\ l.op.ch = Head(l.todo).id)
    <3>1. l.op.kind = "reorder" => l.op.ch = 0
        BY <1>1, <1>3 DEF Tracked, WellMade
    <3>. QED
        BY <1>4, <1>5, <3>1 DEF ChapterId
  <2>3. PICK want : want = ToSet(members[c0]) \ (IF l.op.kind = "delete" THEN {l.old} ELSE {})
      OBVIOUS
  <2>4. k.mem = Filter(pages, want)
      BY <1>3, <1>7, <2>1, <2>2, <2>3 DEF Kept
  <2>5. want = Due(c0)
    <3>1. CASE l.op.kind = "delete"
      <4>1. Due(c0) = ToSet(solo.members[c0]) \ {solo.pages[l.op.i]} /\ Half(c0) = ToSet(solo.members[c0])
          BY <1>1, <3>1 DEF Due, Half, Expected
      <4>. QED
          BY <1>8, <2>1, <2>3, <3>1, <4>1
    <3>2. CASE l.op.kind # "delete"
        BY <1>1, <2>1, <2>3, <3>2 DEF Half
    <3>. QED
        BY <3>1, <3>2
  <2>6. ToSet(Filter(pages, want)) = ToSet(pages) \cap want
      BY FilterKeeps, TrackedHas
  <2>. QED
      BY <2>4, <2>5, <2>6
<1>10. step \in {"dropChapter", "range"} /\ (step = "dropChapter" => k.mem = <<>>)
    BY <1>6, <1>7
<1>11. Follows(step, k)
    BY <1>4, <1>7, <1>8, <1>9, <1>10 DEF Follows
<1>. QED
    BY <1>2, <1>6, <1>10, <1>11, FollowStays, TrackedStep

LEMMA RangeFollows ==
    ASSUME Shape, SoloInv, FollowInv, solo # NoSolo, Tracked, NEW e \in Editor, UpdateRange(e)
    PROVE  FollowInv'
<1>1. PICK l \in LocRec : /\ l = loc[e] /\ Follows("range", l) /\ IsPageOp(l.op)
    BY TrackedHas DEF UpdateRange
<1>2. UNCHANGED <<pages, members, solo>> /\ at[e] # "idle" /\ To(e, "members", l)
    BY <1>1 DEF UpdateRange, Quiet
<1>3. Follows("members", l)
    BY <1>1 DEF Follows
<1>. QED
    BY <1>2, <1>3, FollowStays, TrackedStep

LEMMA WriteMembersFollow ==
    ASSUME Shape, SoloInv, FollowInv, solo # NoSolo, Tracked, NEW e \in Editor, WriteMembers(e)
    PROVE  FollowInv'
<1>. PICK here : here = at[e]
    OBVIOUS
<1>1. PICK l \in LocRec : /\ l = loc[e] /\ Fits(scale, here, l) /\ Follows(here, l)
                          /\ l.op = solo.op /\ l.op.kind \in PageKind /\ solo \in SoloRec
    BY TrackedHas DEF WriteMembers, WritingMembers
<1>2. here \in {"members", "remapWrite"} /\ (here = "remapWrite" => l.op.kind = "replace")
    BY <1>1 DEF WriteMembers, WritingMembers, Fits, KindFits, PageKind
<1>3. l.todo # <<>> /\ DistinctIds(l.todo)
    BY <1>1, <1>2 DEF Fits, InLoop
<1>4. PICK c0 : c0 = Head(l.todo).id
    OBVIOUS
<1>5. /\ members' = [members EXCEPT ![c0] = l.mem] /\ UNCHANGED <<pages, solo>> /\ NextChapter(e)
    BY <1>1, <1>3, <1>4 DEF WriteMembers, Target, Quiet
<1>6. c0 \in TodoIds(l) /\ c0 \in ChapterId /\ members \in [ChapterId -> Seq(Image)]
    BY <1>3, <1>4, HeadLeft, TrackedHas
<1>7. l.op.kind \in {"delete", "replace"} => l.old = solo.pages[l.op.i]
    BY <1>1, <1>2 DEF Follows
<1>8. \A c \in ChapterId : members'[c] = IF c = c0 THEN l.mem ELSE members[c]
    BY <1>5, <1>6
<1>9. \A c : Had(c)' = Had(c) /\ Due(c)' = Due(c) /\ Half(c)' = Half(c)
    BY <1>5 DEF Had, Due, Half
<1>10. CASE here = "remapWrite"
  <2>1. /\ \A c \in ChapterId : Had(c) => IF c \in TodoIds(l) THEN Untouched(c) ELSE Renamed(c)
        /\ l.mem = Remapped(l, members[c0])
      BY <1>1, <1>4, <1>10 DEF Follows
  <2>2. Had(c0) => Renamed(c0)'
    <3>. SUFFICES ASSUME Had(c0) PROVE Renamed(c0)'
        OBVIOUS
    <3>1. l.mem = Remapped(l, solo.members[c0])
        BY <1>6, <2>1 DEF Untouched
    <3>2. l.mem # <<>> /\ ToSet(l.mem) = Half(c0)
        BY <1>1, <1>2, <1>6, <1>7, <1>10, <3>1, RenamedIsDue
    <3>. QED
        BY <1>6, <1>8, <1>9, <3>2 DEF Renamed
  <2>3. ASSUME NEW c \in ChapterId, Had(c)'
        PROVE  IF c \in TodoIds(l) \ {c0} THEN Untouched(c)' ELSE Renamed(c)'
    <3>1. CASE c = c0
        BY <1>9, <2>2, <2>3, <3>1
    <3>2. CASE c # c0
        BY <1>5, <1>8, <1>9, <2>1, <2>3, <3>2 DEF Untouched, Renamed
    <3>. QED
        BY <3>1, <3>2
  <2>. QED
      BY <1>1, <1>2, <1>3, <1>4, <1>5, <1>7, <1>10, <2>3, RoundFollows
<1>11. CASE here = "members"
  <2>1. /\ \A c \in ChapterId : Had(c) => IF c \in TodoIds(l) THEN Renamed(c) ELSE Reconciled(c)
        /\ Had(c0) => ToSet(l.mem) = Due(c0) \cap ToSet(pages)
      BY <1>1, <1>4, <1>11 DEF Follows
  <2>2. ASSUME NEW c \in ChapterId, Had(c)'
        PROVE  IF c \in TodoIds(l) \ {c0} THEN Renamed(c)' ELSE Reconciled(c)'
    <3>1. CASE c = c0
        BY <1>5, <1>6, <1>8, <1>9, <2>1, <2>2, <3>1 DEF Reconciled
    <3>2. CASE c # c0
        BY <1>5, <1>8, <1>9, <2>1, <2>2, <3>2 DEF Renamed, Reconciled
    <3>. QED
        BY <3>1, <3>2
  <2>. QED
      BY <1>1, <1>2, <1>3, <1>4, <1>5, <1>7, <1>11, <2>2, RoundFollows
<1>. QED
    BY <1>2, <1>10, <1>11

LEMMA DropChapterFollows ==
    ASSUME Shape, SoloInv, FollowInv, solo # NoSolo, Tracked, NEW e \in Editor, DropChapter(e)
    PROVE  FollowInv'
<1>1. PICK l \in LocRec : /\ l = loc[e] /\ Fits(scale, "dropChapter", l) /\ Follows("dropChapter", l)
                          /\ l.op = solo.op /\ l.op.kind \in PageKind
    BY TrackedHas DEF DropChapter
<1>2. l.todo # <<>> /\ DistinctIds(l.todo)
    BY <1>1 DEF Fits, InLoop, PageKind
<1>3. PICK c0 : c0 = Head(l.todo).id
    OBVIOUS
<1>4. /\ members' = [members EXCEPT ![c0] = <<>>] /\ UNCHANGED <<pages, solo>> /\ NextChapter(e)
      /\ at[e] = "dropChapter"
    BY <1>1, <1>2, <1>3 DEF DropChapter, Target, Quiet
<1>5. c0 \in TodoIds(l) /\ c0 \in ChapterId /\ members \in [ChapterId -> Seq(Image)]
    BY <1>2, <1>3, HeadLeft, TrackedHas
<1>6. \A c \in ChapterId : members'[c] = IF c = c0 THEN <<>> ELSE members[c]
    BY <1>4, <1>5
<1>7. \A c : Had(c)' = Had(c) /\ Due(c)' = Due(c) /\ Half(c)' = Half(c)
    BY <1>4 DEF Had, Due, Half
<1>8. /\ l.op.kind \in {"delete", "replace"} => l.old = solo.pages[l.op.i]
      /\ \A c \in ChapterId : Had(c) => IF c \in TodoIds(l) THEN Renamed(c) ELSE Reconciled(c)
      /\ Had(c0) => ToSet(l.mem) = Due(c0) \cap ToSet(pages)
      /\ l.mem = <<>>
    BY <1>1, <1>3 DEF Follows
<1>9. ASSUME NEW c \in ChapterId, Had(c)'
      PROVE  IF c \in TodoIds(l) \ {c0} THEN Renamed(c)' ELSE Reconciled(c)'
  <2>1. CASE c = c0
      BY <1>4, <1>5, <1>6, <1>7, <1>8, <1>9, <2>1 DEF Reconciled
  <2>2. CASE c # c0
      BY <1>4, <1>6, <1>7, <1>8, <1>9, <2>2 DEF Renamed, Reconciled
  <2>. QED
      BY <2>1, <2>2
<1>. QED
    BY <1>1, <1>2, <1>3, <1>4, <1>8, <1>9, RoundFollows

LEMMA SnapshotFollows ==
    ASSUME Shape, SoloInv, FollowInv, solo # NoSolo, Tracked, NEW e \in Editor, Snapshot(e)
    PROVE  FollowInv'
<1>1. Follows("snapshot", NoLoc)
    BY DEF Snapshot, FollowInv, Shape, EditorsFit, Fits
<1>2. UNCHANGED <<pages, members, solo>> /\ at[e] # "idle" /\ To(e, "idle", NoLoc)
    BY DEF Snapshot, dbVars, Stop
<1>3. \A c \in ChapterId : Had(c) => Reconciled(c)
    BY <1>1 DEF Follows
<1>4. MembershipFollows'
    BY <1>2, <1>3 DEF MembershipFollows, Had, Reconciled, Due
<1>. QED
    BY <1>2, <1>4, TrackedStep

LEMMA FollowStep ==
    ASSUME Shape, SoloInv, FollowInv, [Next]_vars
    PROVE  FollowInv'
<1>1. ASSUME NEW part \in {"page", "chapter", "work"}, BeginOps(part) PROVE FollowInv'
    BY <1>1, BeginFollows DEF BeginOps
<1>2. ASSUME NEW e \in Editor, Step(e) PROVE FollowInv'
  <2>1. CASE solo' = NoSolo
      BY <2>1 DEF FollowInv
  <2>2. solo' = solo \/ solo' = NoSolo
      BY <1>2 DEF Step, EditStep, ReadPages, Rejected, Upsert, WritePages, WritePagesFails,
         ListChapters, RemapRead, ReadOrder, ReadMembers, UpdateRange, WriteMembers,
         WriteMembersFails, DropChapter, InsertChapter, InsertChapterFails, DropWork, Fail,
         DropFiles, Snapshot, Abandon, Quiet, Reads
  <2>3. CASE solo' = solo /\ ~Tracked
      BY <2>3 DEF FollowInv, Tracked
  <2>4. CASE solo' = solo /\ Tracked /\ solo # NoSolo
    <3>1. ~(Rejected(e) \/ WritePagesFails(e) \/ WriteMembersFails(e) \/ InsertChapterFails(e) \/ Fail(e))
        BY <2>4 DEF Rejected, WritePagesFails, WriteMembersFails, InsertChapterFails, Fail, Abandon
    <3>2. ~(InsertChapter(e) \/ DropWork(e) \/ DropFiles(e))
      <4>1. at[e] \notin {"insertChapter", "dropWork", "dropFiles"}
          BY <2>4, TrackedHas DEF Fits, KindFits, PageKind
      <4>. QED
          BY <4>1 DEF InsertChapter, DropWork, DropFiles
    <3>. QED
        BY <1>2, <2>4, <3>1, <3>2, ReadFollows, UpsertFollows, WriteFollows, ListFollows, RemapFollows,
           OrderFollows, MembersFollow, RangeFollows, WriteMembersFollow, DropChapterFollows,
           SnapshotFollows DEF Step, EditStep
  <2>. QED
      BY <2>1, <2>2, <2>3, <2>4
<1>3. CASE UNCHANGED vars
  <2>1. UNCHANGED <<pages, members, at, loc, solo>>
      BY <1>3 DEF vars, dbVars
  <2>2. MembershipFollows' = MembershipFollows /\ Tracked' = Tracked
      BY <2>1 DEF MembershipFollows, AllIdle, Tracked
  <2>3. ASSUME NEW e \in Editor, Follows(at[e], loc[e]) PROVE Follows(at[e], loc[e])'
    <3>1. PICK step, k : step = at[e] /\ k = loc[e]
        OBVIOUS
    <3>2. Follows(step, k)'
        BY <2>1, <2>3, <3>1, FollowStays
    <3>. QED
        BY <2>1, <3>1, <3>2
  <2>. QED
      BY <2>1, <2>2, <2>3 DEF FollowInv
<1>. QED
    BY <1>1, <1>2, <1>3 DEF Next, Done

\* The pages of a chapter stay in it wherever a page operation moves them and
\* whatever it inserts, deletes or replaces around them, for any number of
\* pages and chapters: the chapter the editor sees is the one that was made.
THEOREM ChaptersKeepTheirPages == Spec => []MembershipFollows
<1>1. Init => FollowInv
    BY DEF Init, FollowInv
<1>2. FollowInv => MembershipFollows
  <2>1. solo = NoSolo => ~IsPageOp(solo.op)
      BY DEF NoSolo, NoOp, Op, IsPageOp
  <2>. QED
      BY <2>1 DEF FollowInv, MembershipFollows, Tracked
<1>. QED
    BY <1>1, <1>2, FollowStep, SoloAtFirst, SoloStep, ShapeHolds, PTL DEF Spec

\* What the operation that runs alone knows holds at every step of it.
LEMMA SoloHolds == Spec => []SoloInv
<1>. QED
    BY SoloAtFirst, SoloStep, ShapeHolds, PTL DEF Spec

-----------------------------------------------------------------------------
(* Downloads leave the editors alone.                                      *)

LEMMA DownloadsOnlyRead ==
    ASSUME [DownloadNext]_<<vars, downloadVars>>
    PROVE  [Next]_vars
<1>1. ASSUME NEW part \in {"page", "chapter", "work"}, BeginEdit(part) PROVE Next
    BY <1>1 DEF BeginEdit, Next
<1>2. ASSUME NEW e \in Editor, Edit(e) \/ TakeSnapshot(e) \/ RemoveFiles(e) PROVE Next
    BY <1>2 DEF Edit, TakeSnapshot, RemoveFiles, Next, Step
<1>3. ASSUME NEW d \in Reader, Download(d) PROVE UNCHANGED vars
    BY <1>3 DEF Download, Ask, Lookup, ExportPages, ExportChapters, ExportFolder, OpenArchive,
                CloseArchive, WriteMeta, CheckPublished, PutArchive, FillPublished, FailDownload,
                OnlyDownload
<1>4. CASE AllDone
    BY <1>4 DEF AllDone, Next
<1>. QED
    BY <1>1, <1>2, <1>3, <1>4 DEF DownloadNext

\* With any number of downloads beside them the editors do what they do
\* without: what holds of ComicPages holds of ComicDownloads.
THEOREM DownloadsLeaveEditorsAlone == DownloadSpec => Spec
<1>1. DownloadInit => Init
    BY DEF DownloadInit
<1>. QED
    BY <1>1, DownloadsOnlyRead, PTL DEF DownloadSpec, Spec

-----------------------------------------------------------------------------
(* Downloads.                                                              *)

DlStep == {"idle", "lookup", "pages", "chapters", "folder", "open", "close", "meta", "publish", "put",
           "fill"}
DlRec  == [step : DlStep, key : Nat, pages : Seq(Image), chapters : Seq(ChRec), k : Nat,
           folder : Seq(Nat)]

\* Every key in use is 0 or the number of a snapshot that was made, and two
\* downloads of one key have met.
FilesFit ==
    /\ last \in Nat /\ current \in 0..last
    /\ versions \subseteq 1..last
    /\ meta \subseteq 0..last /\ DOMAIN archive \subseteq 0..last /\ DOMAIN published \subseteq 0..last
    /\ dl \in [Reader -> DlRec]
    /\ \A d \in Reader :
          /\ dl[d].key <= last /\ (dl[d].step = "idle" => dl[d].key = 0)
          /\ dl[d].step \in {"chapters", "folder"} => Len(dl[d].folder) = Len(dl[d].pages)
          /\ dl[d].step = "folder" => dl[d].k \in 1..Len(dl[d].chapters)
    /\ \A d, r \in Reader :
          /\ dl[d].step # "idle" /\ dl[r].step # "idle" /\ dl[d].key = dl[r].key
          /\ dl[d].key \notin crowded
          => d = r

\* The chapters that have the n-th page.
Having(n) == {k \in DOMAIN chapters : pages[n] \in ToSet(members[chapters[k].id])}

\* The chapters before the k-th have been given their pages.
Sorted(folder, k) ==
    /\ Len(folder) = Len(pages)
    /\ \A n \in DOMAIN pages :
          \/ folder[n] = 0 /\ \A j \in Having(n) : k <= j
          \/ folder[n] \in Having(n) /\ folder[n] < k /\ \A j \in Having(n) : folder[n] <= j

Finished(key) == key \in DOMAIN archive /\ archive[key] = Exported

\* What a download of the current version has seen and made.
Builds(l) ==
    /\ l.step \in {"pages", "chapters", "folder", "open", "close", "meta"} => current \notin meta
    /\ l.step \in {"chapters", "folder", "open", "close"} => l.pages = pages
    /\ l.step \in {"folder", "open", "close"} => l.chapters = chapters
    /\ l.step = "chapters" => \A n \in DOMAIN pages : l.folder[n] = 0
    /\ l.step = "folder" => Sorted(l.folder, l.k)
    /\ l.step \in {"open", "close"} => Sorted(l.folder, Len(chapters) + 1)
    /\ l.step \in {"meta", "publish", "put", "fill"} => Finished(current)

\* The store has the archive, or a file that is being filled or was not.
Stored(key) ==
    \/ published[key] = Exported
    \/ published[key] = Torn /\ (key \in cut \/ Filled(key))

CurrentFiles ==
    /\ current \in meta => Finished(current)
    /\ current \in DOMAIN published => Stored(current)
    /\ \A d \in Reader : dl[d].key = current => Builds(dl[d])

CurrentInv ==
    current # 0 =>
        /\ AllIdle /\ row.alive /\ Consistent /\ current = last /\ current \in versions
        /\ current \notin crowded => CurrentFiles

\* The newest of the versions, while the current one is the latest.
LEMMA KeyNow ==
    ASSUME FilesFit
    PROVE  /\ CurrentKey \in 0..last
           /\ current # 0 /\ current = last /\ current \in versions => CurrentKey = current
<1>1. last \in Nat /\ versions \subseteq 1..last
    BY DEF FilesFit
<1>2. versions # {} => Newest \in versions /\ \A v \in versions : v <= Newest
  <2>1. versions \subseteq Nat /\ \A v \in versions : v <= last
      BY <1>1
  <2>. QED
      BY <1>1, <2>1, GreatestNatural DEF Newest
<1>3. current # 0 /\ current = last /\ current \in versions => Newest = last
  <2>. SUFFICES ASSUME current = last, current \in versions PROVE Newest = last
      OBVIOUS
  <2>1. Newest \in 1..last /\ last <= Newest
      BY <1>1, <1>2
  <2>. QED
      BY <1>1, <2>1
<1>4. versions # {} => Newest \in 1..last
    BY <1>1, <1>2
<1>. QED
    BY <1>1, <1>3, <1>4 DEF CurrentKey

\* An archive that was sorted to the last chapter is the one to be given.
LEMMA SortedIsExported ==
    ASSUME Shape, NEW folder \in Seq(Nat), Sorted(folder, Len(chapters) + 1)
    PROVE  Whole(pages, Len(chapters), folder) = Exported
<1>1. /\ pages \in Seq(Image) /\ chapters \in Seq(ChRec) /\ Len(chapters) \in Nat
      /\ DOMAIN chapters = 1..Len(chapters)
    BY DEF Shape, TablesFit
<1>2. DOMAIN folder = DOMAIN pages /\ folder = [n \in DOMAIN pages |-> folder[n]]
    BY <1>1 DEF Sorted
<1>3. ASSUME NEW n \in DOMAIN pages
      PROVE  folder[n] = IF Having(n) = {} THEN 0 ELSE Min(Having(n))
  <2>1. Having(n) \subseteq Nat /\ 0 \notin Having(n) /\ \A j \in Having(n) : j <= Len(chapters)
      BY <1>1 DEF Having
  <2>2. \/ folder[n] = 0 /\ \A j \in Having(n) : Len(chapters) + 1 <= j
        \/ folder[n] \in Having(n) /\ \A j \in Having(n) : folder[n] <= j
      BY <1>3 DEF Sorted
  <2>3. CASE Having(n) = {}
      BY <2>2, <2>3
  <2>4. CASE Having(n) # {}
    <3>1. Min(Having(n)) \in Having(n) /\ \A j \in Having(n) : Min(Having(n)) <= j
        BY <2>1, <2>4, LeastNatural
    <3>2. folder[n] \in Having(n) /\ \A j \in Having(n) : folder[n] <= j
        BY <1>1, <2>1, <2>2, <3>1
    <3>3. folder[n] <= Min(Having(n)) /\ Min(Having(n)) <= folder[n]
          /\ folder[n] \in Nat /\ Min(Having(n)) \in Nat
        BY <2>1, <3>1, <3>2
    <3>4. folder[n] = Min(Having(n))
        BY <3>3
    <3>. QED
        BY <2>4, <3>4
  <2>. QED
      BY <2>3, <2>4
<1>4. folder = [n \in DOMAIN pages |-> IF Having(n) = {} THEN 0 ELSE Min(Having(n))]
    BY <1>2, <1>3
<1>. QED
    BY <1>4 DEF Exported, Having

\* What a download changes, it changes of its own key.
Touches(key) ==
    /\ \A j : j # key => (j \in meta' <=> j \in meta)
    /\ \A j : j # key => (j \in DOMAIN archive' <=> j \in DOMAIN archive)
    /\ \A j \in DOMAIN archive : j # key => archive'[j] = archive[j]
    /\ \A j : j # key => (j \in DOMAIN published' <=> j \in DOMAIN published)
    /\ \A j \in DOMAIN published : j # key => published'[j] = published[j]

\* The comic stays as it is under a download.
LEMMA ComicStays ==
    ASSUME UNCHANGED vars
    PROVE  /\ UNCHANGED <<scale, row, pages, chapters, members, lastId, version, at, loc, ops, solo>>
           /\ AllIdle' = AllIdle /\ Consistent' = Consistent /\ Exported' = Exported
           /\ \A folder, k : Sorted(folder, k)' = Sorted(folder, k)
<1>1. UNCHANGED <<scale, row, pages, chapters, members, lastId, version, at, loc, ops, solo>>
    BY DEF vars, dbVars
<1>2. AllIdle' = AllIdle /\ Consistent' = Consistent /\ Exported' = Exported
    BY <1>1 DEF AllIdle, Consistent, CountMatches, ChaptersFollowPages, VersionIsCurrent, Exported
<1>3. \A folder, k : Sorted(folder, k)' = Sorted(folder, k)
    BY <1>1 DEF Sorted, Having
<1>. QED
    BY <1>1, <1>2, <1>3

\* What is in the store stays so while a download goes on, unless it was about
\* to fill it.
LEMMA StoredStays ==
    ASSUME UNCHANGED <<vars, published>>, cut \subseteq cut',
           dl \in [Reader -> DlRec], NEW d \in Reader, NEW CONSTANT m, dl' = [dl EXCEPT ![d] = m],
           dl[d].step = "fill" => dl[d].key \in cut',
           NEW key, Stored(key)
    PROVE  Stored(key)'
<1>1. Exported' = Exported
    BY ComicStays
<1>2. ASSUME NEW r \in Reader, dl[r].step = "fill", dl[r].key = key PROVE key \in cut' \/ Filled(key)'
  <2>1. r # d => dl'[r] = dl[r]
      OBVIOUS
  <2>. QED
      BY <1>2, <2>1 DEF Filled
<1>. QED
    BY <1>1, <1>2 DEF Stored, Filled

\* A download goes on.
LEMMA DownloadMoves ==
    ASSUME FilesFit, CurrentInv, UNCHANGED <<vars, versions, last, current, crowded>>,
           cut \subseteq cut',
           NEW d \in Reader, NEW CONSTANT m \in DlRec, NEW CONSTANT key,
           dl' = [dl EXCEPT ![d] = m], dl[d].step # "idle", key = dl[d].key,
           IF m.step = "idle" THEN m.key = 0 ELSE m.key = key,
           m.step \in {"chapters", "folder"} => Len(m.folder) = Len(m.pages),
           m.step = "folder" => m.k \in 1..Len(m.chapters),
           Touches(key),
           current = key /\ current # 0 /\ current \notin crowded /\ CurrentFiles /\ Consistent =>
               /\ key \in meta' => Finished(key)'
               /\ key \in DOMAIN published' => Stored(key)'
               /\ m.step # "idle" => Builds(m)'
    PROVE  FilesFit' /\ CurrentInv'
<1>1. /\ last \in Nat /\ dl \in [Reader -> DlRec] /\ key <= last /\ key \in Nat
      /\ current \in 0..last
    BY DEF FilesFit, DlRec
<1>2. dl'[d] = m /\ \A r \in Reader : r # d => dl'[r] = dl[r]
    BY <1>1
<1>3. FilesFit'
  <2>1. dl' \in [Reader -> DlRec]
      BY <1>1
  <2>2. meta' \subseteq 0..last /\ DOMAIN archive' \subseteq 0..last /\ DOMAIN published' \subseteq 0..last
    <3>1. /\ meta \subseteq 0..last /\ DOMAIN archive \subseteq 0..last
          /\ DOMAIN published \subseteq 0..last /\ key \in 0..last
        BY <1>1 DEF FilesFit
    <3>2. \A j : j # key => /\ j \in meta' => j \in meta
                            /\ j \in DOMAIN archive' => j \in DOMAIN archive
                            /\ j \in DOMAIN published' => j \in DOMAIN published
        BY Zenon DEF Touches
    <3>3. \A S : (\A j \in S : j # key => j \in 0..last) => S \subseteq 0..last
        BY <3>1
    <3>. QED
        BY <3>1, <3>2, <3>3, Zenon
  <2>3. ASSUME NEW r \in Reader
        PROVE  /\ dl'[r].key <= last /\ (dl'[r].step = "idle" => dl'[r].key = 0)
               /\ dl'[r].step \in {"chapters", "folder"} => Len(dl'[r].folder) = Len(dl'[r].pages)
               /\ dl'[r].step = "folder" => dl'[r].k \in 1..Len(dl'[r].chapters)
    <3>1. CASE r = d
        BY <1>1, <1>2, <3>1
    <3>2. CASE r # d
        BY <1>2, <3>2 DEF FilesFit
    <3>. QED
        BY <3>1, <3>2
  <2>4. ASSUME NEW r \in Reader, NEW q \in Reader, dl'[r].step # "idle", dl'[q].step # "idle",
               dl'[r].key = dl'[q].key, dl'[r].key \notin crowded'
        PROVE  r = q
    <3>1. dl[r].step # "idle" /\ dl[r].key = dl'[r].key
        BY <1>2, <2>4
    <3>2. dl[q].step # "idle" /\ dl[q].key = dl'[q].key
        BY <1>2, <2>4
    <3>. QED
        BY <2>4, <3>1, <3>2 DEF FilesFit
  <2>5. /\ last' \in Nat /\ current' \in 0..last' /\ versions' \subseteq 1..last'
      BY DEF FilesFit
  <2>. QED
      BY <2>1, <2>2, <2>3, <2>4, <2>5 DEF FilesFit
<1>4. CurrentInv'
  <2>. SUFFICES ASSUME current # 0 PROVE CurrentInv'
      BY DEF CurrentInv
  <2>1. AllIdle' /\ row'.alive /\ Consistent' /\ current' = last' /\ current' \in versions' /\ Consistent
      BY ComicStays DEF CurrentInv
  <2>2. ASSUME current \notin crowded PROVE CurrentFiles'
    <3>1. CurrentFiles
        BY <2>2 DEF CurrentInv
    <3>2. Exported' = Exported
        BY ComicStays
    <3>3. CASE current = key
      <4>1. /\ key \in meta' => Finished(key)'
            /\ key \in DOMAIN published' => Stored(key)'
            /\ m.step # "idle" => Builds(m)'
          BY <2>1, <2>2, <3>1, <3>3
      <4>2. ASSUME NEW r \in Reader, dl'[r].key = current PROVE Builds(dl[r])'
        <5>1. CASE r # d
          <6>1. dl[r].key = key /\ dl[r].step # "idle"
              BY <1>2, <3>3, <4>2, <5>1 DEF FilesFit
          <6>. QED
              BY <2>2, <3>3, <5>1, <6>1 DEF FilesFit
        <5>2. CASE r = d
          <6>1. m.step # "idle" /\ dl'[r] = m
              BY <1>2, <4>2, <5>2
          <6>. QED
              BY <4>1, <6>1
        <5>. QED
            BY <5>1, <5>2
      <4>. QED
          BY <3>2, <3>3, <4>1, <4>2 DEF CurrentFiles
    <3>4. CASE current # key
      <4>1. Finished(current) => Finished(current)'
          BY <3>2, <3>4 DEF Touches, Finished
      <4>2. ASSUME NEW r \in Reader, dl'[r].key = current PROVE Builds(dl[r])'
        <5>1. r # d /\ dl'[r] = dl[r]
            BY <1>2, <3>4, <4>2
        <5>2. PICK l : l = dl[r]
            OBVIOUS
        <5>3. Builds(l)
            BY <3>1, <4>2, <5>1, <5>2 DEF CurrentFiles
        <5>4. Builds(l)'
            BY <3>4, <4>1, <5>3, ComicStays DEF Builds, Touches
        <5>. QED
            BY <5>1, <5>2, <5>4
      <4>3. current \in meta' => Finished(current)'
          BY <3>1, <3>4, <4>1 DEF CurrentFiles, Touches
      <4>4. current \in DOMAIN published' => Stored(current)'
        <5>1. ASSUME current \in DOMAIN published'
              PROVE  Stored(current) /\ published'[current] = published[current]
            BY <3>1, <3>4, <5>1 DEF CurrentFiles, Touches
        <5>2. Filled(current) => Filled(current)'
            BY <1>2, <3>4 DEF Filled
        <5>. QED
            BY <3>2, <5>1, <5>2 DEF Stored
      <4>. QED
          BY <3>2, <4>2, <4>3, <4>4 DEF CurrentFiles
    <3>. QED
        BY <3>3, <3>4
  <2>. QED
      BY <2>1, <2>2 DEF CurrentInv
<1>. QED
    BY <1>3, <1>4

\* An editor's step begins something, or goes on while nothing is current, or
\* takes the snapshot that becomes the current version.
LEMMA EditorsFiles ==
    ASSUME Shape, SoloInv, FilesFit, CurrentInv,
           \/ \E part \in {"page", "chapter", "work"} : BeginEdit(part)
           \/ \E e \in Editor : Edit(e) \/ TakeSnapshot(e) \/ RemoveFiles(e)
    PROVE  FilesFit' /\ CurrentInv'
<1>1. ASSUME NEW part \in {"page", "chapter", "work"}, BeginEdit(part)
      PROVE  FilesFit' /\ CurrentInv'
  <2>1. current' = 0 /\ UNCHANGED <<versions, last, archive, meta, published, dl, crowded>>
      BY <1>1 DEF BeginEdit, fileVars
  <2>2. FilesFit'
      BY <2>1 DEF FilesFit
  <2>. QED
      BY <2>1, <2>2 DEF CurrentInv
<1>2. ASSUME NEW e \in Editor, at[e] # "idle" PROVE current = 0
    BY <1>2 DEF CurrentInv, AllIdle
<1>3. ASSUME NEW e \in Editor, Edit(e) PROVE FilesFit' /\ CurrentInv'
  <2>1. UNCHANGED <<versions, last, archive, meta, published, dl, crowded, current>>
      BY <1>3 DEF Edit, downloadVars, fileVars
  <2>2. at[e] # "idle"
      BY <1>3 DEF Edit, EditStep, ReadPages, Rejected, Upsert, WritePages, WritePagesFails, ListChapters,
                  RemapRead, ReadOrder, ReadMembers, UpdateRange, WriteMembers, WriteMembersFails,
                  WritingMembers, DropChapter, InsertChapter, InsertChapterFails, DropWork, Fail
  <2>3. FilesFit'
      BY <2>1 DEF FilesFit
  <2>. QED
      BY <1>2, <2>1, <2>2, <2>3 DEF CurrentInv
<1>4. ASSUME NEW e \in Editor, TakeSnapshot(e) PROVE FilesFit' /\ CurrentInv'
  <2>1. /\ UNCHANGED <<archive, meta, published, dl, crowded>> /\ Snapshot(e)
        /\ at[e] = "snapshot" /\ UNCHANGED <<row, solo>> /\ at' = [at EXCEPT ![e] = "idle"]
      BY <1>4 DEF TakeSnapshot, Snapshot, Stop, To, dbVars
  <2>2. /\ last \in Nat /\ versions \subseteq 1..last /\ current = 0
        /\ meta \subseteq 0..last /\ DOMAIN archive \subseteq 0..last
        /\ DOMAIN published \subseteq 0..last /\ dl \in [Reader -> DlRec]
        /\ \A d \in Reader : dl[d].key <= last
      BY <1>2, <2>1 DEF FilesFit
  <2>3. CASE ~row.alive
    <3>1. UNCHANGED <<versions, last, current>>
        BY <1>4, <2>3 DEF TakeSnapshot
    <3>2. FilesFit'
        BY <2>1, <3>1 DEF FilesFit
    <3>. QED
        BY <2>2, <3>1, <3>2 DEF CurrentInv
  <2>4. CASE row.alive
    <3>1. /\ versions' = versions \cup {last + 1} /\ last' = last + 1
          /\ current' = IF Repairs(solo) THEN last + 1 ELSE 0
        BY <1>4, <2>4 DEF TakeSnapshot
    <3>2. FilesFit'
      <4>1. \A S : S \subseteq 0..last => S \subseteq 0..last'
          BY <2>2, <3>1
      <4>2. last' \in Nat /\ current' \in 0..last' /\ versions' \subseteq 1..last'
          BY <2>2, <3>1
      <4>3. /\ meta' \subseteq 0..last' /\ DOMAIN archive' \subseteq 0..last'
            /\ DOMAIN published' \subseteq 0..last'
          BY <2>1, <2>2, <4>1
      <4>4. \A d \in Reader : dl[d].key \in Nat /\ dl[d].key <= last + 1
          BY <2>2 DEF DlRec
      <4>5. \A d \in Reader : dl'[d].key <= last'
          BY <2>1, <3>1, <4>4
      <4>. QED
          BY <2>1, <4>2, <4>3, <4>5 DEF FilesFit
    <3>3. ASSUME Repairs(solo) PROVE CurrentInv'
      <4>1. solo # NoSolo
          BY <3>3 DEF Repairs, NoSolo, NoOp, Op, IsPageOp
      <4>2. AllIdle'
        <5>1. \A f \in Editor : at[f] # "idle" => f = e
            BY <2>1, <4>1 DEF SoloInv, Alone
        <5>2. at \in [Editor -> StepName]
            BY DEF Shape, EditorsFit
        <5>3. \A f \in Editor : at'[f] = "idle"
            BY <2>1, <5>1, <5>2
        <5>. QED
            BY <5>3 DEF AllIdle
      <4>3. Consistent'
          BY <2>1, <2>4, <3>3, <4>1, SnapshotKnows
      <4>4. current' = last + 1 /\ current' = last' /\ current' \in versions' /\ row'.alive
          BY <2>1, <2>4, <3>1, <3>3
      <4>5. /\ last + 1 \notin meta' /\ last + 1 \notin DOMAIN published'
            /\ \A d \in Reader : dl'[d].key # last + 1
        <5>1. last + 1 \notin 0..last
            BY <2>2
        <5>2. \A d \in Reader : dl[d].key \in 0..last
            BY <2>2 DEF DlRec
        <5>. QED
            BY <2>1, <2>2, <5>1, <5>2
      <4>6. CurrentFiles'
          BY <4>4, <4>5, Zenon DEF CurrentFiles
      <4>. QED
          BY <4>2, <4>3, <4>4, <4>6 DEF CurrentInv
    <3>4. ASSUME ~Repairs(solo) PROVE CurrentInv'
        BY <3>1, <3>4 DEF CurrentInv
    <3>. QED
        BY <3>2, <3>3, <3>4
  <2>. QED
      BY <2>3, <2>4
<1>5. ASSUME NEW e \in Editor, RemoveFiles(e) PROVE FilesFit' /\ CurrentInv'
  <2>1. /\ UNCHANGED <<last, meta, dl, current, crowded>> /\ versions' = {} /\ published' = <<>>
        /\ at[e] = "dropFiles"
      BY <1>5 DEF RemoveFiles, DropFiles
  <2>2. DOMAIN archive' \subseteq DOMAIN archive
    <3>1. PICK kept \in {DOMAIN archive} \cup {DOMAIN archive \ {k} : k \in DOMAIN archive} :
              archive' = Restrict(archive, kept)
        BY <1>5 DEF RemoveFiles
    <3>2. kept \subseteq DOMAIN archive
        OBVIOUS
    <3>. QED
        BY <3>1, <3>2 DEF Restrict
  <2>3. DOMAIN published' = {}
      BY <2>1
  <2>4. current = 0
      BY <1>2, <2>1
  <2>5. FilesFit'
      BY <2>1, <2>2, <2>3 DEF FilesFit
  <2>. QED
      BY <2>1, <2>4, <2>5 DEF CurrentInv
<1>. QED
    BY <1>1, <1>3, <1>4, <1>5

\* A download asks for the newest version.
LEMMA AskMoves ==
    ASSUME FilesFit, CurrentInv, NEW d \in Reader, Ask(d)
    PROVE  FilesFit' /\ CurrentInv'
<1>1. PICK key : key = CurrentKey
    OBVIOUS
<1>2. PICK m : m = [NoDownload EXCEPT !.key = key, !.step = "lookup"]
    OBVIOUS
<1>3. /\ key \in 0..last /\ last \in Nat
      /\ current # 0 /\ current = last /\ current \in versions => key = current
    BY <1>1, KeyNow DEF FilesFit
<1>4. m \in DlRec /\ m.step = "lookup" /\ m.key = key
  <2>1. m = [step |-> "lookup", key |-> key, pages |-> <<>>, chapters |-> <<>>, k |-> 0, folder |-> <<>>]
      BY <1>2 DEF NoDownload
  <2>2. key \in Nat /\ <<>> \in Seq(Image) /\ <<>> \in Seq(ChRec) /\ <<>> \in Seq(Nat)
      BY <1>3
  <2>3. "lookup" \in DlStep
      BY DEF DlStep
  <2>. QED
      BY <2>1, <2>2, <2>3 DEF DlRec
<1>5. /\ dl[d].step = "idle" /\ dl' = [dl EXCEPT ![d] = m]
      /\ crowded' = IF Others(d, key) = {} THEN crowded ELSE crowded \cup {key}
      /\ UNCHANGED <<vars, versions, last, archive, meta, published, current, cut>>
    BY <1>1, <1>2 DEF Ask, Go, fileVars
<1>6. dl \in [Reader -> DlRec] /\ dl'[d] = m /\ \A r \in Reader : r # d => dl'[r] = dl[r]
    BY <1>5 DEF FilesFit
<1>7. FilesFit'
  <2>1. dl' \in [Reader -> DlRec]
      BY <1>4, <1>5, <1>6
  <2>2. ASSUME NEW r \in Reader
        PROVE  /\ dl'[r].key <= last /\ (dl'[r].step = "idle" => dl'[r].key = 0)
               /\ dl'[r].step \in {"chapters", "folder"} => Len(dl'[r].folder) = Len(dl'[r].pages)
               /\ dl'[r].step = "folder" => dl'[r].k \in 1..Len(dl'[r].chapters)
    <3>1. CASE r = d
        BY <1>3, <1>4, <1>6, <3>1
    <3>2. CASE r # d
        BY <1>6, <3>2 DEF FilesFit
    <3>. QED
        BY <3>1, <3>2
  <2>3. ASSUME NEW r \in Reader, NEW q \in Reader, dl'[r].step # "idle", dl'[q].step # "idle",
               dl'[r].key = dl'[q].key, dl'[r].key \notin crowded'
        PROVE  r = q
    <3>1. crowded \subseteq crowded'
        BY <1>5
    <3>2. CASE r # d /\ q # d
        BY <1>6, <2>3, <3>1, <3>2 DEF FilesFit
    <3>3. ASSUME NEW p \in Reader, p # d, dl'[p].step # "idle", dl'[p].key = key, key \notin crowded'
          PROVE FALSE
      <4>1. p \in Others(d, key)
          BY <1>6, <3>3 DEF Others
      <4>. QED
          BY <1>5, <3>3, <4>1
    <3>4. CASE r = d /\ q # d
        BY <1>4, <1>6, <2>3, <3>3, <3>4
    <3>5. CASE q = d /\ r # d
        BY <1>4, <1>6, <2>3, <3>3, <3>5
    <3>. QED
        BY <3>2, <3>4, <3>5
  <2>. QED
      BY <1>5, <2>1, <2>2, <2>3 DEF FilesFit
<1>8. CurrentInv'
  <2>. SUFFICES ASSUME current # 0 PROVE CurrentInv'
      BY <1>5 DEF CurrentInv
  <2>1. AllIdle' /\ row'.alive /\ Consistent' /\ current' = last' /\ current' \in versions'
      BY <1>5, ComicStays DEF CurrentInv
  <2>2. key = current
      BY <1>3 DEF CurrentInv
  <2>3. ASSUME current \notin crowded' PROVE CurrentFiles'
    <3>1. CurrentFiles
        BY <1>5, <2>3 DEF CurrentInv
    <3>2. Exported' = Exported
        BY <1>5, ComicStays
    <3>3. Finished(current) => Finished(current)'
        BY <1>5, <3>2 DEF Finished
    <3>4. ASSUME NEW r \in Reader, dl'[r].key = current PROVE Builds(dl[r])'
      <4>1. PICK l : l = dl'[r]
          OBVIOUS
      <4>2. CASE r = d
          BY <1>4, <1>6, <4>1, <4>2 DEF Builds
      <4>3. CASE r # d
        <5>1. Builds(l)
            BY <1>6, <3>1, <3>4, <4>1, <4>3 DEF CurrentFiles
        <5>2. Builds(l)'
            BY <1>5, <3>3, <5>1, ComicStays DEF Builds
        <5>. QED
            BY <4>1, <5>2
      <4>. QED
          BY <4>2, <4>3
    <3>5. Stored(current) => Stored(current)'
        BY <1>5, <1>6, StoredStays
    <3>. QED
        BY <1>5, <3>1, <3>3, <3>4, <3>5 DEF CurrentFiles
  <2>. QED
      BY <1>5, <2>1, <2>3 DEF CurrentInv
<1>. QED
    BY <1>7, <1>8

\* A download that has read, or has stopped.
LEMMA ReadsOn ==
    ASSUME FilesFit, CurrentInv, OnlyDownload, UNCHANGED <<archive, meta, published, crowded>>,
           NEW d \in Reader, NEW CONSTANT l \in DlRec, l = dl[d], l.step # "idle",
           cut \subseteq cut', l.step = "fill" => l.key \in cut',
           NEW CONSTANT m \in DlRec, dl' = [dl EXCEPT ![d] = m],
           IF m.step = "idle" THEN m.key = 0 ELSE m.key = l.key,
           m.step \in {"chapters", "folder"} => Len(m.folder) = Len(m.pages),
           m.step = "folder" => m.k \in 1..Len(m.chapters),
           current = l.key /\ CurrentFiles /\ Consistent /\ Builds(l) /\ m.step # "idle" => Builds(m)
    PROVE  FilesFit' /\ CurrentInv'
<1>1. UNCHANGED <<vars, versions, last, current, crowded, archive, meta, published>>
    BY DEF OnlyDownload
<1>2. PICK key : key = l.key
    OBVIOUS
<1>3. Touches(key)
    BY <1>1 DEF Touches
<1>4. ASSUME current = key, CurrentFiles, Consistent
      PROVE  /\ key \in meta' => Finished(key)'
             /\ key \in DOMAIN published' => Stored(key)'
             /\ m.step # "idle" => Builds(m)'
  <2>1. Exported' = Exported /\ (Finished(current)' <=> Finished(current))
      BY <1>1, ComicStays DEF Finished
  <2>2. Builds(l)
      BY <1>2, <1>4 DEF CurrentFiles
  <2>3. m.step # "idle" => Builds(m)
      BY <1>2, <1>4, <2>2
  <2>4. Builds(m) => Builds(m)'
      BY <1>1, <2>1, ComicStays DEF Builds
  <2>5. dl \in [Reader -> DlRec]
      BY DEF FilesFit
  <2>6. Stored(key) => Stored(key)'
      BY <1>1, <2>5, StoredStays
  <2>. QED
      BY <1>1, <1>4, <2>1, <2>3, <2>4, <2>6 DEF CurrentFiles
<1>. QED
    BY <1>1, <1>2, <1>3, <1>4, DownloadMoves

LEMMA Away ==
    ASSUME FilesFit, CurrentInv, OnlyDownload, UNCHANGED <<archive, meta, published, crowded>>,
           NEW d \in Reader, dl[d].step # "idle", Leave(d),
           cut \subseteq cut', dl[d].step = "fill" => dl[d].key \in cut'
    PROVE  FilesFit' /\ CurrentInv'
<1>1. PICK l \in DlRec : l = dl[d]
    BY DEF FilesFit
<1>2. PICK m : m = NoDownload
    OBVIOUS
<1>3. m \in DlRec /\ m.step = "idle" /\ m.key = 0
  <2>1. <<>> \in Seq(Image) /\ <<>> \in Seq(ChRec) /\ <<>> \in Seq(Nat) /\ "idle" \in DlStep
      BY DEF DlStep
  <2>. QED
      BY <1>2, <2>1 DEF NoDownload, DlRec
<1>4. dl' = [dl EXCEPT ![d] = m]
    BY <1>2 DEF Leave
<1>. QED
    BY <1>1, <1>3, <1>4, ReadsOn

LEMMA LookupMoves ==
    ASSUME FilesFit, CurrentInv, NEW d \in Reader, Lookup(d)
    PROVE  FilesFit' /\ CurrentInv'
<1>1. PICK l \in DlRec : l = dl[d] /\ l.step = "lookup"
    BY DEF FilesFit, Lookup
<1>2. PICK m : m = [l EXCEPT !.step = IF CacheHit(l.key) THEN "publish" ELSE "pages"]
    OBVIOUS
<1>3. m \in DlRec /\ m.key = l.key /\ m.step \in {"publish", "pages"}
      /\ (m.step = "publish" <=> CacheHit(l.key))
    BY <1>1, <1>2 DEF DlRec, DlStep
<1>4. dl' = [dl EXCEPT ![d] = m] /\ OnlyDownload /\ UNCHANGED <<archive, meta, published, crowded, cut>>
    BY <1>1, <1>2 DEF Lookup, Go
<1>5. ASSUME current = l.key, CurrentFiles PROVE Builds(m)
  <2>1. CacheHit(l.key) => Finished(current)
      BY <1>5 DEF CacheHit, CurrentFiles
  <2>2. ~CacheHit(l.key) => current \notin meta
      BY <1>5 DEF CacheHit, CurrentFiles, Finished
  <2>. QED
      BY <1>3, <2>1, <2>2 DEF Builds
<1>. QED
    BY <1>1, <1>3, <1>4, <1>5, ReadsOn

LEMMA ExportPagesMoves ==
    ASSUME Shape, FilesFit, CurrentInv, NEW d \in Reader, ExportPages(d)
    PROVE  FilesFit' /\ CurrentInv'
<1>1. PICK l \in DlRec : l = dl[d] /\ l.step = "pages"
    BY DEF FilesFit, ExportPages
<1>2. OnlyDownload /\ UNCHANGED <<archive, meta, published, crowded, cut>>
    BY DEF ExportPages
<1>3. CASE pages = <<>>
    BY <1>1, <1>2, <1>3, Away DEF ExportPages
<1>4. CASE pages # <<>>
  <2>1. PICK none : none = [n \in DOMAIN pages |-> 0]
      OBVIOUS
  <2>2. PICK m : m = [l EXCEPT !.pages = pages, !.folder = none, !.step = "chapters"]
      OBVIOUS
  <2>3. pages \in Seq(Image) /\ DOMAIN pages = 1..Len(pages) /\ Len(pages) \in Nat
      BY DEF Shape, TablesFit
  <2>4. none \in Seq(Nat) /\ Len(none) = Len(pages) /\ \A n \in DOMAIN pages : none[n] = 0
      BY <2>1, <2>3
  <2>5. m \in DlRec /\ m.key = l.key /\ m.step = "chapters" /\ m.pages = pages /\ m.folder = none
      BY <1>1, <2>2, <2>3, <2>4 DEF DlRec, DlStep
  <2>6. dl' = [dl EXCEPT ![d] = m]
      BY <1>1, <1>4, <2>1, <2>2 DEF ExportPages, Go
  <2>7. Builds(l) => Builds(m)
      BY <1>1, <2>4, <2>5 DEF Builds
  <2>. QED
      BY <1>1, <1>2, <2>4, <2>5, <2>6, <2>7, ReadsOn
<1>. QED
    BY <1>3, <1>4

LEMMA ExportChaptersMoves ==
    ASSUME Shape, FilesFit, CurrentInv, NEW d \in Reader, ExportChapters(d)
    PROVE  FilesFit' /\ CurrentInv'
<1>1. PICK l \in DlRec : l = dl[d] /\ l.step = "chapters" /\ Len(l.folder) = Len(l.pages)
    BY DEF FilesFit, ExportChapters
<1>2. PICK m : m = [l EXCEPT !.chapters = chapters, !.k = 1,
                             !.step = IF chapters = <<>> THEN "open" ELSE "folder"]
    OBVIOUS
<1>3. /\ chapters \in Seq(ChRec) /\ DOMAIN chapters = 1..Len(chapters) /\ Len(chapters) \in Nat
      /\ chapters = <<>> <=> Len(chapters) = 0
    BY DEF Shape, TablesFit
<1>4. /\ m \in DlRec /\ m.key = l.key /\ m.step = (IF chapters = <<>> THEN "open" ELSE "folder")
      /\ m.chapters = chapters /\ m.k = 1 /\ m.folder = l.folder /\ m.pages = l.pages
    BY <1>1, <1>2, <1>3 DEF DlRec, DlStep
<1>5. dl' = [dl EXCEPT ![d] = m] /\ OnlyDownload /\ UNCHANGED <<archive, meta, published, crowded, cut>>
    BY <1>1, <1>2 DEF ExportChapters, Go
<1>6. m.step = "folder" => 1 \in 1..Len(chapters)
    BY <1>3, <1>4
<1>7. ASSUME Builds(l) PROVE Builds(m)
  <2>1. l.pages = pages /\ \A n \in DOMAIN pages : l.folder[n] = 0
      BY <1>1, <1>7 DEF Builds
  <2>2. \A n, j : j \in Having(n) => 1 <= j
      BY <1>3 DEF Having
  <2>3. Sorted(l.folder, 1)
      BY <1>1, <2>1, <2>2 DEF Sorted
  <2>4. m.step = "open" => Len(chapters) + 1 = 1
      BY <1>3, <1>4
  <2>. QED
      BY <1>1, <1>4, <1>7, <2>1, <2>3, <2>4 DEF Builds
<1>. QED
    BY <1>1, <1>4, <1>5, <1>6, <1>7, ReadsOn

\* The folders after the pages of the k-th chapter have been given theirs.
Given(l, mine) == [n \in DOMAIN l.pages |->
                      IF l.folder[n] = 0 /\ l.pages[n] \in mine THEN l.k ELSE l.folder[n]]

LEMMA SortedOn ==
    ASSUME Shape, Consistent, NEW CONSTANT l \in DlRec, l.pages = pages, l.chapters = chapters,
           l.k \in 1..Len(chapters), Sorted(l.folder, l.k)
    PROVE  Sorted(Given(l, FolderPages(l.pages, l.chapters[l.k])), l.k + 1)
<1>1. /\ chapters \in Seq(ChRec) /\ DOMAIN chapters = 1..Len(chapters) /\ Len(chapters) \in Nat
      /\ pages \in Seq(Image) /\ DOMAIN pages = 1..Len(pages) /\ Len(pages) \in Nat
      /\ members \in [ChapterId -> Seq(Image)]
    BY DEF Shape, TablesFit
<1>2. PICK mine : mine = FolderPages(l.pages, l.chapters[l.k])
    OBVIOUS
<1>3. PICK now : now = Given(l, mine)
    OBVIOUS
<1>4. mine = ToSet(members[chapters[l.k].id]) \cap ToSet(pages)
  <2>1. l.k \in DOMAIN chapters
      BY <1>1
  <2>2. members[chapters[l.k].id] # <<>>
      BY <2>1 DEF Consistent, ChaptersFollowPages
  <2>. QED
      BY <1>2, <2>2 DEF FolderPages
<1>5. ASSUME NEW n \in DOMAIN pages PROVE pages[n] \in mine <=> l.k \in Having(n)
    BY <1>1, <1>4, <1>5 DEF Having, ToSet
<1>6. Len(now) = Len(pages) /\ \A n \in DOMAIN pages :
          now[n] = IF l.folder[n] = 0 /\ l.k \in Having(n) THEN l.k ELSE l.folder[n]
  <2>1. now = [n \in 1..Len(pages) |->
                   IF l.folder[n] = 0 /\ pages[n] \in mine THEN l.k ELSE l.folder[n]]
      BY <1>1, <1>3 DEF Given
  <2>. QED
      BY <1>1, <1>5, <2>1
<1>7. ASSUME NEW n \in DOMAIN pages
      PROVE  \/ now[n] = 0 /\ \A j \in Having(n) : l.k + 1 <= j
             \/ now[n] \in Having(n) /\ now[n] < l.k + 1 /\ \A j \in Having(n) : now[n] <= j
  <2>1. Having(n) \subseteq 1..Len(chapters) /\ l.k \in Nat
      BY <1>1 DEF Having
  <2>2. PICK f : f = l.folder[n]
      OBVIOUS
  <2>3. \/ f = 0 /\ \A j \in Having(n) : l.k <= j
        \/ f \in Having(n) /\ f < l.k /\ \A j \in Having(n) : f <= j
      BY <2>2 DEF Sorted
  <2>4. now[n] = IF f = 0 /\ l.k \in Having(n) THEN l.k ELSE f
      BY <1>6, <2>2
  <2>5. CASE f = 0 /\ l.k \in Having(n)
      BY <2>1, <2>3, <2>4, <2>5
  <2>6. CASE f = 0 /\ l.k \notin Having(n)
    <3>1. \A j \in Having(n) : l.k <= j /\ j # l.k /\ j \in Nat
        BY <2>1, <2>3, <2>6
    <3>. QED
        BY <2>1, <2>4, <2>6, <3>1
  <2>7. CASE f # 0
      BY <2>1, <2>3, <2>4, <2>7
  <2>. QED
      BY <2>5, <2>6, <2>7
<1>. QED
    BY <1>2, <1>3, <1>6, <1>7 DEF Sorted

LEMMA ExportFolderMoves ==
    ASSUME Shape, FilesFit, CurrentInv, NEW d \in Reader, ExportFolder(d)
    PROVE  FilesFit' /\ CurrentInv'
<1>1. PICK l \in DlRec : /\ l = dl[d] /\ l.step = "folder" /\ Len(l.folder) = Len(l.pages)
                         /\ l.k \in 1..Len(l.chapters)
    BY DEF FilesFit, ExportFolder
<1>2. PICK now : now = Given(l, FolderPages(l.pages, l.chapters[l.k]))
    OBVIOUS
<1>3. PICK step : step = IF l.k = Len(l.chapters) THEN "open" ELSE "folder"
    OBVIOUS
<1>4. PICK m : m = [l EXCEPT !.folder = now, !.k = l.k + 1, !.step = step]
    OBVIOUS
<1>5. now \in Seq(Nat) /\ Len(now) = Len(l.pages)
  <2>1. l.pages \in Seq(Image) /\ l.folder \in Seq(Nat) /\ l.k \in Nat
      BY DEF DlRec
  <2>2. DOMAIN l.pages = 1..Len(l.pages) /\ Len(l.pages) \in Nat /\ DOMAIN l.folder = 1..Len(l.pages)
      BY <1>1, <2>1
  <2>3. \A n \in 1..Len(l.pages) : l.folder[n] \in Nat
      BY <2>1, <2>2
  <2>4. now \in [1..Len(l.pages) -> Nat]
      BY <1>2, <2>1, <2>2, <2>3 DEF Given
  <2>. QED
      BY <2>2, <2>4
<1>6. /\ m \in DlRec /\ m.key = l.key /\ m.step = step /\ m.folder = now /\ m.pages = l.pages
      /\ m.chapters = l.chapters /\ m.k = l.k + 1 /\ step \in {"open", "folder"}
  <2>1. l.k + 1 \in Nat /\ step \in {"open", "folder"} /\ step \in DlStep
      BY <1>3 DEF DlRec, DlStep
  <2>. QED
      BY <1>4, <1>5, <2>1 DEF DlRec
<1>7. dl' = [dl EXCEPT ![d] = m] /\ OnlyDownload /\ UNCHANGED <<archive, meta, published, crowded, cut>>
  <2>1. dl' = [dl EXCEPT ![d] = [[l EXCEPT !.folder = now, !.k = @ + 1] EXCEPT !.step = step]]
      BY <1>1, <1>2, <1>3 DEF ExportFolder, Go, Given
  <2>2. [[l EXCEPT !.folder = now, !.k = @ + 1] EXCEPT !.step = step] = m
      BY <1>4 DEF DlRec
  <2>. QED
      BY <2>1, <2>2 DEF ExportFolder
<1>8. m.step = "folder" => m.k \in 1..Len(m.chapters)
  <2>1. l.k \in Nat /\ l.chapters \in Seq(ChRec) /\ Len(l.chapters) \in Nat
      BY DEF DlRec
  <2>. QED
      BY <1>1, <1>3, <1>6, <2>1
<1>9. ASSUME Consistent, Builds(l) PROVE Builds(m)
  <2>1. l.pages = pages /\ l.chapters = chapters /\ Sorted(l.folder, l.k)
      BY <1>1, <1>9 DEF Builds
  <2>2. Sorted(now, l.k + 1)
      BY <1>1, <1>2, <1>9, <2>1, SortedOn
  <2>3. m.step = "open" => l.k + 1 = Len(chapters) + 1
      BY <1>3, <1>6, <2>1
  <2>. QED
      BY <1>1, <1>6, <1>9, <2>1, <2>2, <2>3 DEF Builds
<1>. QED
    BY <1>1, <1>5, <1>6, <1>7, <1>8, <1>9, ReadsOn

LEMMA OpenArchiveMoves ==
    ASSUME FilesFit, CurrentInv, NEW d \in Reader, OpenArchive(d)
    PROVE  FilesFit' /\ CurrentInv'
<1>1. PICK l \in DlRec : l = dl[d] /\ l.step = "open"
    BY DEF FilesFit, OpenArchive
<1>2. PICK m : m = [l EXCEPT !.step = "close"]
    OBVIOUS
<1>3. PICK key : key = l.key
    OBVIOUS
<1>4. /\ m \in DlRec /\ m.step = "close" /\ m.key = key
      /\ m.pages = l.pages /\ m.chapters = l.chapters /\ m.folder = l.folder
    BY <1>2, <1>3 DEF DlRec, DlStep
<1>5. /\ dl' = [dl EXCEPT ![d] = m] /\ archive' = With(archive, key, Torn)
      /\ UNCHANGED <<vars, versions, last, current, crowded, meta, published, cut>>
    BY <1>1, <1>2, <1>3 DEF OpenArchive, Go, OnlyDownload
<1>6. Touches(key)
  <2>1. /\ DOMAIN archive' = DOMAIN archive \cup {key} /\ archive'[key] = Torn
        /\ \A j \in DOMAIN archive : j # key => archive'[j] = archive[j]
      BY <1>5 DEF With
  <2>. QED
      BY <1>5, <2>1 DEF Touches
<1>7. ASSUME current = key, CurrentFiles
      PROVE  /\ key \in meta' => Finished(key)'
             /\ key \in DOMAIN published' => Stored(key)'
             /\ Builds(m)'
  <2>1. Builds(l)
      BY <1>1, <1>3, <1>7 DEF CurrentFiles
  <2>2. key \notin meta
      BY <1>1, <1>7, <2>1 DEF Builds
  <2>3. Builds(m)'
      BY <1>1, <1>4, <1>5, <2>1, ComicStays DEF Builds
  <2>7. Stored(key) => Stored(key)'
      BY <1>1, <1>5, StoredStays DEF FilesFit
  <2>. QED
      BY <1>5, <1>7, <2>2, <2>3, <2>7 DEF CurrentFiles
<1>. QED
    BY <1>1, <1>3, <1>4, <1>5, <1>6, <1>7, DownloadMoves

LEMMA CloseArchiveMoves ==
    ASSUME Shape, FilesFit, CurrentInv, NEW d \in Reader, CloseArchive(d)
    PROVE  FilesFit' /\ CurrentInv'
<1>1. PICK l \in DlRec : l = dl[d] /\ l.step = "close"
    BY DEF FilesFit, CloseArchive
<1>2. PICK m : m = [l EXCEPT !.step = "meta"]
    OBVIOUS
<1>3. PICK key : key = l.key
    OBVIOUS
<1>4. m \in DlRec /\ m.step = "meta" /\ m.key = key
    BY <1>2, <1>3 DEF DlRec, DlStep
<1>5. PICK result : /\ archive' = With(archive, key, result)
                    /\ key \notin crowded => result = Whole(l.pages, Len(l.chapters), l.folder)
    BY <1>1, <1>3 DEF CloseArchive
<1>6. /\ dl' = [dl EXCEPT ![d] = m]
      /\ UNCHANGED <<vars, versions, last, current, crowded, meta, published, cut>>
    BY <1>1, <1>2 DEF CloseArchive, Go, OnlyDownload
<1>7. Touches(key) /\ key \in DOMAIN archive' /\ archive'[key] = result
  <2>1. /\ DOMAIN archive' = DOMAIN archive \cup {key} /\ archive'[key] = result
        /\ \A j \in DOMAIN archive : j # key => archive'[j] = archive[j]
      BY <1>5 DEF With
  <2>. QED
      BY <1>6, <2>1 DEF Touches
<1>8. ASSUME current = key, current \notin crowded, CurrentFiles
      PROVE  /\ key \in meta' => Finished(key)'
             /\ key \in DOMAIN published' => Stored(key)'
             /\ Builds(m)'
  <2>1. Builds(l)
      BY <1>1, <1>3, <1>8 DEF CurrentFiles
  <2>2. /\ current \notin meta /\ l.pages = pages /\ l.chapters = chapters
        /\ Sorted(l.folder, Len(chapters) + 1) /\ l.folder \in Seq(Nat)
      BY <1>1, <2>1 DEF Builds, DlRec
  <2>3. result = Exported
      BY <1>5, <1>8, <2>2, SortedIsExported
  <2>4. Finished(current)'
      BY <1>6, <1>7, <1>8, <2>3, ComicStays DEF Finished
  <2>5. Builds(m)'
      BY <1>4, <1>6, <2>2, <2>4 DEF Builds
  <2>7. Stored(key) => Stored(key)'
      BY <1>1, <1>6, StoredStays DEF FilesFit
  <2>. QED
      BY <1>6, <1>8, <2>4, <2>5, <2>7 DEF CurrentFiles
<1>. QED
    BY <1>1, <1>3, <1>4, <1>6, <1>7, <1>8, DownloadMoves

LEMMA WriteMetaMoves ==
    ASSUME FilesFit, CurrentInv, NEW d \in Reader, WriteMeta(d)
    PROVE  FilesFit' /\ CurrentInv'
<1>1. PICK l \in DlRec : l = dl[d] /\ l.step = "meta"
    BY DEF FilesFit, WriteMeta
<1>2. PICK m : m = [l EXCEPT !.step = "publish"]
    OBVIOUS
<1>3. PICK key : key = l.key
    OBVIOUS
<1>4. m \in DlRec /\ m.step = "publish" /\ m.key = key
    BY <1>2, <1>3 DEF DlRec, DlStep
<1>5. /\ dl' = [dl EXCEPT ![d] = m] /\ meta' = meta \cup {key}
      /\ UNCHANGED <<vars, versions, last, current, crowded, archive, published, cut>>
    BY <1>1, <1>2, <1>3 DEF WriteMeta, Go, OnlyDownload
<1>6. Touches(key)
    BY <1>5 DEF Touches
<1>7. ASSUME current = key, CurrentFiles
      PROVE  /\ key \in meta' => Finished(key)'
             /\ key \in DOMAIN published' => Stored(key)'
             /\ Builds(m)'
  <2>1. Finished(current)
      BY <1>1, <1>3, <1>7 DEF CurrentFiles, Builds
  <2>2. Finished(current)'
      BY <1>5, <2>1, ComicStays DEF Finished
  <2>3. Builds(m)'
      BY <1>4, <2>2 DEF Builds
  <2>7. Stored(key) => Stored(key)'
      BY <1>1, <1>5, StoredStays DEF FilesFit
  <2>. QED
      BY <1>5, <1>7, <2>2, <2>3, <2>7 DEF CurrentFiles
<1>. QED
    BY <1>1, <1>3, <1>4, <1>5, <1>6, <1>7, DownloadMoves

LEMMA CheckPublishedMoves ==
    ASSUME FilesFit, CurrentInv, NEW d \in Reader, CheckPublished(d)
    PROVE  FilesFit' /\ CurrentInv'
<1>1. PICK l \in DlRec : l = dl[d] /\ l.step = "publish"
    BY DEF FilesFit, CheckPublished
<1>2. OnlyDownload /\ UNCHANGED <<archive, meta, published, crowded, cut>>
    BY DEF CheckPublished
<1>3. CASE l.key \in DOMAIN published
    BY <1>1, <1>2, <1>3, Away DEF CheckPublished
<1>4. CASE l.key \notin DOMAIN published
  <2>1. PICK m : m = [l EXCEPT !.step = "put"]
      OBVIOUS
  <2>2. m \in DlRec /\ m.step = "put" /\ m.key = l.key
      BY <2>1 DEF DlRec, DlStep
  <2>3. dl' = [dl EXCEPT ![d] = m]
      BY <1>1, <1>4, <2>1 DEF CheckPublished, Go
  <2>4. Builds(l) => Builds(m)
      BY <1>1, <2>2 DEF Builds
  <2>. QED
      BY <1>1, <1>2, <2>2, <2>3, <2>4, ReadsOn
<1>. QED
    BY <1>3, <1>4

LEMMA PutArchiveMoves ==
    ASSUME FilesFit, CurrentInv, NEW d \in Reader, PutArchive(d)
    PROVE  FilesFit' /\ CurrentInv'
<1>1. PICK l \in DlRec : l = dl[d] /\ l.step = "put"
    BY DEF FilesFit, PutArchive
<1>2. PICK m : m = [l EXCEPT !.step = "fill"]
    OBVIOUS
<1>3. PICK key : key = l.key
    OBVIOUS
<1>4. m \in DlRec /\ m.step = "fill" /\ m.key = key
    BY <1>2, <1>3 DEF DlRec, DlStep
<1>5. /\ dl' = [dl EXCEPT ![d] = m] /\ published' = With(published, key, Torn)
      /\ UNCHANGED <<vars, versions, last, current, crowded, archive, meta, cut>>
    BY <1>1, <1>2, <1>3 DEF PutArchive, Go, OnlyDownload
<1>6. Touches(key) /\ published'[key] = Torn
  <2>1. /\ DOMAIN published' = DOMAIN published \cup {key} /\ published'[key] = Torn
        /\ \A j \in DOMAIN published : j # key => published'[j] = published[j]
      BY <1>5 DEF With
  <2>. QED
      BY <1>5, <2>1 DEF Touches
<1>7. ASSUME current = key, CurrentFiles
      PROVE  /\ key \in meta' => Finished(key)'
             /\ key \in DOMAIN published' => Stored(key)'
             /\ Builds(m)'
  <2>1. Finished(current)
      BY <1>1, <1>3, <1>7 DEF CurrentFiles, Builds
  <2>2. Finished(current)'
      BY <1>5, <2>1, ComicStays DEF Finished
  <2>3. dl'[d] = m
      BY <1>5 DEF FilesFit
  <2>4. Stored(key)'
    <3>1. Filled(key)'
        BY <1>4, <2>3 DEF Filled
    <3>. QED
        BY <1>6, <3>1 DEF Stored, Torn
  <2>5. Builds(m)'
      BY <1>4, <2>2 DEF Builds
  <2>. QED
      BY <1>5, <1>7, <2>2, <2>4, <2>5
<1>. QED
    BY <1>1, <1>3, <1>4, <1>5, <1>6, <1>7, DownloadMoves

LEMMA FillPublishedMoves ==
    ASSUME FilesFit, CurrentInv, NEW d \in Reader, FillPublished(d)
    PROVE  FilesFit' /\ CurrentInv'
<1>1. PICK l \in DlRec : l = dl[d] /\ l.step = "fill"
    BY DEF FilesFit, FillPublished
<1>2. PICK m : m = NoDownload
    OBVIOUS
<1>3. PICK key : key = l.key
    OBVIOUS
<1>4. m \in DlRec /\ m.step = "idle" /\ m.key = 0
  <2>1. <<>> \in Seq(Image) /\ <<>> \in Seq(ChRec) /\ <<>> \in Seq(Nat) /\ "idle" \in DlStep
      BY DEF DlStep
  <2>. QED
      BY <1>2, <2>1 DEF NoDownload, DlRec
<1>5. /\ dl' = [dl EXCEPT ![d] = m]
      /\ UNCHANGED <<vars, versions, last, current, crowded, archive, meta, cut>>
    BY <1>1, <1>2, <1>3 DEF FillPublished, Leave, OnlyDownload
<1>6. \/ key \notin DOMAIN published /\ published' = published
      \/ \E file : /\ published' = With(published, key, file)
                   /\ key \notin crowded => file = archive[key]
    BY <1>1, <1>3 DEF FillPublished
<1>7. Touches(key) /\ (key \in DOMAIN published' /\ key \notin crowded => published'[key] = archive[key])
  <2>1. CASE key \notin DOMAIN published /\ published' = published
      BY <1>5, <2>1 DEF Touches
  <2>2. ASSUME NEW file, published' = With(published, key, file), key \notin crowded => file = archive[key]
        PROVE  Touches(key) /\ (key \notin crowded => published'[key] = archive[key])
    <3>1. /\ DOMAIN published' = DOMAIN published \cup {key} /\ published'[key] = file
          /\ \A j \in DOMAIN published : j # key => published'[j] = published[j]
        BY <2>2 DEF With
    <3>. QED
        BY <1>5, <2>2, <3>1 DEF Touches
  <2>. QED
      BY <1>6, <2>1, <2>2
<1>8. ASSUME current = key, current \notin crowded, CurrentFiles
      PROVE  /\ key \in meta' => Finished(key)'
             /\ key \in DOMAIN published' => Stored(key)'
  <2>1. Finished(current)
      BY <1>1, <1>3, <1>8 DEF CurrentFiles, Builds
  <2>2. Finished(current)' /\ Exported' = Exported
      BY <1>5, <2>1, ComicStays DEF Finished
  <2>3. archive[key] = Exported /\ (key \in meta' => Finished(key)')
      BY <1>5, <1>8, <2>1, <2>2 DEF Finished
  <2>4. key \in DOMAIN published' => published'[key] = Exported'
      BY <1>7, <1>8, <2>2, <2>3
  <2>. QED
      BY <2>3, <2>4 DEF Stored
<1>. QED
    BY <1>1, <1>3, <1>4, <1>5, <1>7, <1>8, DownloadMoves

\* One step of the editors or of a download.
LEMMA FilesStep ==
    ASSUME Shape, SoloInv, FilesFit, CurrentInv, [DownloadNext]_<<vars, downloadVars>>
    PROVE  FilesFit' /\ CurrentInv'
<1>1. ASSUME NEW d \in Reader, Download(d) PROVE FilesFit' /\ CurrentInv'
  <2>1. ASSUME FailDownload(d) PROVE FilesFit' /\ CurrentInv'
      BY <2>1, Away DEF FailDownload
  <2>. QED
      BY <1>1, <2>1, AskMoves, LookupMoves, ExportPagesMoves, ExportChaptersMoves, ExportFolderMoves,
         OpenArchiveMoves, CloseArchiveMoves, WriteMetaMoves, CheckPublishedMoves, PutArchiveMoves,
         FillPublishedMoves
         DEF Download
<1>2. ASSUME UNCHANGED <<vars, downloadVars>> PROVE FilesFit' /\ CurrentInv'
  <2>1. UNCHANGED <<versions, last, archive, meta, published, dl, current, crowded, cut>> /\ UNCHANGED vars
      BY <1>2 DEF downloadVars, fileVars
  <2>2. FilesFit'
      BY <2>1 DEF FilesFit
  <2>3. CurrentFiles => CurrentFiles'
    <3>1. Exported' = Exported /\ (Finished(current)' <=> Finished(current))
        BY <2>1, ComicStays DEF Finished
    <3>2. ASSUME NEW d \in Reader, Builds(dl[d]) PROVE Builds(dl[d])'
        BY <2>1, <3>1, <3>2, ComicStays DEF Builds
    <3>3. Stored(current) => Stored(current)'
        BY <2>1, <3>1 DEF Stored, Filled
    <3>. QED
        BY <2>1, <3>2, <3>3, <3>1 DEF CurrentFiles
  <2>4. UNCHANGED row /\ AllIdle' = AllIdle /\ Consistent' = Consistent
      BY <2>1, ComicStays
  <2>. QED
      BY <2>1, <2>2, <2>3, <2>4 DEF CurrentInv
<1>3. CASE AllDone
    BY <1>2, <1>3 DEF AllDone, Done
<1>. QED
    BY <1>1, <1>2, <1>3, EditorsFiles DEF DownloadNext

LEMMA FilesAtFirst == DownloadInit => FilesFit /\ CurrentInv
<1>. SUFFICES ASSUME DownloadInit PROVE FilesFit /\ CurrentInv
    OBVIOUS
<1>1. NoDownload \in DlRec /\ NoDownload.step = "idle" /\ NoDownload.key = 0
  <2>1. <<>> \in Seq(Image) /\ <<>> \in Seq(ChRec) /\ <<>> \in Seq(Nat) /\ "idle" \in DlStep
      BY DEF DlStep
  <2>. QED
      BY <2>1 DEF NoDownload, DlRec
<1>2. DOMAIN archive = {} /\ DOMAIN published = {}
    BY DEF DownloadInit
<1>. QED
    BY <1>1, <1>2 DEF DownloadInit, FilesFit, CurrentInv

\* Once an operation has run alone to its end a download gives the comic as it
\* is now and whole, for any number of editors, downloads, pages and versions,
\* whatever failed or died before: the archive in the cache always, the one in
\* the store unless it is being put there at the moment or a put of it was cut
\* short, when it is a torn file (media.py writes in place), never an old comic.
THEOREM DownloadsGiveTheComic == DownloadSpec => []DownloadsAreCurrent
<1>1. FilesFit /\ CurrentInv => DownloadsAreCurrent
    BY DEF CurrentInv, CurrentFiles, Stored, DownloadsAreCurrent, CacheHit, Finished
<1>. QED
    BY <1>1, FilesAtFirst, FilesStep, DownloadsLeaveEditorsAlone, ShapeHolds, SoloHolds, PTL DEF DownloadSpec

=============================================================================
