--------------------------- MODULE RegistryProofs ---------------------------
(***************************************************************************)
(* The registry that BuildRegistry returns, and the chains and routes that  *)
(* are looked up in it.                                                     *)
(***************************************************************************)
EXTENDS Registry, StaticFiles, FiniteSetTheorems, WellFoundedInduction, TLAPS

-----------------------------------------------------------------------------
(* Induction over the naturals, as a fact about a set.                     *)

\* The order of the naturals is well founded.
LEMMA NatOrder == IsWellFoundedOn({ss \in Nat \X Nat : ss[1] < ss[2]}, Nat)
BY NatLessThanWellFounded, Zenon DEF OpToRel

\* A set of naturals that has an element has a least one.
LEMMA LeastExists ==
  ASSUME NEW S \in SUBSET Nat, S # {}
  PROVE  \E m \in S : \A x \in S : m <= x
<1>1. PICK m \in S : \A x \in S : ~(<<x, m>> \in {ss \in Nat \X Nat : ss[1] < ss[2]})
  BY WFMin, NatOrder, Zenon
<1>2. ASSUME NEW x \in S PROVE m <= x
  <2>1. ~(x < m)
    BY <1>1, Zenon
  <2> QED
    BY <2>1
<1> QED
  BY <1>2

\* What holds of 0 and is passed on from n to n + 1 holds of every natural.
LEMMA NatSet ==
  ASSUME NEW S \in SUBSET Nat, 0 \in S, \A n \in S : n + 1 \in S
  PROVE  S = Nat
<1> SUFFICES ASSUME Nat \ S # {} PROVE FALSE
  BY Zenon
<1>1. PICK m \in Nat \ S : \A x \in Nat \ S : m <= x
  BY LeastExists, Zenon
<1>2. m # 0 /\ m - 1 \in Nat
  BY <1>1
<1>3. m - 1 \in S
  BY <1>1, <1>2
<1> QED
  BY <1>1, <1>2, <1>3

-----------------------------------------------------------------------------
(* Sorting.                                                                *)

\* A strict total order on S.
Orders(before, S) ==
  /\ \A x \in S : <<x, x>> \notin before
  /\ \A x, y \in S : x # y => <<x, y>> \in before \/ <<y, x>> \in before
  /\ \A x, y, z \in S : <<x, y>> \in before /\ <<y, z>> \in before => <<x, z>> \in before

Below(x, S, before) == {y \in S : <<y, x>> \in before}

\* Fewer entries come before an earlier one than before a later one.
LEMMA BelowGrows ==
  ASSUME NEW S, IsFiniteSet(S), NEW before, Orders(before, S), NEW x \in S, NEW y \in S, <<x, y>> \in before
  PROVE Cardinality(Below(x, S, before)) < Cardinality(Below(y, S, before))
<1> DEFINE a == Below(x, S, before)
           b == Below(y, S, before)
<1>1. a \subseteq b /\ x \in b /\ x \notin a
  BY DEF Orders, Below
<1>2. IsFiniteSet(b)
  BY FS_Subset, Zenon DEF Below
<1>3. IsFiniteSet(a) /\ Cardinality(a) <= Cardinality(b) /\ Cardinality(a) # Cardinality(b)
  <2> HIDE DEF a, b
  <2> QED
    BY <1>1, <1>2, FS_Subset
<1>4. Cardinality(a) \in Nat /\ Cardinality(b) \in Nat
  <2> HIDE DEF a, b
  <2> QED
    BY <1>2, <1>3, FS_CardinalityType
<1> HIDE DEF a, b
<1> QED
  BY <1>3, <1>4 DEF a, b

\* And there is room for every entry.
LEMMA BelowBounded ==
  ASSUME NEW S, IsFiniteSet(S), NEW before, Orders(before, S), NEW x \in S
  PROVE Cardinality(Below(x, S, before)) \in 0..Cardinality(S) - 1 /\ Cardinality(S) \in Nat
<1> DEFINE a == Below(x, S, before)
<1>1. a \subseteq S /\ a # S
  BY Zenon DEF Orders, Below
<1> HIDE DEF a
<1>2. IsFiniteSet(a) /\ Cardinality(a) <= Cardinality(S) /\ Cardinality(a) # Cardinality(S)
  BY <1>1, FS_Subset
<1>3. Cardinality(a) \in Nat /\ Cardinality(S) \in Nat
  BY <1>2, FS_CardinalityType
<1> QED
  BY <1>2, <1>3 DEF a

\* Every rank below the number of entries is some entry's.
LEMMA RanksMet ==
  ASSUME NEW S, IsFiniteSet(S), NEW before, Orders(before, S), NEW k \in 0..Cardinality(S) - 1
  PROVE \E x \in S : Cardinality(Below(x, S, before)) = k
<1>0. PICK N : N = Cardinality(S)
  OBVIOUS
<1>1. N \in Nat
  BY <1>0, FS_CardinalityType
<1>2. PICK f : f = [x \in S |-> Cardinality(Below(x, S, before))]
  BY Zenon
<1>3. f \in [S -> 0..N - 1]
  BY <1>0, <1>2, BelowBounded
<1>4. ASSUME NEW x \in S, NEW y \in S, f[x] = f[y] PROVE x = y
  <2>1. CASE <<x, y>> \in before
    <3>1. f[x] < f[y] /\ f[x] \in Int
      BY <2>1, <1>2, <1>3, BelowGrows
    <3> QED
      BY <3>1, <1>4
  <2>2. CASE <<y, x>> \in before
    <3>1. f[y] < f[x] /\ f[x] \in Int
      BY <2>2, <1>2, <1>3, BelowGrows
    <3> QED
      BY <3>1, <1>4
  <2> QED
    BY <2>1, <2>2 DEF Orders
<1>5. f \in Injection(S, 0..N - 1)
  BY <1>3, <1>4 DEF Injection, IsInjective
<1>6. IsFiniteSet(0..N - 1) /\ Cardinality(0..N - 1) = N
  BY <1>1, FS_Interval
<1>7. f \in Surjection(S, 0..N - 1)
  BY <1>0, <1>5, <1>6, FS_Injection
<1> QED
  BY <1>0, <1>2, <1>7 DEF Surjection

\* The length and the places of a sequence.
LEMMA ListingIs ==
  ASSUME NEW s, Listing(s)
  PROVE Len(s) \in Nat /\ DOMAIN s = 1..Len(s)
BY DEF Listing

\* Sorted lists every entry once, and the earlier ones first.
SortedBy(s, S, before) ==
  /\ Listing(s)
  /\ \A i \in DOMAIN s : s[i] \in S
  /\ \A x \in S : \E i \in DOMAIN s : s[i] = x
  /\ \A i, j \in DOMAIN s : <<s[i], s[j]>> \in before => i < j
  /\ \A i, j \in DOMAIN s : s[i] = s[j] => i = j

\* Sorted lists every entry once, the earlier ones first.
LEMMA SortedIs ==
  ASSUME NEW S, IsFiniteSet(S), NEW before, Orders(before, S)
  PROVE SortedBy(Sorted(S, before), S, before)
<1>0. PICK N : N = Cardinality(S) /\ N \in Nat
  BY FS_CardinalityType
<1>1. PICK s : s = Sorted(S, before)
  OBVIOUS
<1>2. DOMAIN s = 1..N
  BY <1>0, <1>1 DEF Sorted
<1>3. ASSUME NEW i \in 1..N PROVE s[i] \in S /\ Cardinality(Below(s[i], S, before)) = i - 1
  <2>1. s[i] = CHOOSE x \in S : Cardinality(Below(x, S, before)) = i - 1
    BY <1>0, <1>1, Zenon DEF Sorted, Below
  <2>2. i - 1 \in 0..Cardinality(S) - 1
    BY <1>0
  <2>3. \E x \in S : Cardinality(Below(x, S, before)) = i - 1
    BY <2>2, RanksMet
  <2> QED
    BY <2>1, <2>3
<1>4. Listing(s)
  <2> DEFINE At(i) == CHOOSE x \in S : Cardinality({y \in S : <<y, x>> \in before}) = i - 1
  <2>1. s = [i \in 1..N |-> At(i)]
    BY <1>0, <1>1 DEF Sorted
  <2> HIDE DEF At
  <2>2. s \in [1..N -> {s[i] : i \in DOMAIN s}]
    BY <2>1
  <2> QED
    BY <1>0, <2>2 DEF Listing
<1>5. ASSUME NEW i \in 1..N, NEW j \in 1..N, <<s[i], s[j]>> \in before PROVE i < j
  <2>1. i - 1 < j - 1
    BY <1>3, <1>5, BelowGrows
  <2> QED
    BY <2>1
<1>6. ASSUME NEW i \in 1..N, NEW j \in 1..N, s[i] = s[j] PROVE i = j
  <2>1. i - 1 = j - 1
    BY <1>3, <1>6
  <2> QED
    BY <2>1
<1>7. ASSUME NEW x \in S PROVE \E i \in 1..N : s[i] = x
  <2>1. PICK k : k = Cardinality(Below(x, S, before))
    OBVIOUS
  <2>2. k \in Int /\ k + 1 \in 1..N /\ (k + 1) - 1 = k
    BY <1>0, <2>1, BelowBounded
  <2>3. s[k + 1] \in S /\ Cardinality(Below(s[k + 1], S, before)) = k
    BY <1>3, <2>2
  <2>4. ASSUME s[k + 1] # x PROVE FALSE
    <3>1. CASE <<s[k + 1], x>> \in before
      <4>1. k < k
        BY <2>1, <2>3, <3>1, BelowGrows
      <4> QED
        BY <2>2, <4>1
    <3>2. CASE <<x, s[k + 1]>> \in before
      <4>1. k < k
        BY <2>1, <2>3, <3>2, BelowGrows
      <4> QED
        BY <2>2, <4>1
    <3> QED
      BY <2>3, <2>4, <3>1, <3>2 DEF Orders
  <2> QED
    BY <2>2, <2>4
<1> QED
  BY <1>1, <1>2, <1>3, <1>4, <1>5, <1>6, <1>7 DEF SortedBy

-----------------------------------------------------------------------------
(* The length of a path.                                                   *)

\* u counts the characters of the first n segments.
Sums(u, path, N) ==
  /\ u = [i \in 0..N |-> u[i]]
  /\ u[0] = 0
  /\ \A i \in 1..N : u[i] = u[i - 1] + 1 + Len(path[i])

\* One more segment can be counted.
LEMMA SumStep ==
  ASSUME NEW path, NEW k \in Nat, NEW u, Sums(u, path, k)
  PROVE \E v : Sums(v, path, k + 1)
<1>1. PICK e : e = u[k] + 1 + Len(path[k + 1])
  OBVIOUS
<1>2. PICK v : v = [n \in 0..k + 1 |-> IF n <= k THEN u[n] ELSE e]
  BY Zenon
<1>3. \A n \in 0..k : v[n] = u[n]
  BY <1>2
<1>4. v[k + 1] = e /\ v[k] = u[k] /\ v[0] = u[0]
  BY <1>2
<1>5. ASSUME NEW n \in 1..k + 1 PROVE v[n] = v[n - 1] + 1 + Len(path[n])
  <2>1. CASE n \in 1..k
    <3>1. v[n] = u[n] /\ v[n - 1] = u[n - 1]
      BY <2>1, <1>3
    <3> QED
      BY <3>1, <2>1, Zenon DEF Sums
  <2>2. CASE n = k + 1
    <3>1. n - 1 = k
      BY <2>2
    <3> QED
      BY <3>1, <2>2, <1>1, <1>4
  <2> QED
    BY <2>1, <2>2
<1>6. v = [n \in 0..k + 1 |-> v[n]]
  BY <1>2
<1> QED
  BY <1>4, <1>5, <1>6, Zenon DEF Sums

\* So can all of them.
LEMMA SumExists ==
  ASSUME NEW path, NEW N \in Nat
  PROVE  \E u : Sums(u, path, N)
<1>1. PICK S : S = {k \in Nat : \E u : Sums(u, path, k)}
  BY Zenon
<1>2. 0 \in S
  <2>1. Sums([n \in 0..0 |-> 0], path, 0)
    BY DEF Sums
  <2> QED
    BY <2>1, <1>1
<1>3. ASSUME NEW k \in S PROVE k + 1 \in S
  BY <1>1, <1>3, SumStep
<1>4. S = Nat
  BY <1>1, <1>2, <1>3, NatSet
<1> QED
  BY <1>1, <1>4

\* The counts are numbers.
LEMMA SumTypes ==
  ASSUME NEW path, NEW N \in Nat, NEW u, Sums(u, path, N), \A i \in 1..N : Len(path[i]) \in Nat
  PROVE  \A i \in 0..N : u[i] \in Nat
<1>1. PICK S : S = {k \in Nat : k <= N => u[k] \in Nat}
  BY Zenon
<1>2. 0 \in S
  BY <1>1 DEF Sums
<1>3. ASSUME NEW k \in S PROVE k + 1 \in S
  <2>1. CASE k + 1 <= N
    <3>1. k + 1 \in 1..N /\ (k + 1) - 1 = k /\ u[k] \in Nat
      BY <1>1, <2>1
    <3>2. u[k + 1] = u[k] + 1 + Len(path[k + 1])
      BY <3>1, Zenon DEF Sums
    <3> QED
      BY <1>1, <3>1, <3>2
  <2> QED
    BY <1>1, <2>1
<1>4. S = Nat
  BY <1>1, <1>2, <1>3, NatSet, Zenon
<1> QED
  BY <1>1, <1>4

\* Paths that start alike are counted alike.
LEMMA SumsAgree ==
  ASSUME NEW a, NEW b, NEW m \in Nat, NEW n \in Nat, m <= n, \A i \in 1..m : a[i] = b[i],
         NEW u, Sums(u, a, m), NEW v, Sums(v, b, n)
  PROVE  \A i \in 0..m : u[i] = v[i]
<1>1. PICK S : S = {k \in Nat : k <= m => u[k] = v[k]}
  BY Zenon
<1>2. 0 \in S
  BY <1>1 DEF Sums
<1>3. ASSUME NEW k \in S PROVE k + 1 \in S
  <2>1. CASE k + 1 <= m
    <3>1. k + 1 \in 1..m /\ k + 1 \in 1..n /\ (k + 1) - 1 = k /\ u[k] = v[k]
      BY <1>1, <2>1
    <3>2. u[k + 1] = u[k] + 1 + Len(a[k + 1]) /\ v[k + 1] = v[k] + 1 + Len(b[k + 1])
      BY <3>1, Zenon DEF Sums
    <3> QED
      BY <1>1, <3>1, <3>2
  <2> QED
    BY <1>1, <2>1
<1>4. S = Nat
  BY <1>1, <1>2, <1>3, NatSet
<1> QED
  BY <1>1, <1>4

\* A longer start has more characters.
LEMMA SumsGrow ==
  ASSUME NEW path, NEW N \in Nat, NEW u, Sums(u, path, N), \A i \in 1..N : Len(path[i]) \in Nat,
         NEW i \in 0..N, NEW j \in 0..N, i < j
  PROVE  u[i] < u[j]
<1>0. \A k \in 0..N : u[k] \in Nat
  BY SumTypes
<1>1. PICK S : S = {k \in Nat : i < k /\ k <= N => u[i] < u[k]}
  BY Zenon
<1>2. 0 \in S
  BY <1>1
<1>3. ASSUME NEW k \in S PROVE k + 1 \in S
  <2>1. CASE i < k + 1 /\ k + 1 <= N
    <3>1. k + 1 \in 1..N /\ (k + 1) - 1 = k /\ k \in 0..N /\ (u[i] < u[k] \/ i = k)
      BY <1>1, <2>1
    <3>2. u[k + 1] = u[k] + 1 + Len(path[k + 1])
      BY <3>1, Zenon DEF Sums
    <3>3. u[k] < u[k + 1]
      BY <1>0, <3>1, <3>2
    <3>4. u[k] \in Nat /\ u[i] \in Nat /\ u[k + 1] \in Nat
      BY <1>0, <3>1
    <3>5. u[i] < u[k + 1]
      BY <3>1, <3>3, <3>4
    <3> QED
      BY <1>1, <3>5
  <2> QED
    BY <1>1, <2>1
<1>4. S = Nat
  BY <1>1, <1>2, <1>3, NatSet, Zenon
<1> QED
  BY <1>1, <1>4

\* Chars is the last count.
LEMMA CharsIs ==
  ASSUME NEW path, Weighed(path)
  PROVE  \E u : Sums(u, path, Len(path)) /\ Chars(path) = IF path = <<>> THEN 1 ELSE u[Len(path)]
<1>0. Len(path) \in Nat
  BY ListingIs DEF Weighed
<1>1. PICK v : Sums(v, path, Len(path))
  BY <1>0, SumExists
<1>2. v = [i \in 0..Len(path) |-> IF i = 0 THEN 0 ELSE v[i - 1] + 1 + Len(path[i])]
  <2>1. ASSUME NEW i \in 0..Len(path) PROVE v[i] = IF i = 0 THEN 0 ELSE v[i - 1] + 1 + Len(path[i])
    <3>1. CASE i = 0
      BY <3>1, <1>1 DEF Sums
    <3>2. CASE i \in 1..Len(path)
      BY <3>2, <1>1, SMTT(30), ZenonT(30) DEF Sums
    <3> QED
      BY <1>0, <3>1, <3>2
  <2> QED
    BY <1>1, <2>1, Zenon DEF Sums
<1>3. PICK u : u = CHOOSE f : f = [i \in 0..Len(path) |-> IF i = 0 THEN 0 ELSE f[i - 1] + 1 + Len(path[i])]
  OBVIOUS
<1>4. u = [i \in 0..Len(path) |-> IF i = 0 THEN 0 ELSE u[i - 1] + 1 + Len(path[i])]
  BY <1>2, <1>3, SMTT(30), ZenonT(30)
<1>5. Chars(path) = IF path = <<>> THEN 1 ELSE u[Len(path)]
  BY <1>3 DEF Chars
<1>6. u = [i \in 0..Len(path) |-> u[i]]
  BY <1>4
<1>7. u[0] = 0
  BY <1>0, <1>4
<1>8. ASSUME NEW i \in 1..Len(path) PROVE u[i] = u[i - 1] + 1 + Len(path[i])
  <2>1. i \in 0..Len(path) /\ i # 0
    BY <1>0
  <2> QED
    BY <1>4, <2>1, Zenon
<1> QED
  BY <1>5, <1>6, <1>7, <1>8, Zenon DEF Sums

\* It is a number.
LEMMA CharsType ==
  ASSUME NEW path, Weighed(path)
  PROVE  Chars(path) \in Nat
<1>1. PICK u : Sums(u, path, Len(path)) /\ Chars(path) = IF path = <<>> THEN 1 ELSE u[Len(path)]
  BY CharsIs
<1>2. Len(path) \in Nat /\ \A i \in 1..Len(path) : Len(path[i]) \in Nat
  BY ListingIs DEF Weighed
<1>3. u[Len(path)] \in Nat
  BY <1>1, <1>2, SumTypes
<1> QED
  BY <1>1, <1>3

\* A path is longer than a path that leads to it.
LEMMA CharsLead ==
  ASSUME NEW a, Weighed(a), NEW b, Weighed(b), b # NoPath, Leads(a, b), a # b
  PROVE  Chars(a) < Chars(b)
<1>1. PICK u : Sums(u, a, Len(a)) /\ Chars(a) = IF a = <<>> THEN 1 ELSE u[Len(a)]
  BY CharsIs
<1>2. PICK v : Sums(v, b, Len(b)) /\ Chars(b) = IF b = <<>> THEN 1 ELSE v[Len(b)]
  BY CharsIs
<1>3. PICK m \in Nat, n \in Nat : m = Len(a) /\ n = Len(b) /\ DOMAIN a = 1..m /\ DOMAIN b = 1..n
  BY ListingIs DEF Weighed
<1>4. b \in Seq({b[i] : i \in DOMAIN b}) /\ a \in Seq({a[i] : i \in DOMAIN a})
  BY DEF Weighed, Listing
<1>5. m <= n /\ a = SubSeq(b, 1, m)
  BY <1>3 DEF Leads
<1>6. \A i \in 1..m : a[i] = b[i]
  BY <1>3, <1>4, <1>5
<1>7. m < n
  <2>1. ASSUME m = n PROVE a = b
    BY <1>3, <1>4, <1>6, <2>1
  <2> QED
    BY <1>5, <2>1
<1>8. b # <<>>
  BY <1>3, <1>4, <1>7
<1>9. \A i \in 1..n : Len(b[i]) \in Nat /\ (b[i] # "" => Len(b[i]) > 0)
  BY <1>3 DEF Weighed
<1>10. v[m] < v[n] /\ u[m] = v[m]
  <2>0. Sums(u, a, m) /\ Sums(v, b, n) /\ \A i \in 1..n : Len(b[i]) \in Nat
    BY <1>1, <1>2, <1>3, <1>9
  <2>1. m \in 0..n /\ n \in 0..n /\ m \in 0..m /\ m <= n
    BY <1>7
  <2>2. v[m] < v[n]
    BY <1>7, <2>0, <2>1, SumsGrow
  <2>3. \A i \in 0..m : u[i] = v[i]
    <3>1. m \in Nat /\ n \in Nat
      BY <1>3
    <3>2. Sums(u, a, m) /\ Sums(v, b, n)
      BY <2>0
    <3>3. m <= n
      BY <2>1
    <3> QED
      BY <1>6, <3>1, <3>2, <3>3, SumsAgree, SMT
  <2> QED
    BY <2>1, <2>2, <2>3
<1>11. CASE a # <<>>
  BY <1>1, <1>2, <1>3, <1>8, <1>10, <1>11
<1>12. CASE a = <<>>
  <2>0. \A i \in 0..n : v[i] \in Nat
    <3>1. Sums(v, b, n) /\ \A i \in 1..n : Len(b[i]) \in Nat
      BY <1>2, <1>3, <1>9
    <3> QED
      BY <3>1, SumTypes
  <2>1. v[0] = 0 /\ v[1] = v[0] + 1 + Len(b[1])
    <3>1. 1 \in 1..n /\ 1 - 1 = 0
      BY <1>3, <1>7
    <3> QED
      BY <1>2, <1>3, <3>1 DEF Sums
  <2>2. CASE n = 1
    <3>1. b[1] # ""
      <4>1. b = <<b[1]>>
        BY <1>3, <1>4, <2>2
      <4> QED
        BY <4>1 DEF NoPath
    <3>2. Len(b[1]) \in Nat /\ Len(b[1]) > 0
      <4>1. 1 \in 1..n
        BY <2>2
      <4> QED
        BY <1>9, <3>1, <4>1
    <3> QED
      BY <1>1, <1>2, <1>3, <1>8, <1>12, <2>1, <2>2, <3>2
  <2>3. CASE n > 1
    <3>1. v[1] < v[n]
      <4>1. 1 \in 0..n /\ n \in 0..n
        BY <1>3, <2>3
      <4> QED
        BY <1>2, <1>3, <1>9, <2>3, <4>1, SumsGrow
    <3>2. Len(b[1]) \in Nat /\ v[n] \in Nat
      <4>1. 1 \in 1..n /\ n \in 0..n
        BY <2>3
      <4> QED
        BY <1>9, <2>0, <4>1
    <3> QED
      BY <1>1, <1>2, <1>3, <1>8, <1>12, <2>1, <3>1, <3>2
  <2> QED
    BY <1>3, <1>7, <2>2, <2>3
<1> QED
  BY <1>11, <1>12

-----------------------------------------------------------------------------
(* What is found.                                                          *)

Found(fns, config) == UNION {Resolved(fns, config, k) : k \in {fns[i].key : i \in DOMAIN fns}}

\* There is one last overload at most, and it is one of those.
LEMMA LastOfIs ==
  ASSUME NEW fns, Listing(fns), NEW at \in SUBSET DOMAIN fns, NEW f \in LastOf(fns, at), NEW g \in LastOf(fns, at)
  PROVE  f = g /\ \E i \in at : f = fns[i]
<1>0. DOMAIN fns \subseteq Int
  BY ListingIs
<1>1. PICK i \in at : f = fns[i] /\ \A k \in at : k <= i
  BY DEF LastOf
<1>2. PICK j \in at : g = fns[j] /\ \A k \in at : k <= j
  BY DEF LastOf
<1>3. i = j
  BY <1>0, <1>1, <1>2
<1> QED
  BY <1>1, <1>2, <1>3

\* A key has one declaration at most, and it is one of those introspected.
LEMMA ResolvedIs ==
  ASSUME NEW fns, NEW config, Introspected(fns, config), NEW key,
         NEW d \in Resolved(fns, config, key), NEW e \in Resolved(fns, config, key)
  PROVE  /\ d = e
         /\ d.fn.key = key
         /\ d.fn \in {fns[i] : i \in DOMAIN fns}
         /\ Weighed(d.decl.path)
<1> DEFINE plain == {i \in DOMAIN fns : fns[i].plain /\ fns[i].key = key}
           commented == {i \in plain : parseCommentDeclaration(fns[i].comment) # {}}
<1>0. Listing(fns)
  BY DEF Introspected
<1>1. CASE key \in DOMAIN config /\ plain # {}
  <2>1. PICK f \in LastOf(fns, plain) : d = [fn |-> f, decl |-> config[key]]
    BY <1>1 DEF Resolved
  <2>2. PICK g \in LastOf(fns, plain) : e = [fn |-> g, decl |-> config[key]]
    BY <1>1 DEF Resolved
  <2>3. f = g /\ \E i \in plain : f = fns[i]
    BY <1>0, LastOfIs
  <2>4. Weighed(config[key].path)
    BY <1>1 DEF Introspected
  <2> QED
    BY <2>1, <2>2, <2>3, <2>4, Zenon
<1>2. CASE ~(key \in DOMAIN config /\ plain # {})
  <2>1. PICK f \in LastOf(fns, commented) : d = [fn |-> f, decl |-> f.comment.decl]
    BY <1>2, Zenon DEF Resolved
  <2>2. PICK g \in LastOf(fns, commented) : e = [fn |-> g, decl |-> g.comment.decl]
    BY <1>2, Zenon DEF Resolved
  <2>3. f = g /\ \E i \in commented : f = fns[i]
    BY <1>0, LastOfIs
  <2>4. PICK i \in commented : f = fns[i]
    BY <2>3, Zenon
  <2>5. Weighed(fns[i].comment.decl.path)
    <3>1. i \in DOMAIN fns /\ fns[i].comment.kind = "decl"
      BY <2>4 DEF parseCommentDeclaration
    <3>2. \A j \in DOMAIN fns : fns[j].comment.kind = "decl" => Weighed(fns[j].comment.decl.path)
      BY DEF Introspected
    <3> QED
      BY <3>1, <3>2
  <2> QED
    BY <2>1, <2>2, <2>3, <2>4, <2>5
<1> QED
  BY <1>1, <1>2

\* Every return type has one content at most.
LEMMA ContentIs ==
  ASSUME NEW t, NEW any, NEW c \in Content(t, any), NEW d \in Content(t, any)
  PROVE  c = d
<1>1. ASSUME NEW x \in classifySingleReturnType(t), NEW y \in classifySingleReturnType(t) PROVE x = y
  <2>1. CASE t = "text"
    <3>1. PICK k : k = [ctype |-> "text/plain", binary |-> FALSE, native |-> FALSE]
      BY Zenon
    <3>2. classifySingleReturnType(t) = {k}
      BY <2>1, <3>1 DEF classifySingleReturnType, JsonTypes
    <3> QED
      BY <1>1, <3>2
  <2>2. CASE t \in JsonTypes
    BY <2>2, <1>1, Zenon DEF classifySingleReturnType, JsonTypes
  <2>3. CASE t = "bytea"
    BY <2>3, <1>1, Zenon DEF classifySingleReturnType, JsonTypes
  <2>4. CASE t \in {"mime/text", "mime/bytea"}
    <3>1. PICK k : k = [ctype |-> t, binary |-> t = "mime/bytea", native |-> FALSE]
      BY Zenon
    <3>2. classifySingleReturnType(t) = {k}
      BY <2>4, <3>1 DEF classifySingleReturnType, JsonTypes
    <3> QED
      BY <1>1, <3>2
  <2>5. CASE t \notin {"text", "bytea", "mime/text", "mime/bytea"} \cup JsonTypes
    BY <2>5, <1>1 DEF classifySingleReturnType
  <2> QED
    BY <2>1, <2>2, <2>3, <2>4, <2>5
<1>2. CASE classifySingleReturnType(t) = {} /\ any /\ anyValueType(t)
  BY <1>2, Zenon DEF Content
<1>3. CASE ~(classifySingleReturnType(t) = {} /\ any /\ anyValueType(t))
  BY <1>1, <1>3 DEF Content
<1> QED
  BY <1>2, <1>3

IsEntry(e) ==
  /\ {"fn", "path", "anonPath", "methods", "middleware"} \subseteq DOMAIN e
  /\ e.fn \in Int
  /\ Weighed(e.path) /\ e.path # NoPath
  /\ e.anonPath = anonymizePath(e.path)

\* A function and its declaration give one entry at most.
LEMMA ShapeIs ==
  ASSUME NEW fn, NEW decl, fn.key \in Int, Weighed(decl.path), NEW e \in classifyShape(fn, decl), NEW f \in classifyShape(fn, decl)
  PROVE  e = f /\ IsEntry(e) /\ e.fn = fn.key
<1> DEFINE request == fn.ins # <<>> /\ fn.ins[1][1] \in JsonTypes
           at == IF request THEN 2 ELSE 1
           bytes == UploadArg(fn, at)
           full == Len(fn.outs) = 2
           content == IF full THEN Content(fn.outs[2], TRUE) ELSE Content(fn.ret, ~fn.set)
           shape(c) == [fn |-> fn.key, path |-> decl.path, anonPath |-> anonymizePath(decl.path),
            methods |-> resolveMethods(decl.methods, bytes, decl.stream),
            request |-> request, bytes |-> bytes, ctype |-> c.ctype, native |-> c.native,
            full |-> full, template |-> decl.template, stream |-> decl.stream,
            middleware |-> decl.middleware, anon |-> fn.anon]
<1>1. decl.path # NoPath
  BY DEF classifyShape
<1>2. PICK c \in content : e = shape(c)
  BY DEF classifyShape
<1>3. PICK d \in content : f = shape(d)
  BY ZenonT(30) DEF classifyShape
<1>4. c = d
  BY <1>2, <1>3, ContentIs, Zenon
<1>5. IsEntry(shape(c)) /\ shape(c).fn = fn.key
  BY <1>1, Zenon DEF IsEntry
<1> QED
  BY <1>2, <1>3, <1>4, <1>5, SMTT(30), ZenonT(30)

Entries(fns, config) ==
  {e \in UNION {classifyShape(d.fn, d.decl) : d \in Found(fns, config)} : ~isReservedPath(e.anonPath)}

\* An entry is known by its key, which a function has.
LEMMA EntriesAre ==
  ASSUME NEW fns, NEW config, Introspected(fns, config)
  PROVE  /\ \A e \in Entries(fns, config) : IsEntry(e) /\ \E i \in DOMAIN fns : e.fn = fns[i].key
         /\ \A e, f \in Entries(fns, config) : e.fn = f.fn => e = f
<1>0. ASSUME NEW e \in Entries(fns, config)
      PROVE  \E k \in {fns[i].key : i \in DOMAIN fns} : \E d \in Resolved(fns, config, k) : e \in classifyShape(d.fn, d.decl)
  BY <1>0 DEF Entries, Found
<1>1. ASSUME NEW k, NEW d \in Resolved(fns, config, k), NEW e \in classifyShape(d.fn, d.decl)
      PROVE  IsEntry(e) /\ e.fn = k /\ \A f \in classifyShape(d.fn, d.decl) : e = f
  <2>1. d.fn.key = k /\ Weighed(d.decl.path) /\ \E i \in DOMAIN fns : d.fn = fns[i]
    BY <1>1, ResolvedIs
  <2>2. d.fn.key \in Int
    BY <2>1 DEF Introspected
  <2> QED
    BY <1>1, <2>1, <2>2, ShapeIs
<1>2. ASSUME NEW e \in Entries(fns, config) PROVE IsEntry(e) /\ \E i \in DOMAIN fns : e.fn = fns[i].key
  <2>1. PICK k \in {fns[i].key : i \in DOMAIN fns} : \E d \in Resolved(fns, config, k) : e \in classifyShape(d.fn, d.decl)
    BY <1>0
  <2> QED
    BY <1>1, <2>1
<1>3. ASSUME NEW e \in Entries(fns, config), NEW f \in Entries(fns, config), e.fn = f.fn PROVE e = f
  <2>1. PICK k : \E d \in Resolved(fns, config, k) : e \in classifyShape(d.fn, d.decl)
    BY <1>0
  <2>2. PICK c \in Resolved(fns, config, k) : e \in classifyShape(c.fn, c.decl)
    BY <2>1
  <2>3. PICK l : \E d \in Resolved(fns, config, l) : f \in classifyShape(d.fn, d.decl)
    BY <1>0
  <2>4. PICK d \in Resolved(fns, config, l) : f \in classifyShape(d.fn, d.decl)
    BY <2>3
  <2>5. k = l
    BY <1>1, <1>3, <2>2, <2>4
  <2>6. c = d
    BY <2>2, <2>4, <2>5, ResolvedIs
  <2> QED
    BY <1>1, <2>2, <2>4, <2>6
<1> QED
  BY <1>2, <1>3

\* A database declares finitely many entries.
LEMMA EntriesFinite ==
  ASSUME NEW fns, NEW config, Introspected(fns, config)
  PROVE  IsFiniteSet(Entries(fns, config))
<1>0. PICK E : E = Entries(fns, config)
  OBVIOUS
<1>1. Len(fns) \in Nat /\ DOMAIN fns = 1..Len(fns)
  BY ListingIs DEF Introspected
<1>2. IsFiniteSet(DOMAIN fns)
  BY <1>1, FS_Interval
<1>3. PICK f : f = [e \in E |-> CHOOSE i \in DOMAIN fns : e.fn = fns[i].key]
  BY Zenon
<1>4. ASSUME NEW e \in E PROVE f[e] \in DOMAIN fns /\ e.fn = fns[f[e]].key
  BY <1>0, <1>3, EntriesAre
<1>5. \A e, g \in E : f[e] = f[g] => e = g
  BY <1>0, <1>4, EntriesAre
<1>6. f \in [E -> DOMAIN fns]
  BY <1>3, <1>4
<1>7. f \in Injection(E, DOMAIN fns)
  BY <1>5, <1>6 DEF Injection, IsInjective
<1> QED
  BY <1>0, <1>2, <1>7, FS_Injection

\* Replacing the placeholders keeps a path a path.
LEMMA AnonymousWeighed ==
  ASSUME NEW fns, NEW config, Introspected(fns, config), NEW path, Weighed(path), path # NoPath
  PROVE  Weighed(anonymizePath(path)) /\ anonymizePath(path) # NoPath
<1>0. PICK a : a = anonymizePath(path)
  OBVIOUS
<1>1. PICK n \in Nat : Len(path) = n /\ DOMAIN path = 1..n /\ path \in Seq({path[i] : i \in DOMAIN path})
  BY ListingIs DEF Weighed, Listing
<1>2. DOMAIN a = DOMAIN path /\ \A i \in DOMAIN path : a[i] = IF path[i] \in Placeholders THEN Anonymous ELSE path[i]
  BY <1>0 DEF anonymizePath
<1>3. Listing(a)
  <2>1. a = [i \in 1..n |-> IF path[i] \in Placeholders THEN Anonymous ELSE path[i]]
    BY <1>0, <1>1 DEF anonymizePath
  <2>2. a \in [1..n -> {a[i] : i \in DOMAIN a}]
    BY <2>1
  <2>3. n \in Nat
    BY <1>1
  <2> QED
    BY <2>2, <2>3, SMTT(30), ZenonT(30) DEF Listing
<1>4. Len(Anonymous) \in Nat /\ Len(Anonymous) > 0
  BY DEF Introspected
<1>5. \A i \in DOMAIN a : Len(a[i]) \in Nat /\ (a[i] # "" => Len(a[i]) > 0)
  BY <1>2, <1>4 DEF Weighed
<1>6. ASSUME a = NoPath PROVE FALSE
  <2>1. a = <<"">>
    BY <1>6 DEF NoPath
  <2>2. Len(a) = 1 /\ a[1] = ""
    BY <2>1
  <2>3. Len(a) = n
    BY <1>1, <1>2, <1>3, ListingIs
  <2>4. n = 1 /\ path[1] = ""
    <3>1. n = 1
      BY <2>2, <2>3
    <3>2. 1 \in DOMAIN path
      BY <1>1, <3>1
    <3> QED
      BY <1>2, <2>2, <3>1, <3>2 DEF Anonymous
  <2>5. path = <<path[1]>>
    <3>1. Len(path) = 1 /\ \E S : path \in Seq(S)
      BY <1>1, <2>4
    <3> QED
      BY <3>1
  <2> QED
    BY <2>4, <2>5 DEF NoPath
<1> QED
  BY <1>0, <1>3, <1>5, <1>6 DEF Weighed

-----------------------------------------------------------------------------
(* What BuildRegistry returns.                                             *)

\* Entries that their keys tell apart are in order, whichever of the two.
LEMMA OrdersAre ==
  ASSUME NEW S, \A e \in S : e.fn \in Int /\ Weighed(e.anonPath), \A e, f \in S : e.fn = f.fn => e = f
  PROVE  /\ Orders({p \in S \X S : LongestFirst(p[1], p[2])}, S)
         /\ Orders({p \in S \X S : ShortestFirst(p[1], p[2])}, S)
<1>0. \A e \in S : Chars(e.anonPath) \in Nat
  BY CharsType
<1>1. \A e, f \in S : <<e, f>> \in {p \in S \X S : LongestFirst(p[1], p[2])} <=> LongestFirst(e, f)
  OBVIOUS
<1>2. \A e, f \in S : <<e, f>> \in {p \in S \X S : ShortestFirst(p[1], p[2])} <=> ShortestFirst(e, f)
  OBVIOUS
<1>3. /\ \A e \in S : ~LongestFirst(e, e)
      /\ \A e, f \in S : e # f => LongestFirst(e, f) \/ LongestFirst(f, e)
      /\ \A e, f, g \in S : LongestFirst(e, f) /\ LongestFirst(f, g) => LongestFirst(e, g)
  BY <1>0 DEF LongestFirst
<1>4. /\ \A e \in S : ~ShortestFirst(e, e)
      /\ \A e, f \in S : e # f => ShortestFirst(e, f) \/ ShortestFirst(f, e)
      /\ \A e, f, g \in S : ShortestFirst(e, f) /\ ShortestFirst(f, g) => ShortestFirst(e, g)
  BY <1>0 DEF ShortestFirst
<1>5. Orders({p \in S \X S : LongestFirst(p[1], p[2])}, S)
  BY <1>1, <1>3 DEF Orders
<1>6. Orders({p \in S \X S : ShortestFirst(p[1], p[2])}, S)
  BY <1>2, <1>4 DEF Orders
<1> QED
  BY <1>5, <1>6

\* The list that is registered differs from the sorted one in a flag only.
LEMMA AuthorizedIs ==
  ASSUME NEW s, Listing(s), \A i \in DOMAIN s : IsEntry(s[i]), NEW anon, NEW t, t = applyAnonymousAuthorization(s, anon)
  PROVE  /\ Listing(t) /\ DOMAIN t = DOMAIN s
         /\ \A i \in DOMAIN s : /\ t[i].fn = s[i].fn /\ t[i].path = s[i].path
                                /\ t[i].anonPath = s[i].anonPath /\ t[i].methods = s[i].methods
<1>1. PICK n \in Nat : DOMAIN s = 1..n
  BY ListingIs
<1> DEFINE At(i) == [s[i] EXCEPT !.anon = @ /\ anon]
<1>2. t = [i \in 1..n |-> At(i)]
  BY <1>1 DEF applyAnonymousAuthorization
<1>3. ASSUME NEW i \in DOMAIN s PROVE /\ At(i).fn = s[i].fn /\ At(i).path = s[i].path
                                      /\ At(i).anonPath = s[i].anonPath /\ At(i).methods = s[i].methods
  <2>1. {"fn", "path", "anonPath", "methods"} \subseteq DOMAIN s[i]
    BY <1>3 DEF IsEntry
  <2> QED
    BY <2>1
<1> HIDE DEF At
<1>4. t \in [1..n -> {t[i] : i \in DOMAIN t}] /\ DOMAIN t = 1..n
  BY <1>2
<1>5. n \in Nat
  BY <1>1
<1>6. Listing(t)
  BY <1>4, <1>5 DEF Listing
<1>7. \A i \in DOMAIN s : t[i] = At(i)
  BY <1>1, <1>2
<1> QED
  BY <1>1, <1>3, <1>4, <1>6, <1>7

WellFormed(registry) ==
  LET M == registry.Middleware
      R == Range(registry.Routes)
  IN /\ Listing(M)
     /\ \A i, j \in DOMAIN M : M[i].fn = M[j].fn => i = j
     /\ \A i, j \in DOMAIN M : Leads(M[i].anonPath, M[j].anonPath) /\ M[i].anonPath # M[j].anonPath => i < j
     /\ \A a \in R : Listing(a.path) /\ a.anonPath = anonymizePath(a.path)
     /\ \A a, b \in R : a.anonPath = b.anonPath /\ methodsOverlap(a.methods, b.methods) => a = b

\* The registry that is built from any database and configuration lists each
\* middleware once, an outer path before an inner one, and no two routes with
\* one path and one method (BuildRegistry, excludeCollisions).
THEOREM RegistryIsWellFormed ==
  ASSUME NEW fns, NEW config, Introspected(fns, config), NEW anon
  PROVE  WellFormed(BuildRegistry(fns, config, anon))
<1> DEFINE entries == Entries(fns, config)
           routes == excludeCollisions({e \in entries : ~e.middleware})
           gates == {e \in entries : e.middleware}
           longest == {p \in routes \X routes : LongestFirst(p[1], p[2])}
           shortest == {p \in gates \X gates : ShortestFirst(p[1], p[2])}
           R == applyAnonymousAuthorization(Sorted(routes, longest), anon)
           M == applyAnonymousAuthorization(Sorted(gates, shortest), anon)
<1>1. BuildRegistry(fns, config, anon) = [Routes |-> R, Middleware |-> M]
  BY DEF BuildRegistry, Entries, Found
<1>2. routes \subseteq entries /\ gates \subseteq entries
  BY DEF excludeCollisions
<1>3. \A a, b \in routes : a.anonPath = b.anonPath /\ methodsOverlap(a.methods, b.methods) => a = b
  BY DEF excludeCollisions
<1> HIDE DEF entries, routes, gates
<1>4. /\ \A e \in entries : IsEntry(e)
      /\ \A e, f \in entries : e.fn = f.fn => e = f
  BY EntriesAre DEF entries
<1>5. \A e \in entries : e.fn \in Int /\ Weighed(e.anonPath) /\ e.anonPath # NoPath
  BY <1>4, AnonymousWeighed DEF IsEntry
<1>6. IsFiniteSet(routes) /\ IsFiniteSet(gates)
  BY <1>2, EntriesFinite, FS_Subset DEF entries
<1>7. SortedBy(Sorted(routes, longest), routes, longest)
  BY <1>2, <1>4, <1>5, <1>6, OrdersAre, SortedIs, Zenon
<1>8. SortedBy(Sorted(gates, shortest), gates, shortest)
  BY <1>2, <1>4, <1>5, <1>6, OrdersAre, SortedIs, Zenon
<1>9. PICK s : s = Sorted(gates, shortest)
  OBVIOUS
<1>10. PICK q : q = Sorted(routes, longest)
  OBVIOUS
<1>11. PICK t : t = M
  OBVIOUS
<1>12. PICK u : u = R
  OBVIOUS
<1>13. /\ Listing(t) /\ DOMAIN t = DOMAIN s
       /\ \A i \in DOMAIN s : t[i].fn = s[i].fn /\ t[i].anonPath = s[i].anonPath
  <2>1. Listing(s) /\ \A i \in DOMAIN s : IsEntry(s[i])
    BY <1>2, <1>4, <1>8, <1>9 DEF SortedBy
  <2>2. t = applyAnonymousAuthorization(s, anon)
    BY <1>9, <1>11
  <2> QED
    BY <2>1, <2>2, AuthorizedIs
<1>14. /\ DOMAIN u = DOMAIN q
       /\ \A i \in DOMAIN q : /\ u[i].path = q[i].path /\ u[i].anonPath = q[i].anonPath /\ u[i].methods = q[i].methods
  <2>1. Listing(q) /\ \A i \in DOMAIN q : IsEntry(q[i])
    BY <1>2, <1>4, <1>7, <1>10 DEF SortedBy
  <2>2. u = applyAnonymousAuthorization(q, anon)
    BY <1>10, <1>12
  <2> QED
    BY <2>1, <2>2, AuthorizedIs
<1>15. \A i, j \in DOMAIN t : t[i].fn = t[j].fn => i = j
  <2>1. \A i \in DOMAIN s : s[i] \in entries
    BY <1>2, <1>8, <1>9 DEF SortedBy
  <2>2. \A i, j \in DOMAIN s : s[i] = s[j] => i = j
    BY <1>8, <1>9 DEF SortedBy
  <2> QED
    BY <1>4, <1>13, <2>1, <2>2
<1>16. ASSUME NEW i \in DOMAIN t, NEW j \in DOMAIN t, Leads(t[i].anonPath, t[j].anonPath), t[i].anonPath # t[j].anonPath
       PROVE  i < j
  <2>1. s[i] \in gates /\ s[j] \in gates
    BY <1>8, <1>9, <1>13 DEF SortedBy
  <2>2. s[i] \in entries /\ s[j] \in entries
    BY <1>2, <2>1
  <2>3. Chars(s[i].anonPath) < Chars(s[j].anonPath)
    BY <1>5, <1>13, <1>16, <2>2, CharsLead
  <2>4. <<s[i], s[j]>> \in shortest
    BY <2>1, <2>3 DEF ShortestFirst
  <2> QED
    BY <1>8, <1>9, <1>13, <2>4 DEF SortedBy
<1>17. ASSUME NEW a \in Range(u) PROVE Listing(a.path) /\ a.anonPath = anonymizePath(a.path)
  <2>1. PICK i \in DOMAIN q : a = u[i]
    BY <1>14, <1>17 DEF Range
  <2>2. IsEntry(q[i])
    BY <1>2, <1>4, <1>7, <1>10, <2>1 DEF SortedBy
  <2> QED
    BY <1>14, <2>1, <2>2 DEF IsEntry, Weighed
<1>18. ASSUME NEW a \in Range(u), NEW b \in Range(u), a.anonPath = b.anonPath, methodsOverlap(a.methods, b.methods)
       PROVE  a = b
  <2>1. PICK i \in DOMAIN q : a = u[i]
    BY <1>14, <1>18 DEF Range
  <2>2. PICK j \in DOMAIN q : b = u[j]
    BY <1>14, <1>18 DEF Range
  <2>3. q[i] \in routes /\ q[j] \in routes
    BY <1>7, <1>10, <2>1, <2>2 DEF SortedBy
  <2>4. q[i] = q[j]
    BY <1>3, <1>14, <1>18, <2>1, <2>2, <2>3
  <2>5. i = j
    BY <1>7, <1>10, <2>1, <2>2, <2>4 DEF SortedBy
  <2> QED
    BY <2>1, <2>2, <2>5
<1>19. PICK registry : registry = BuildRegistry(fns, config, anon)
  OBVIOUS
<1>20. registry.Middleware = t /\ registry.Routes = u
  BY <1>1, <1>11, <1>12, <1>19
<1>21. WellFormed(registry)
  BY <1>13, <1>15, <1>16, <1>17, <1>18, <1>20 DEF WellFormed
<1> QED
  BY <1>19, <1>21

-----------------------------------------------------------------------------
(* The chain of a path.                                                    *)

\* What appending does, whatever the elements are.
LEMMA Appended ==
  ASSUME NEW s, NEW e, Listing(s)
  PROVE /\ Listing(Append(s, e))
        /\ Len(s) \in Nat /\ DOMAIN s = 1..Len(s)
        /\ Len(Append(s, e)) = Len(s) + 1
        /\ \A i \in DOMAIN s : Append(s, e)[i] = s[i]
        /\ Append(s, e)[Len(s) + 1] = e
<1>1. PICK S : s \in Seq(S) /\ e \in S
  <2> DEFINE S == {s[i] : i \in DOMAIN s} \cup {e}
  <2>1. s \in Seq(S) /\ e \in S
    BY DEF Listing
  <2> QED
    BY <2>1
<1>2. Append(s, e) \in Seq(S)
  BY <1>1
<1>3. Append(s, e) \in Seq({Append(s, e)[i] : i \in DOMAIN Append(s, e)})
  BY <1>2
<1>4. Len(s) \in Nat /\ DOMAIN s = 1..Len(s)
  BY <1>1
<1>5. Len(Append(s, e)) = Len(s) + 1
  BY <1>1
<1>6. \A i \in DOMAIN s : Append(s, e)[i] = s[i]
  BY <1>1
<1>7. Append(s, e)[Len(s) + 1] = e
  BY <1>1
<1> QED
  BY <1>3, <1>4, <1>5, <1>6, <1>7 DEF Listing

\* s lists the elements of M at the places at, up to n, in their order: p
\* tells where each comes from.
Picks(s, M, at, n, p) ==
  /\ Listing(s)
  /\ DOMAIN p = 1..Len(s)
  /\ \A i \in 1..Len(s) : p[i] \in at /\ p[i] \in 1..n /\ s[i] = M[p[i]]
  /\ \A i, j \in 1..Len(s) : i < j => p[i] < p[j]
  /\ \A k \in at : k <= n => \E i \in 1..Len(s) : p[i] = k

\* Nothing is picked from nothing.
LEMMA PicksNone ==
  ASSUME NEW M, NEW at \in SUBSET (Nat \ {0})
  PROVE  \E p : Picks(<<>>, M, at, 0, p)
<1>1. PICK s : s = <<>>
  OBVIOUS
<1>2. Listing(s) /\ Len(s) = 0
  BY <1>1 DEF Listing
<1>3. PICK p : p = [i \in 1..Len(s) |-> 0]
  BY Zenon
<1>4. DOMAIN p = 1..Len(s) /\ 1..Len(s) = {}
  BY <1>2, <1>3
<1>5. Picks(s, M, at, 0, p)
  BY <1>2, <1>4 DEF Picks
<1> QED
  BY <1>1, <1>5

\* One more entry is looked at.
LEMMA PicksMore ==
  ASSUME NEW M, NEW at \in SUBSET (Nat \ {0}), NEW n \in Nat, NEW s, NEW p, Picks(s, M, at, n, p)
  PROVE  \E q : Picks(IF n + 1 \in at THEN Append(s, M[n + 1]) ELSE s, M, at, n + 1, q)
<1>0. Listing(s)
  BY DEF Picks
<1>1. PICK m \in Nat : Len(s) = m /\ DOMAIN s = 1..m
  BY <1>0, ListingIs
<1>2. CASE n + 1 \notin at
  <2>1. \A k \in at : k <= n + 1 => k <= n
    BY <1>2
  <2>2. \A i \in 1..m : p[i] \in 1..n + 1
    BY <1>1 DEF Picks
  <2>3. Picks(s, M, at, n + 1, p)
    BY <1>1, <2>1, <2>2 DEF Picks
  <2> QED
    BY <1>2, <2>3
<1>3. CASE n + 1 \in at
  <2>1. PICK t : t = Append(s, M[n + 1])
    BY Zenon
  <2>2. /\ Listing(t) /\ Len(t) = m + 1
        /\ \A i \in 1..m : t[i] = s[i]
        /\ t[m + 1] = M[n + 1]
    BY <1>0, <1>1, <2>1, Appended
  <2>3. PICK q : q = [i \in 1..m + 1 |-> IF i <= m THEN p[i] ELSE n + 1]
    BY Zenon
  <2>4. DOMAIN q = 1..m + 1 /\ q[m + 1] = n + 1 /\ \A i \in 1..m : q[i] = p[i]
    BY <1>1, <2>3
  <2>5. ASSUME NEW i \in 1..m + 1 PROVE q[i] \in at /\ q[i] \in 1..n + 1 /\ t[i] = M[q[i]]
    <3>1. CASE i = m + 1
      BY <1>3, <2>2, <2>4, <3>1
    <3>2. CASE i \in 1..m
      <4>1. p[i] \in at /\ p[i] \in 1..n /\ s[i] = M[p[i]]
        BY <1>1, <3>2 DEF Picks
      <4> QED
        BY <2>2, <2>4, <3>2, <4>1
    <3> QED
      BY <1>1, <3>1, <3>2
  <2>6. ASSUME NEW i \in 1..m + 1, NEW j \in 1..m + 1, i < j PROVE q[i] < q[j]
    <3>1. i \in 1..m /\ p[i] \in 1..n /\ q[i] = p[i]
      BY <1>1, <2>4, <2>6 DEF Picks
    <3>2. CASE j = m + 1
      BY <2>4, <3>1, <3>2
    <3>3. CASE j \in 1..m
      <4>1. p[i] < p[j]
        BY <1>1, <2>6, <3>1, <3>3 DEF Picks
      <4> QED
        BY <2>4, <3>1, <3>3, <4>1
    <3> QED
      BY <1>1, <3>2, <3>3
  <2>7. ASSUME NEW k \in at, k <= n + 1 PROVE \E i \in 1..m + 1 : q[i] = k
    <3>1. CASE k = n + 1
      <4>1. m + 1 \in 1..m + 1
        BY <1>1
      <4> QED
        BY <2>4, <3>1, <4>1
    <3>2. CASE k <= n
      <4>1. PICK i \in 1..m : p[i] = k
        BY <1>1, <2>7, <3>2 DEF Picks
      <4>2. i \in 1..m + 1 /\ q[i] = k
        BY <1>1, <2>4, <4>1
      <4> QED
        BY <4>2
    <3> QED
      BY <2>7, <3>1, <3>2
  <2>8. Picks(t, M, at, n + 1, q)
    BY <2>2, <2>4, <2>5, <2>6, <2>7 DEF Picks
  <2> QED
    BY <1>3, <2>1, <2>8
<1> QED
  BY <1>2, <1>3

\* g is the filtering of the first k elements of M that are at the places at.
Filters(g, M, at, k) ==
  /\ g = [n \in 0..k |-> g[n]]
  /\ g[0] = <<>>
  /\ \A n \in 1..k : g[n] = IF n \in at THEN Append(g[n - 1], M[n]) ELSE g[n - 1]

\* The loop of MiddlewareChain has a next state.
LEMMA FilterStep ==
  ASSUME NEW M, NEW at, NEW k \in Nat, NEW g, Filters(g, M, at, k)
  PROVE \E h : Filters(h, M, at, k + 1)
<1>1. PICK e : e = IF k + 1 \in at THEN Append(g[k], M[k + 1]) ELSE g[k]
  BY Zenon
<1>2. PICK h : h = [n \in 0..k + 1 |-> IF n <= k THEN g[n] ELSE e]
  BY Zenon
<1>3. \A n \in 0..k : h[n] = g[n]
  BY <1>2
<1>4. h[k + 1] = e /\ h[k] = g[k]
  BY <1>2
<1>5. ASSUME NEW n \in 1..k + 1
      PROVE h[n] = IF n \in at THEN Append(h[n - 1], M[n]) ELSE h[n - 1]
  <2>1. CASE n \in 1..k
    <3>1. h[n] = g[n] /\ h[n - 1] = g[n - 1]
      BY <2>1, <1>3
    <3> QED
      BY <3>1, <2>1, Zenon DEF Filters
  <2>2. CASE n = k + 1
    <3>1. n - 1 = k
      BY <2>2
    <3> QED
      BY <3>1, <2>2, <1>1, <1>4
  <2> QED
    BY <2>1, <2>2
<1>6. h[0] = <<>>
  BY <1>3 DEF Filters
<1>7. h = [n \in 0..k + 1 |-> h[n]]
  BY <1>2
<1> QED
  BY <1>5, <1>6, <1>7 DEF Filters

\* And so runs to the end.
LEMMA FilterExists ==
  ASSUME NEW M, NEW at, NEW N \in Nat
  PROVE  \E g : Filters(g, M, at, N)
<1>1. PICK S : S = {k \in Nat : \E g : Filters(g, M, at, k)}
  BY Zenon
<1>2. 0 \in S
  <2>1. Filters([n \in 0..0 |-> <<>>], M, at, 0)
    BY DEF Filters
  <2> QED
    BY <2>1, <1>1
<1>3. ASSUME NEW k \in S PROVE k + 1 \in S
  BY <1>1, <1>3, FilterStep
<1>4. S = Nat
  BY <1>1, <1>2, <1>3, NatSet
<1> QED
  BY <1>1, <1>4

Where(M, target) == {n \in DOMAIN M : middlewarePrefixMatches(M[n].anonPath, target)}

\* MiddlewareChain is what the loop ends with.
LEMMA ChainFilters ==
  ASSUME NEW registry, NEW target, NEW M, M = registry.Middleware, Listing(M)
  PROVE  \E g : Filters(g, M, Where(M, target), Len(M)) /\ MiddlewareChain(registry, target) = g[Len(M)]
<1>0. Len(M) \in Nat /\ DOMAIN M = 1..Len(M)
  BY ListingIs
<1>1. PICK g : Filters(g, M, Where(M, target), Len(M))
  BY FilterExists, <1>0, Zenon
<1>2. g = [n \in 0..Len(M) |-> IF n = 0 THEN <<>>
             ELSE IF middlewarePrefixMatches(M[n].anonPath, target) THEN Append(g[n - 1], M[n])
             ELSE g[n - 1]]
  <2>1. ASSUME NEW n \in 0..Len(M)
        PROVE g[n] = IF n = 0 THEN <<>>
             ELSE IF middlewarePrefixMatches(M[n].anonPath, target) THEN Append(g[n - 1], M[n])
             ELSE g[n - 1]
    <3>1. CASE n = 0
      BY <3>1, <1>1 DEF Filters
    <3>2. CASE n \in 1..Len(M)
      BY <3>2, <1>0, <1>1 DEF Filters, Where
    <3> QED
      BY <1>0, <3>1, <3>2
  <2> QED
    BY <2>1, <1>1, Zenon DEF Filters
<1>3. PICK f : f = CHOOSE h : h = [n \in 0..Len(M) |-> IF n = 0 THEN <<>>
             ELSE IF middlewarePrefixMatches(M[n].anonPath, target) THEN Append(h[n - 1], M[n])
             ELSE h[n - 1]]
  OBVIOUS
<1>4. f = [n \in 0..Len(M) |-> IF n = 0 THEN <<>>
             ELSE IF middlewarePrefixMatches(M[n].anonPath, target) THEN Append(f[n - 1], M[n])
             ELSE f[n - 1]]
  BY <1>2, <1>3, Zenon
<1>5. MiddlewareChain(registry, target) = f[Len(M)]
  BY <1>3 DEF MiddlewareChain
<1>6. f = [n \in 0..Len(M) |-> f[n]]
  BY <1>4
<1>7. f[0] = <<>>
  BY <1>0, <1>4
<1>8. ASSUME NEW n \in 1..Len(M) PROVE f[n] = IF n \in Where(M, target) THEN Append(f[n - 1], M[n]) ELSE f[n - 1]
  <2>1. f[n] = IF middlewarePrefixMatches(M[n].anonPath, target) THEN Append(f[n - 1], M[n]) ELSE f[n - 1]
    <3>1. n \in 0..Len(M) /\ n # 0
      BY <1>0
    <3> QED
      BY <1>4, <3>1, Zenon
  <2> QED
    BY <2>1, <1>0 DEF Where
<1>9. Filters(f, M, Where(M, target), Len(M))
  BY <1>6, <1>7, <1>8, SMTT(30), ZenonT(30) DEF Filters
<1> QED
  BY <1>5, <1>9

\* The chain of a path lists the middleware that covers it, each once and in
\* the order of the registry.
LEMMA ChainPicks ==
  ASSUME NEW registry, NEW target, NEW M, M = registry.Middleware, Listing(M)
  PROVE  \E p : Picks(MiddlewareChain(registry, target), M, Where(M, target), Len(M), p)
<1>0. PICK N \in Nat : N = Len(M) /\ DOMAIN M = 1..N
  BY ListingIs
<1>1. PICK at : at = Where(M, target)
  OBVIOUS
<1>2. at \in SUBSET (Nat \ {0})
  BY <1>0, <1>1 DEF Where
<1>3. PICK g : Filters(g, M, at, N) /\ MiddlewareChain(registry, target) = g[N]
  BY <1>0, <1>1, ChainFilters
<1>4. PICK S : S = {n \in Nat : n <= N => \E p : Picks(g[n], M, at, n, p)}
  BY Zenon
<1>5. 0 \in S
  <2>1. g[0] = <<>>
    BY <1>3 DEF Filters
  <2> QED
    BY <1>2, <1>4, <2>1, PicksNone, SMTT(30), ZenonT(30)
<1>6. ASSUME NEW n \in S PROVE n + 1 \in S
  <2>1. CASE n + 1 <= N
    <3>1. n \in Nat /\ n + 1 \in 1..N /\ (n + 1) - 1 = n
      BY <1>0, <1>4, <2>1
    <3>2. PICK p : Picks(g[n], M, at, n, p)
      BY <1>0, <1>4, <2>1, <3>1
    <3>3. PICK t : t = IF n + 1 \in at THEN Append(g[n], M[n + 1]) ELSE g[n]
      BY Zenon
    <3>4. g[n + 1] = t
      BY <1>3, <3>1, <3>3, Zenon DEF Filters
    <3>5. \E q : Picks(t, M, at, n + 1, q)
      BY <1>2, <3>1, <3>2, <3>3, PicksMore
    <3> QED
      BY <1>4, <3>1, <3>4, <3>5
  <2> QED
    BY <1>4, <2>1
<1>7. S = Nat
  BY <1>4, <1>5, <1>6, NatSet
<1>8. \E p : Picks(g[N], M, at, N, p)
  BY <1>0, <1>4, <1>7
<1> QED
  BY <1>0, <1>1, <1>3, <1>8

Covering(registry, target) == {m \in Range(registry.Middleware) : middlewarePrefixMatches(m.anonPath, target)}

\* A chain runs each of some gates once, an outer one before an inner one.
Covers(full, gates) ==
  /\ Listing(full)
  /\ {full[i].fn : i \in DOMAIN full} = {m.fn : m \in gates}
  /\ \A i, j \in DOMAIN full : full[i].fn = full[j].fn => i = j
  /\ \A a, b \in gates : \A i, j \in DOMAIN full :
       full[i].fn = a.fn /\ full[j].fn = b.fn /\ Leads(a.anonPath, b.anonPath) /\ a.anonPath # b.anonPath => i < j

\* The chain of a path runs each middleware whose path is a prefix of it
\* exactly once, an outer one before an inner one (MiddlewareChain).
THEOREM ChainCovers ==
  ASSUME NEW registry, WellFormed(registry), NEW target, NEW full, full = MiddlewareChain(registry, target)
  PROVE  Covers(full, Covering(registry, target))
<1>0. PICK M : M = registry.Middleware
  OBVIOUS
<1>1. /\ Listing(M)
      /\ \A i, j \in DOMAIN M : M[i].fn = M[j].fn => i = j
      /\ \A i, j \in DOMAIN M : Leads(M[i].anonPath, M[j].anonPath) /\ M[i].anonPath # M[j].anonPath => i < j
  BY <1>0 DEF WellFormed
<1>2. PICK N \in Nat : N = Len(M) /\ DOMAIN M = 1..N
  BY <1>1, ListingIs
<1>3. PICK at : at = Where(M, target)
  OBVIOUS
<1>4. at \subseteq DOMAIN M /\ \A m : m \in Covering(registry, target) <=> \E n \in at : m = M[n]
  BY <1>0, <1>3 DEF Where, Covering, Range
<1>5. PICK p : Picks(full, M, at, N, p)
  BY <1>0, <1>1, <1>2, <1>3, ChainPicks
<1>6. Listing(full)
  BY <1>5 DEF Picks
<1>7. PICK m \in Nat : Len(full) = m /\ DOMAIN full = 1..m
  BY <1>6, ListingIs
<1>8. \A i \in 1..m : p[i] \in at /\ p[i] \in 1..N /\ full[i] = M[p[i]]
  BY <1>5, <1>7 DEF Picks
<1>9. \A i, j \in 1..m : i < j => p[i] < p[j]
  BY <1>5, <1>7 DEF Picks
<1>10. \A k \in at : \E i \in 1..m : p[i] = k
  BY <1>2, <1>4, <1>5, <1>7 DEF Picks
<1>11. {full[i].fn : i \in 1..m} = {x.fn : x \in Covering(registry, target)}
  <2>1. ASSUME NEW i \in 1..m PROVE full[i] \in Covering(registry, target)
    BY <1>4, <1>8
  <2>2. ASSUME NEW x \in Covering(registry, target) PROVE \E i \in 1..m : full[i] = x
    BY <1>4, <1>8, <1>10
  <2> QED
    BY <2>1, <2>2
<1>12. ASSUME NEW i \in 1..m, NEW j \in 1..m, full[i].fn = full[j].fn PROVE i = j
  <2>1. p[i] = p[j] /\ p[i] \in Int
    BY <1>1, <1>2, <1>8, <1>12
  <2>2. ~(i < j) /\ ~(j < i)
    BY <1>9, <2>1
  <2> QED
    BY <1>7, <2>2
<1>13. ASSUME NEW a \in Covering(registry, target), NEW b \in Covering(registry, target), NEW i \in 1..m, NEW j \in 1..m,
              full[i].fn = a.fn, full[j].fn = b.fn, Leads(a.anonPath, b.anonPath), a.anonPath # b.anonPath
       PROVE  i < j
  <2>1. PICK k \in at : a = M[k]
    BY <1>4
  <2>2. PICK l \in at : b = M[l]
    BY <1>4
  <2>3. p[i] = k /\ p[j] = l
    BY <1>1, <1>2, <1>4, <1>8, <1>13, <2>1, <2>2, SMTT(30), ZenonT(30)
  <2>4. k < l
    BY <1>1, <1>4, <1>13, <2>1, <2>2
  <2>5. i # j /\ ~(j < i)
    BY <1>2, <1>4, <1>9, <2>3, <2>4
  <2> QED
    BY <1>7, <2>5
<1> QED
  BY <1>6, <1>7, <1>11, <1>12, <1>13, ZenonT(30) DEF Covers

-----------------------------------------------------------------------------
(* Dispatch.                                                               *)

\* Two routes that match one path differ in a literal, if at all.
LEMMA MatchesDiffer ==
  ASSUME NEW a, NEW b, NEW path, Listing(path), Matches(a, path), Matches(b, path),
         Listing(a.path), Listing(b.path), a.anonPath = anonymizePath(a.path), b.anonPath = anonymizePath(b.path)
  PROVE  a.anonPath = b.anonPath \/ MoreLiteral(a, b) \/ MoreLiteral(b, a)
<1>1. PICK n \in Nat : DOMAIN path = 1..n /\ DOMAIN a.path = 1..n /\ DOMAIN b.path = 1..n
  BY ListingIs DEF Matches
<1>2. PICK x : x = a.anonPath
  OBVIOUS
<1>3. PICK y : y = b.anonPath
  OBVIOUS
<1>4. x = [i \in 1..n |-> x[i]] /\ y = [i \in 1..n |-> y[i]]
  BY <1>1, <1>2, <1>3 DEF anonymizePath
<1>5. \A i \in 1..n : x[i] \in {Anonymous, path[i]} /\ y[i] \in {Anonymous, path[i]}
  BY <1>1, <1>2, <1>3, Zenon DEF anonymizePath, Matches
<1>6. ASSUME x # y PROVE MoreLiteral(a, b) \/ MoreLiteral(b, a)
  <2>1. PICK D : D = {i \in 1..n : x[i] # y[i]}
    BY Zenon
  <2>2. D # {} /\ D \in SUBSET Nat
    BY <1>4, <1>6, <2>1
  <2>3. PICK i \in D : \A j \in D : i <= j
    BY <2>2, LeastExists
  <2>4. i \in 1..n /\ x[i] # y[i]
    BY <2>1, <2>3
  <2>5. \A j \in 1..i-1 : x[j] = y[j]
    <3>1. ASSUME NEW j \in 1..i-1 PROVE x[j] = y[j]
      <4>1. j \in 1..n /\ ~(i <= j)
        BY <1>1, <2>4
      <4> QED
        BY <2>1, <2>3, <4>1
    <3> QED
      BY <3>1
  <2>6. (x[i] # Anonymous /\ y[i] = Anonymous) \/ (y[i] # Anonymous /\ x[i] = Anonymous)
    BY <1>5, <2>4
  <2>7. DOMAIN x = 1..n /\ DOMAIN y = 1..n
    BY <1>4
  <2> QED
    BY <1>2, <1>3, <2>4, <2>5, <2>6, <2>7 DEF MoreLiteral
<1> QED
  BY <1>2, <1>3, <1>6

\* A request reaches one route at most: of two that match its path and method
\* one has a literal where the other has a placeholder, or they are one
\* (RegisterRoutes, chi's order).
THEOREM ReachedIsOne ==
  ASSUME NEW registry, WellFormed(registry), NEW method, NEW path, Listing(path)
  PROVE  \A a, b \in Reached(registry, method, path).routes : a = b
<1>1. PICK best : best = {r \in Range(registry.Routes) : Matches(r, path) /\ method \in r.methods}
  BY Zenon
<1>2. PICK R : R = Reached(registry, method, path).routes
  OBVIOUS
<1>3. R = {r \in best : \A s \in best : ~MoreLiteral(s, r)}
  BY <1>1, <1>2 DEF Reached
<1>4. ASSUME NEW a \in R, NEW b \in R PROVE a = b
  <2>1. a \in best /\ b \in best /\ ~MoreLiteral(a, b) /\ ~MoreLiteral(b, a)
    BY <1>3, <1>4
  <2>2. /\ a \in Range(registry.Routes) /\ b \in Range(registry.Routes)
        /\ Matches(a, path) /\ Matches(b, path)
        /\ method \in a.methods /\ method \in b.methods
    BY <1>1, <2>1
  <2>3. /\ Listing(a.path) /\ a.anonPath = anonymizePath(a.path)
        /\ Listing(b.path) /\ b.anonPath = anonymizePath(b.path)
    BY <2>2 DEF WellFormed
  <2>4. a.anonPath = b.anonPath
    BY <2>1, <2>2, <2>3, MatchesDiffer
  <2>5. methodsOverlap(a.methods, b.methods)
    BY <2>2 DEF methodsOverlap
  <2> QED
    BY <2>2, <2>4, <2>5 DEF WellFormed
<1> QED
  BY <1>2, <1>4

-----------------------------------------------------------------------------
(* What was said last, over a sequence of responses.                       *)

\* LastSaid, of any sequence of hearings.
LastOfKey(said, key) ==
  LET set == {i \in DOMAIN said : said[i][key] # "unset"}
  IN IF set = {} THEN "unset" ELSE said[CHOOSE i \in set : \A j \in set : j <= i][key]

\* A set of places in a sequence has a last one.
LEMMA LastExists ==
  ASSUME NEW n \in Nat, NEW set \in SUBSET (1..n), set # {}
  PROVE  \E i \in set : \A j \in set : j <= i
<1>1. PICK k \in set : TRUE
  BY Zenon
<1>2. {n - i : i \in set} \in SUBSET Nat /\ {n - i : i \in set} # {}
  BY <1>1
<1>3. PICK m \in {n - i : i \in set} : \A k2 \in {n - i : i \in set} : m <= k2
  BY <1>2, LeastExists, Zenon
<1>4. PICK i \in set : m = n - i
  BY <1>3
<1>5. ASSUME NEW j \in set PROVE j <= i
  <2>1. n - i <= n - j
    BY <1>3, <1>4
  <2> QED
    BY <2>1
<1> QED
  BY <1>5

\* A function that sets a key has the last word on it, one that does not
\* leaves the word as it was.
LEMMA LastAppend ==
  ASSUME NEW said, Listing(said), NEW e, NEW key, NEW v, v = e[key]
  PROVE  /\ v # "unset" => LastOfKey(Append(said, e), key) = v
         /\ v = "unset" => LastOfKey(Append(said, e), key) = LastOfKey(said, key)
<1>0. PICK s : s = Append(said, e)
  BY Zenon
<1>1. PICK n \in Nat : n = Len(said) /\ DOMAIN said = 1..n
  BY ListingIs
<1>2. DOMAIN s = 1..(n+1) /\ s[n+1] = e /\ \A i \in 1..n : s[i] = said[i]
  BY <1>0, <1>1, Appended
<1>3. PICK old : old = {i \in DOMAIN said : said[i][key] # "unset"}
  BY Zenon
<1>4. PICK new : new = {i \in DOMAIN s : s[i][key] # "unset"}
  BY Zenon
<1>5. CASE e[key] # "unset"
  <2>1. n + 1 \in new /\ \A j \in new : j <= n + 1
    BY <1>2, <1>4, <1>5
  <2>2. (CHOOSE i \in new : \A j \in new : j <= i) = n + 1
    <3>1. PICK c : c = CHOOSE i \in new : \A j \in new : j <= i
      OBVIOUS
    <3>2. c \in new /\ \A j \in new : j <= c
      BY <2>1, <3>1
    <3>3. c \in Int /\ c <= n + 1 /\ n + 1 <= c
      BY <1>2, <1>4, <2>1, <3>2
    <3> QED
      BY <3>1, <3>3
  <2>3. LastOfKey(s, key) = s[n + 1][key]
    BY <1>4, <2>1, <2>2, ZenonT(30) DEF LastOfKey
  <2> QED
    BY <1>0, <1>2, <1>5, <2>3
<1>6. CASE e[key] = "unset"
  <2>1. new = old
    BY <1>1, <1>2, <1>3, <1>4, <1>6, SMTT(30), ZenonT(30)
  <2>2. CASE old = {}
    BY <1>0, <1>3, <1>4, <1>6, <2>1, <2>2 DEF LastOfKey
  <2>3. CASE old # {}
    <3>1. PICK c : c = CHOOSE i \in old : \A j \in old : j <= i
      OBVIOUS
    <3>2. \E i \in old : \A j \in old : j <= i
      BY <1>1, <1>3, <2>3, LastExists, ZenonT(30)
    <3>3. c \in old
      BY <3>1, <3>2
    <3>4. s[c] = said[c]
      BY <1>1, <1>2, <1>3, <3>3
    <3>5. LastOfKey(s, key) = s[c][key] /\ LastOfKey(said, key) = said[c][key]
      BY <1>3, <1>4, <2>1, <2>3, <3>1, Zenon DEF LastOfKey
    <3> QED
      BY <1>0, <1>6, <3>4, <3>5
  <2> QED
    BY <2>2, <2>3
<1> QED
  BY <1>0, <1>5, <1>6

-----------------------------------------------------------------------------
(* Cookies.                                                                *)

\* The renewals among them.
Renewed(cookies) == {i \in DOMAIN cookies : cookies[i].op = "set"}
EndsIn(cookies, op) == cookies # <<>> /\ cookies[Len(cookies)].op = op
AllSet(cookies) == \A i \in DOMAIN cookies : cookies[i].op = "set"

\* Adding one cookie, and none.
LEMMA ConcatIs ==
  ASSUME NEW s, NEW e, Listing(s)
  PROVE s \o <<e>> = Append(s, e) /\ s \o <<>> = s
<1>1. PICK S : s \in Seq(S) /\ e \in S
  <2> DEFINE S == {s[i] : i \in DOMAIN s} \cup {e}
  <2>1. s \in Seq(S) /\ e \in S
    BY DEF Listing
  <2> QED
    BY <2>1
<1>2. <<e>> \in Seq(S) /\ <<>> \in Seq(S)
  BY <1>1
<1>3. s \o <<>> = s
  BY <1>1, <1>2
<1>4. s \o <<e>> = Append(s, e)
  <2>1. PICK a, b : a = s \o <<e>> /\ b = Append(s, e)
    BY Zenon
  <2>2. a \in Seq(S) /\ b \in Seq(S) /\ Len(a) = Len(s) + 1 /\ Len(b) = Len(s) + 1
    BY <1>1, <1>2, <2>1
  <2>3. \A i \in 1..Len(s) : a[i] = s[i] /\ b[i] = s[i]
    BY <1>1, <1>2, <2>1
  <2>4. a[Len(s) + 1] = e /\ b[Len(s) + 1] = e
    BY <1>1, <1>2, <2>1
  <2>5. \A i \in 1..Len(a) : a[i] = b[i]
    BY <1>1, <2>2, <2>3, <2>4
  <2> QED
    BY <2>1, <2>2, <2>5
<1> QED
  BY <1>3, <1>4

\* What one more cookie does to the renewals.
LEMMA OneMore ==
  ASSUME NEW c, Listing(c), NEW e, NEW z, z = c \o <<e>>
  PROVE  /\ Listing(z) /\ z # <<>> /\ z[Len(z)] = e
         /\ e.op = "set" => /\ AllSet(c) => AllSet(z)
                            /\ Renewed(c) = {} => \A i, j \in Renewed(z) : i = j
         /\ e.op # "set" => Renewed(z) = Renewed(c)
<1>1. z = Append(c, e)
  BY ConcatIs
<1>2. PICK n : n = Len(c) + 1
  OBVIOUS
<1>3. /\ Listing(z) /\ Len(z) = n /\ n \in Nat /\ n > 0 /\ DOMAIN z = DOMAIN c \cup {n} /\ n \notin DOMAIN c
      /\ z[n] = e /\ \A i \in DOMAIN c : z[i] = c[i]
  <2>0. /\ Listing(Append(c, e)) /\ Len(c) \in Nat /\ DOMAIN c = 1..Len(c) /\ Len(Append(c, e)) = Len(c) + 1
        /\ \A i \in DOMAIN c : Append(c, e)[i] = c[i]
        /\ Append(c, e)[Len(c) + 1] = e
    BY Appended
  <2>1. /\ Listing(z) /\ Len(c) \in Nat /\ DOMAIN c = 1..Len(c) /\ Len(z) = n
        /\ \A i \in DOMAIN c : z[i] = c[i]
        /\ z[n] = e
    BY <1>1, <1>2, <2>0, Zenon
  <2>2. DOMAIN z = 1..n
    BY <2>1, ListingIs
  <2> QED
    BY <1>2, <2>1, <2>2
<1>4. z # <<>>
  BY <1>3
<1>5. e.op = "set" => /\ AllSet(c) => AllSet(z)
                      /\ Renewed(c) = {} => \A i, j \in Renewed(z) : i = j
  BY <1>3 DEF AllSet, Renewed
<1>6. e.op # "set" => Renewed(z) = Renewed(c)
  BY <1>3 DEF Renewed
<1> QED
  BY <1>3, <1>4, <1>5, <1>6

\* A login or a logout goes behind what is there.
LEMMA WordAdded ==
  ASSUME NEW c, Listing(c), NEW e, e.op # "set", NEW z, z = c \o <<e>>
  PROVE  Listing(z) /\ Renewed(z) = Renewed(c) /\ EndsIn(z, e.op)
<1>1. Listing(z) /\ z # <<>> /\ z[Len(z)] = e /\ Renewed(z) = Renewed(c)
  BY OneMore, Zenon
<1> QED
  BY <1>1 DEF EndsIn

\* No cookie changes nothing.
LEMMA NothingAdded ==
  ASSUME NEW c, Listing(c), NEW z, z = c \o <<>>
  PROVE  z = c
BY ConcatIs

-----------------------------------------------------------------------------
(* A chain and what of it has run.                                         *)

\* What was heard so far is the start of the chain, the rest is still to run.
InChain(full, said, chain) ==
  /\ Listing(full) /\ Listing(said) /\ Listing(chain)
  /\ Len(full) = Len(said) + Len(chain)
  /\ \A i \in DOMAIN said : said[i].fn = full[i].fn /\ said[i].from = "middleware"
  /\ \A i \in DOMAIN chain : chain[i] = full[Len(said) + i]

\* The whole chain was heard, and then at most the route's function.
PastChain(full, said) ==
  /\ Listing(full) /\ Listing(said)
  /\ Len(full) <= Len(said)
  /\ \A i \in DOMAIN full : said[i].fn = full[i].fn
  /\ \A i \in DOMAIN said : said[i].from = "middleware" <=> i <= Len(full)

\* One more function was heard.
OneMoreSaid(said, s, fn, from) ==
  /\ Listing(s) /\ Len(s) = Len(said) + 1
  /\ \A i \in DOMAIN said : s[i] = said[i]
  /\ s[Len(said) + 1].fn = fn /\ s[Len(said) + 1].from = from

\* The empty sequence.
LEMMA EmptyListing == Listing(<<>>) /\ Len(<<>>) = 0 /\ DOMAIN <<>> = {}
BY DEF Listing

\* Every sequence is a listing.
LEMMA SeqListing ==
  ASSUME NEW S, NEW t \in Seq(S)
  PROVE  Listing(t) /\ DOMAIN t = 1..Len(t)
BY DEF Listing

\* Before any middleware ran.
LEMMA ChainStarts ==
  ASSUME NEW full, Listing(full)
  PROVE  InChain(full, <<>>, full)
<1>1. Len(full) \in Nat /\ DOMAIN full = 1..Len(full)
  BY ListingIs
<1> QED
  BY <1>1, EmptyListing DEF InChain

\* One more middleware.
LEMMA ChainOn ==
  ASSUME NEW full, NEW said, NEW chain, InChain(full, said, chain), chain # <<>>, NEW fn, fn = Head(chain).fn,
         NEW s, OneMoreSaid(said, s, fn, "middleware"), NEW t, t = Tail(chain)
  PROVE  InChain(full, s, t)
<1>1. PICK m, n, k : m = Len(full) /\ n = Len(said) /\ k = Len(chain)
  BY Zenon
<1>2. /\ Listing(full) /\ Listing(said) /\ Listing(chain)
      /\ m \in Nat /\ n \in Nat /\ k \in Nat /\ DOMAIN full = 1..m /\ DOMAIN said = 1..n /\ DOMAIN chain = 1..k
      /\ m = n + k
  BY <1>1, ListingIs DEF InChain
<1>3. k > 0
  BY <1>1, <1>2 DEF Listing
<1>4. Head(chain) = chain[1] /\ chain[1] = full[n + 1]
  BY <1>1, <1>2, <1>3 DEF InChain
<1>5. Listing(t) /\ Len(t) = k - 1 /\ DOMAIN t = 1..k-1 /\ \A i \in 1..k-1 : t[i] = chain[i + 1]
  <2>1. PICK S : chain \in Seq(S)
    BY <1>2 DEF Listing
  <2>2. t \in Seq(S) /\ Len(t) = k - 1 /\ \A i \in 1..k-1 : t[i] = chain[i + 1]
    BY <1>1, <1>2, <1>3, <2>1
  <2>3. Listing(t) /\ DOMAIN t = 1..Len(t)
    BY <2>2, SeqListing, Zenon
  <2> QED
    BY <2>2, <2>3
<1>6. /\ Listing(s) /\ Len(s) = n + 1 /\ \A i \in 1..n : s[i] = said[i]
      /\ s[n + 1].fn = full[n + 1].fn /\ s[n + 1].from = "middleware"
  BY <1>1, <1>2, <1>4, Zenon DEF OneMoreSaid
<1>7. DOMAIN s = 1..n+1
  BY <1>6, ListingIs
<1>8. \A i \in DOMAIN s : s[i].fn = full[i].fn /\ s[i].from = "middleware"
  <2>1. \A i \in 1..n : said[i].fn = full[i].fn /\ said[i].from = "middleware"
    BY <1>2, Zenon DEF InChain
  <2> QED
    BY <1>2, <1>6, <1>7, <2>1
<1>9. \A i \in DOMAIN t : t[i] = full[Len(s) + i]
  <2>1. \A i \in 1..k : chain[i] = full[n + i]
    BY <1>1, <1>2, ZenonT(30) DEF InChain
  <2>2. ASSUME NEW i \in 1..k-1 PROVE t[i] = full[n + 1 + i]
    <3>1. i + 1 \in 1..k /\ n + (i + 1) = n + 1 + i
      BY <1>2
    <3> QED
      BY <1>5, <2>1, <3>1
  <2> QED
    BY <1>5, <1>6, <2>2
<1>10. Len(full) = Len(s) + Len(t)
  BY <1>1, <1>2, <1>5, <1>6
<1> QED
  BY <1>2, <1>5, <1>6, <1>8, <1>9, <1>10, Zenon DEF InChain

\* The chain has come to its end.
LEMMA ChainOver ==
  ASSUME NEW full, NEW said, InChain(full, said, <<>>)
  PROVE  PastChain(full, said)
<1>1. /\ Listing(full) /\ Listing(said) /\ Len(full) = Len(said) + 0
      /\ \A i \in DOMAIN said : said[i].fn = full[i].fn /\ said[i].from = "middleware"
  BY EmptyListing DEF InChain
<1>2. Len(said) \in Nat /\ DOMAIN said = 1..Len(said) /\ Len(full) \in Nat /\ DOMAIN full = 1..Len(full)
  BY <1>1, ListingIs
<1> QED
  BY <1>1, <1>2 DEF PastChain

\* The route's function behind it.
LEMMA PastOn ==
  ASSUME NEW full, NEW said, PastChain(full, said), NEW fn, NEW from, from # "middleware",
         NEW s, OneMoreSaid(said, s, fn, from)
  PROVE  PastChain(full, s)
<1>1. PICK m, n : m = Len(full) /\ n = Len(said)
  BY ZenonT(30)
<1>2. /\ Listing(full) /\ Listing(said) /\ m \in Nat /\ n \in Nat /\ DOMAIN full = 1..m /\ DOMAIN said = 1..n /\ m <= n
  BY <1>1, ListingIs DEF PastChain
<1>3. Listing(s) /\ Len(s) = n + 1 /\ (\A i \in 1..n : s[i] = said[i]) /\ s[n + 1].from = from
  BY <1>1, <1>2 DEF OneMoreSaid
<1>4. DOMAIN s = 1..n+1
  BY <1>3, ListingIs
<1>5. \A i \in DOMAIN full : s[i].fn = full[i].fn
  BY <1>2, <1>3 DEF PastChain
<1>6. \A i \in 1..n : said[i].from = "middleware" <=> i <= m
  BY <1>1, <1>2 DEF PastChain
<1>7. ASSUME NEW i \in 1..n+1 PROVE s[i].from = "middleware" <=> i <= m
  <2>1. CASE i \in 1..n
    BY <1>3, <1>6, <2>1
  <2>2. CASE i = n + 1
    <3>1. ~(i <= m)
      BY <1>2, <2>2
    <3> QED
      BY <1>3, <2>2, <3>1
  <2> QED
    BY <1>2, <2>1, <2>2
<1> QED
  BY <1>1, <1>2, <1>3, <1>4, <1>5, <1>7 DEF PastChain

=============================================================================
