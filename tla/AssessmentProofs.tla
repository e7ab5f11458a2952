--------------------------- MODULE AssessmentProofs ---------------------------
(***************************************************************************)
(* Theorems about the figures (Budgeting) and the file of a case           *)
(* (CaseRecords), for any statement, any shares and any case type.         *)
(*                                                                         *)
(* The totals are sums over data.  What a sum is follows by induction over *)
(* the sets that are summed, here in the form Grows: a family of sets that *)
(* has the empty set, and with a set that set and one element more, has    *)
(* every finite set.                                                       *)
(***************************************************************************)
EXTENDS CaseRecords, Budgeting, FiniteSetTheorems, WellFoundedInduction, SequenceTheorems, FunctionTheorems, TLAPS

\* What a fold takes first.
Pick(s) == CHOOSE x \in s : TRUE

\* g sums f over every set of indices, taking them one by one.
Sums(g, f, D) ==
    g = [s \in SUBSET D |-> IF s = {} THEN 0 ELSE f[Pick(s)] + g[s \ {Pick(s)}]]

\* The table that SumPence and Score look their answer up in.
Partial(f, D) == CHOOSE g : Sums(g, f, D)

-----------------------------------------------------------------------------
\* A family of subsets of a finite set has one that none of it is within.
LEMMA Smallest ==
    ASSUME NEW D, IsFiniteSet(D), NEW family \in SUBSET SUBSET D, family # {}
    PROVE  \E least \in family : \A s \in family : s \subseteq least => s = least
<1>1. IsWellFoundedOn(StrictSubsetOrdering(D), SUBSET D)
  BY FS_StrictSubsetOrderingWellFounded, FS_FiniteSubsetsOfFinite
<1>2. PICK least \in family : \A s \in family : ~(<<s, least>> \in StrictSubsetOrdering(D))
  BY <1>1, WFMin
<1> QED BY <1>2 DEF StrictSubsetOrdering

\* Induction over the subsets of a finite set.
LEMMA Grows ==
    ASSUME NEW D, IsFiniteSet(D), NEW family \in SUBSET SUBSET D, {} \in family,
           \A s \in family : \A x \in D \ s : s \cup {x} \in family
    PROVE  \A s \in SUBSET D : s \in family
<1> SUFFICES ASSUME NEW odd \in SUBSET D, odd \notin family PROVE FALSE
  OBVIOUS
<1> DEFINE rest == (SUBSET D) \ family
<1>1. PICK least \in rest : \A s \in rest : s \subseteq least => s = least
  <2>1. rest \in SUBSET SUBSET D /\ rest # {}
    OBVIOUS
  <2> HIDE DEF rest
  <2> QED BY <2>1, Smallest
<1>2. PICK x : x \in least
  OBVIOUS
<1>3. least \ {x} \in family
  BY <1>1, <1>2
<1>4. (least \ {x}) \cup {x} = least
  BY <1>2
<1> QED BY <1>2, <1>3, <1>4

LEMMA PickIsIn ==
    ASSUME NEW s, s # {}
    PROVE  Pick(s) \in s
BY DEF Pick

\* There is such a table, and what it says are whole numbers.
LEMMA SumsExist ==
    ASSUME NEW D, IsFiniteSet(D), NEW f \in [D -> Int]
    PROVE  \E g \in [SUBSET D -> Int] : Sums(g, f, D)
<1> DEFINE Right(g, s) == g[s] = IF s = {} THEN 0 ELSE f[Pick(s)] + g[s \ {Pick(s)}]
           \* Some table is right for every set up to the size of that one.
           UpTo(n) == {s \in SUBSET D : Cardinality(s) <= n}
           reached == {s \in SUBSET D : \E g \in [SUBSET D -> Int] :
                         \A t \in UpTo(Cardinality(s)) : Right(g, t)}
<1>s. ASSUME NEW s \in SUBSET D PROVE IsFiniteSet(s) /\ Cardinality(s) \in Nat
  BY FS_Subset, FS_CardinalityType
<1>1. {} \in reached
  <2> DEFINE g == [s \in SUBSET D |-> 0]
  <2>1. g \in [SUBSET D -> Int]
    OBVIOUS
  <2>2. ASSUME NEW t \in UpTo(Cardinality({})) PROVE Right(g, t)
    BY <1>s, FS_EmptySet
  <2> QED BY <2>1, <2>2
<1>2. ASSUME NEW s \in reached, NEW x \in D \ s PROVE s \cup {x} \in reached
  <2> DEFINE n == Cardinality(s)
  <2>1. PICK g \in [SUBSET D -> Int] : \A t \in UpTo(n) : Right(g, t)
    OBVIOUS
  <2> DEFINE h == [t \in SUBSET D |-> IF t = {} THEN 0
                                      ELSE IF Cardinality(t) <= n THEN g[t]
                                      ELSE f[Pick(t)] + g[t \ {Pick(t)}]]
  <2>2. n \in Nat /\ Cardinality(s \cup {x}) = n + 1
    BY <1>s, FS_AddElement
  <2>3. ASSUME NEW t \in SUBSET D, t # {} PROVE Pick(t) \in t /\ f[Pick(t)] \in Int
    BY <2>3, PickIsIn
  <2>4. h \in [SUBSET D -> Int]
    BY <2>3
  <2>5. ASSUME NEW t \in UpTo(n + 1) PROVE Right(h, t)
    <3>1. CASE t = {}
      BY <3>1
    <3>2. CASE t # {}
      <4> DEFINE u == t \ {Pick(t)}
      <4>1. Pick(t) \in t /\ u \in SUBSET D
        BY <2>3, <3>2
      <4>2. Cardinality(u) = Cardinality(t) - 1 /\ Cardinality(t) \in Nat
        BY <1>s, <4>1, FS_RemoveElement
      <4>3. u \in UpTo(n)
        BY <2>2, <4>1, <4>2, <1>s
      <4>4. h[u] = g[u]
        BY <2>1, <4>1, <4>3
      <4>5. h[t] = f[Pick(t)] + g[u]
        BY <2>1, <3>2, <4>1
      <4> QED BY <3>2, <4>4, <4>5
    <3> QED BY <3>1, <3>2
  <2> HIDE DEF h
  <2>6. \A t \in UpTo(Cardinality(s \cup {x})) : Right(h, t)
    BY <2>2, <2>5
  <2> QED BY <2>4, <2>6
<1> HIDE DEF reached
<1>3. D \in reached
  <2>1. reached \in SUBSET SUBSET D
    BY DEF reached
  <2> QED BY <1>1, <1>2, <2>1, Grows
<1>4. PICK g \in [SUBSET D -> Int] : \A t \in UpTo(Cardinality(D)) : Right(g, t)
  BY <1>3 DEF reached
<1>5. ASSUME NEW s \in SUBSET D PROVE Right(g, s)
  <2>1. Cardinality(s) <= Cardinality(D)
    BY FS_Subset
  <2> QED BY <1>4, <2>1
<1>6. Sums(g, f, D)
  BY <1>5 DEF Sums
<1> QED BY <1>6

\* A table of sums: the empty sum is nought, and any index may be taken first.
Adds(g, f, D) ==
    /\ g \in [SUBSET D -> Int] /\ g[{}] = 0
    /\ \A s \in SUBSET D : \A x \in s : g[s] = f[x] + g[s \ {x}]

LEMMA SumsAdd ==
    ASSUME NEW D, IsFiniteSet(D), NEW f \in [D -> Int], NEW g \in [SUBSET D -> Int], Sums(g, f, D)
    PROVE  Adds(g, f, D)
<1> DEFINE odd == {s \in SUBSET D : \E x \in s : g[s] # f[x] + g[s \ {x}]}
<1>1. g[{}] = 0
  BY DEF Sums
<1>2. ASSUME odd # {} PROVE FALSE
  <2>1. PICK s \in odd : \A t \in odd : t \subseteq s => t = s
    <3>1. odd \in SUBSET SUBSET D
      OBVIOUS
    <3> HIDE DEF odd
    <3> QED BY <1>2, <3>1, Smallest
  <2>2. PICK x \in s : g[s] # f[x] + g[s \ {x}]
    OBVIOUS
  <2> DEFINE y == Pick(s)
  <2>3. y \in s /\ g[s] = f[y] + g[s \ {y}]
    BY PickIsIn DEF Sums
  <2>4. x # y
    BY <2>2, <2>3
  <2>5. (s \ {x}) \ {y} = (s \ {y}) \ {x}
    OBVIOUS
  <2>6. s \ {y} \notin odd /\ s \ {x} \notin odd
    BY <2>1, <2>2, <2>3
  <2> HIDE DEF y
  <2>7. g[s \ {y}] = f[x] + g[(s \ {y}) \ {x}] /\ g[s \ {x}] = f[y] + g[(s \ {x}) \ {y}]
    BY <2>3, <2>4, <2>6
  <2> DEFINE both == g[(s \ {y}) \ {x}]
  <2>8. f[x] \in Int /\ f[y] \in Int /\ both \in Int
    BY <2>3
  <2>9. g[s] = f[y] + (f[x] + both) /\ f[x] + g[s \ {x}] = f[x] + (f[y] + both)
    BY <2>3, <2>5, <2>7, Zenon
  <2> HIDE DEF both
  <2>10. f[y] + (f[x] + both) = f[x] + (f[y] + both)
    BY <2>8
  <2> QED BY <2>2, <2>9, <2>10, Zenon
<1> QED BY <1>1, <1>2 DEF Adds

\* There is no other.
LEMMA OneTable ==
    ASSUME NEW D, IsFiniteSet(D), NEW f, NEW g, NEW h, Sums(g, f, D), Sums(h, f, D)
    PROVE  g = h
<1> DEFINE odd == {s \in SUBSET D : g[s] # h[s]}
<1>1. ASSUME odd # {} PROVE FALSE
  <2>1. PICK s \in odd : \A t \in odd : t \subseteq s => t = s
    <3>1. odd \in SUBSET SUBSET D
      OBVIOUS
    <3> HIDE DEF odd
    <3> QED BY <1>1, <3>1, Smallest
  <2>2. s # {} => g[s] = f[Pick(s)] + g[s \ {Pick(s)}] /\ h[s] = f[Pick(s)] + h[s \ {Pick(s)}]
    BY DEF Sums
  <2>3. s = {} => g[s] = h[s]
    BY DEF Sums
  <2>4. s # {} => s \ {Pick(s)} \notin odd
    BY <2>1, PickIsIn
  <2> QED BY <2>2, <2>3, <2>4
<1>2. \A s \in SUBSET D : g[s] = h[s]
  BY <1>1
<1> QED BY <1>2 DEF Sums

\* SumPence takes its answer from a table of sums.
LEMMA SumPenceAdds ==
    ASSUME NEW D, IsFiniteSet(D), NEW f \in [D -> Int]
    PROVE  \E g : Adds(g, f, D) /\ SumPence(f) = g[D]
<1>1. PICK h \in [SUBSET D -> Int] : Sums(h, f, D)
  BY SumsExist
<1>2. Sums(Partial(f, D), f, D)
  BY <1>1 DEF Partial
<1>3. SumPence(f) = Partial(f, D)[D]
  BY DEF SumPence, FoldSeq, FoldFunction, FoldFunctionOnSet, MapThenFoldSet, Partial, Sums, Pick
<1>4. Partial(f, D) = h
  BY <1>1, <1>2, OneTable
<1> QED BY <1>1, <1>3, <1>4, SumsAdd

LEMMA AddsOneMore ==
    ASSUME NEW D, NEW f \in [D -> Int], NEW g, Adds(g, f, D), NEW s \in SUBSET D, NEW x \in D \ s
    PROVE  g[s \cup {x}] = f[x] + g[s] /\ g[s] \in Int /\ f[x] \in Int
<1>1. (s \cup {x}) \ {x} = s /\ s \cup {x} \in SUBSET D /\ x \in s \cup {x}
  OBVIOUS
<1>2. g[s \cup {x}] = f[x] + g[(s \cup {x}) \ {x}]
  BY <1>1 DEF Adds
<1> QED BY <1>1, <1>2 DEF Adds

-----------------------------------------------------------------------------
(* What the proofs below use of a sum.                                     *)

LEMMA SumIsWhole ==
    ASSUME NEW D, IsFiniteSet(D), NEW f \in [D -> Int]
    PROVE  SumPence(f) \in Int
<1>1. PICK g : Adds(g, f, D) /\ SumPence(f) = g[D]
  BY SumPenceAdds
<1> QED BY <1>1 DEF Adds

LEMMA SumOfSums ==
    ASSUME NEW D, IsFiniteSet(D), NEW f \in [D -> Int], NEW h \in [D -> Int]
    PROVE  SumPence([i \in D |-> f[i] + h[i]]) = SumPence(f) + SumPence(h)
<1> DEFINE k == [i \in D |-> f[i] + h[i]]
<1>1. k \in [D -> Int]
  OBVIOUS
<1>2. PICK a : Adds(a, f, D) /\ SumPence(f) = a[D]
  BY SumPenceAdds
<1>3. PICK b : Adds(b, h, D) /\ SumPence(h) = b[D]
  BY SumPenceAdds
<1>4. PICK c : Adds(c, k, D) /\ SumPence(k) = c[D]
  BY <1>1, SumPenceAdds
<1> DEFINE family == {s \in SUBSET D : c[s] = a[s] + b[s]}
<1>5. {} \in family
  BY <1>2, <1>3, <1>4 DEF Adds
<1>6. ASSUME NEW s \in family, NEW x \in D \ s PROVE s \cup {x} \in family
  <2>1. a[s \cup {x}] = f[x] + a[s] /\ a[s] \in Int /\ f[x] \in Int
    BY <1>2, AddsOneMore
  <2>2. b[s \cup {x}] = h[x] + b[s] /\ b[s] \in Int /\ h[x] \in Int
    BY <1>3, AddsOneMore
  <2>3. c[s \cup {x}] = k[x] + c[s]
    BY <1>1, <1>4, AddsOneMore
  <2> QED BY <2>1, <2>2, <2>3
<1>7. D \in family
  BY <1>5, <1>6, Grows
<1> QED BY <1>2, <1>3, <1>4, <1>7

LEMMA Distributes ==
    ASSUME NEW k \in Int, NEW a \in Int, NEW b \in Int
    PROVE  k * (a + b) = k * a + k * b /\ k * a \in Int
OBVIOUS

LEMMA SumScales ==
    ASSUME NEW D, IsFiniteSet(D), NEW f \in [D -> Int], NEW k \in Int
    PROVE  SumPence([i \in D |-> k * f[i]]) = k * SumPence(f)
<1> DEFINE h == [i \in D |-> k * f[i]]
<1>1. h \in [D -> Int]
  OBVIOUS
<1>2. PICK a : Adds(a, f, D) /\ SumPence(f) = a[D]
  BY SumPenceAdds
<1>3. PICK b : Adds(b, h, D) /\ SumPence(h) = b[D]
  BY <1>1, SumPenceAdds
<1> DEFINE family == {s \in SUBSET D : b[s] = k * a[s]}
<1>4. {} \in family
  BY <1>2, <1>3 DEF Adds
<1>5. ASSUME NEW s \in family, NEW x \in D \ s PROVE s \cup {x} \in family
  <2>1. a[s \cup {x}] = f[x] + a[s] /\ a[s] \in Int /\ f[x] \in Int
    BY <1>2, AddsOneMore
  <2>2. h[x] = k * f[x] /\ b[s] = k * a[s]
    OBVIOUS
  <2>4. b[s \cup {x}] = h[x] + b[s]
    <3>1. s \in SUBSET D
      OBVIOUS
    <3> HIDE DEF h, family
    <3> QED BY <1>1, <1>3, <3>1, AddsOneMore
  <2>3. k * (f[x] + a[s]) = k * f[x] + k * a[s]
    BY <2>1, Distributes
  <2> QED BY <2>1, <2>2, <2>3, <2>4
<1>6. D \in family
  BY <1>4, <1>5, Grows
<1> QED BY <1>2, <1>3, <1>6

LEMMA SumIsAtMost ==
    ASSUME NEW D, IsFiniteSet(D), NEW f \in [D -> Int], NEW h \in [D -> Int],
           \A i \in D : f[i] <= h[i]
    PROVE  SumPence(f) <= SumPence(h)
<1>1. PICK a : Adds(a, f, D) /\ SumPence(f) = a[D]
  BY SumPenceAdds
<1>2. PICK b : Adds(b, h, D) /\ SumPence(h) = b[D]
  BY SumPenceAdds
<1> DEFINE family == {s \in SUBSET D : a[s] <= b[s]}
<1>3. {} \in family
  BY <1>1, <1>2 DEF Adds
<1>4. ASSUME NEW s \in family, NEW x \in D \ s PROVE s \cup {x} \in family
  <2>1. a[s \cup {x}] = f[x] + a[s] /\ a[s] \in Int /\ f[x] \in Int
    BY <1>1, AddsOneMore
  <2>2. b[s \cup {x}] = h[x] + b[s] /\ b[s] \in Int /\ h[x] \in Int
    BY <1>2, AddsOneMore
  <2> QED BY <2>1, <2>2
<1>5. D \in family
  BY <1>3, <1>4, Grows
<1> QED BY <1>1, <1>2, <1>5

\* The same amount for each of some indices.
LEMMA SumOfTheSame ==
    ASSUME NEW D, IsFiniteSet(D), NEW A \in SUBSET D, NEW k \in Int
    PROVE  SumPence([i \in D |-> IF i \in A THEN k ELSE 0]) = k * Cardinality(A)
<1> DEFINE f == [i \in D |-> IF i \in A THEN k ELSE 0]
<1>1. f \in [D -> Int]
  OBVIOUS
<1>2. PICK a : Adds(a, f, D) /\ SumPence(f) = a[D]
  BY <1>1, SumPenceAdds
<1> DEFINE family == {s \in SUBSET D : a[s] = k * Cardinality(s \cap A)}
<1>3. {} \in family
  BY <1>2, FS_EmptySet DEF Adds
<1>4. ASSUME NEW s \in family, NEW x \in D \ s PROVE s \cup {x} \in family
  <2>1. a[s \cup {x}] = f[x] + a[s]
    BY <1>1, <1>2, AddsOneMore
  <2>2. IsFiniteSet(s \cap A) /\ Cardinality(s \cap A) \in Nat
    BY FS_Subset, FS_CardinalityType
  <2>3. CASE x \in A
    <3>1. (s \cup {x}) \cap A = (s \cap A) \cup {x}
      BY <2>3
    <3>2. Cardinality((s \cap A) \cup {x}) = Cardinality(s \cap A) + 1
      BY <2>2, FS_AddElement
    <3>3. k * (Cardinality(s \cap A) + 1) = k * Cardinality(s \cap A) + k
      BY <2>2, Distributes
    <3> QED BY <2>1, <2>2, <2>3, <3>1, <3>2, <3>3, Distributes
  <2>4. CASE x \notin A
    <3>1. (s \cup {x}) \cap A = s \cap A
      BY <2>4
    <3> QED BY <2>1, <2>2, <2>4, <3>1, Distributes
  <2> QED BY <2>3, <2>4
<1>5. D \in family
  BY <1>3, <1>4, Grows
<1>6. D \cap A = A
  OBVIOUS
<1> QED BY <1>2, <1>5, <1>6

-----------------------------------------------------------------------------
(* Sharing out: the largest remainders get the pennies left over.          *)

\* Whose turn comes before i's, as Distribute has it: a larger loss, an earlier place.
InOrder(n, lost, ahead) ==
    /\ ahead \in [1 .. n -> SUBSET (1 .. n)]
    /\ \A i, j \in 1 .. n : j \in ahead[i] <=> lost[j] > lost[i] \/ (lost[j] = lost[i] /\ j < i)

\* Those with fewer before them than there are pennies left.
First(n, ahead, left) == {i \in 1 .. n : Cardinality(ahead[i]) < left}

\* Where each stands in an order without ties is a number of its own.
LEMMA RanksAreNumbers ==
    ASSUME NEW n \in Nat, NEW lost \in [1 .. n -> Nat], NEW left \in 0 .. n,
           NEW ahead, InOrder(n, lost, ahead)
    PROVE  Cardinality(First(n, ahead, left)) = left
<1> DEFINE first == First(n, ahead, left)
           D == 1 .. n
           rank == [i \in D |-> Cardinality(ahead[i])]
<1>n. \A k \in Nat : IsFiniteSet(0 .. k - 1) /\ Cardinality(0 .. k - 1) = k
  <2> TAKE k \in Nat
  <2>1. Cardinality(0 .. k - 1) = IF 0 > k - 1 THEN 0 ELSE (k - 1) - 0 + 1
    BY FS_Interval
  <2> QED BY <2>1, FS_Interval
<1>1. IsFiniteSet(D) /\ Cardinality(D) = n
  BY FS_Interval
<1>o. /\ ahead \in [D -> SUBSET D]
      /\ \A i, j \in D : j \in ahead[i] <=> lost[j] > lost[i] \/ (lost[j] = lost[i] /\ j < i)
  BY DEF InOrder
<1>r. rank = [i \in D |-> Cardinality(ahead[i])]
  OBVIOUS
<1>2. ASSUME NEW i \in D
      PROVE  /\ IsFiniteSet(ahead[i]) /\ rank[i] = Cardinality(ahead[i])
             /\ rank[i] \in Nat /\ rank[i] < n /\ rank[i] \in 0 .. n - 1
             /\ ahead[i] \subseteq D /\ i \notin ahead[i]
  <2>1. ahead[i] \subseteq D /\ i \notin ahead[i]
    BY <1>o
  <2>2. IsFiniteSet(ahead[i]) /\ rank[i] \in Nat /\ rank[i] <= n
    BY <1>1, <2>1, FS_Subset, FS_CardinalityType
  <2>3. rank[i] # n
    BY <1>1, <2>1, FS_Subset
  <2> QED BY <2>1, <2>2, <2>3
<1>3. ASSUME NEW i \in D, NEW j \in D, i \in ahead[j] PROVE rank[i] < rank[j]
  <2>1. ahead[i] \subseteq ahead[j]
    BY <1>3, <1>o
  <2>2. ahead[i] # ahead[j]
    BY <1>2, <1>3
  <2>3. Cardinality(ahead[i]) <= Cardinality(ahead[j]) /\ Cardinality(ahead[i]) # Cardinality(ahead[j])
    BY <1>2, <2>1, <2>2, FS_Subset
  <2>4. rank[i] = Cardinality(ahead[i]) /\ rank[j] = Cardinality(ahead[j])
    OBVIOUS
  <2> HIDE DEF rank
  <2>5. rank[i] \in Nat /\ rank[j] \in Nat
    BY <1>2
  <2> QED BY <2>3, <2>4, <2>5
<1>4. ASSUME NEW i \in D, NEW j \in D, i # j PROVE i \in ahead[j] \/ j \in ahead[i]
  BY <1>4, <1>o
<1>b. ASSUME NEW i \in D, NEW j \in D, rank[i] = rank[j] PROVE i = j
  <2> HIDE DEF rank
  <2>1. rank[i] \in Nat /\ rank[j] \in Nat
    BY <1>2
  <2> QED BY <1>3, <1>4, <1>b, <2>1
<1> HIDE DEF rank
<1>5. rank \in Injection(D, 0 .. n - 1)
  <2>1. rank \in [D -> 0 .. n - 1]
    BY <1>2, <1>r
  <2> QED BY <1>b, <2>1, Fun_IsInj
<1>6. rank \in Surjection(D, 0 .. n - 1)
  BY <1>1, <1>n, <1>5, FS_Injection
<1>q. first = {i \in D : rank[i] < left}
  BY <1>2 DEF First
<1> HIDE DEF first
<1> DEFINE place == [i \in first |-> rank[i]]
<1>p. \A i \in first : i \in D /\ place[i] = rank[i] /\ rank[i] \in Nat /\ rank[i] < left
  BY <1>2, <1>q
<1>7. place \in Bijection(first, 0 .. left - 1)
  <2>1. place \in [first -> 0 .. left - 1]
    <3>1. \A m \in Nat : m < left => m \in 0 .. left - 1
      OBVIOUS
    <3>2. \A i \in first : rank[i] \in 0 .. left - 1
      BY <1>p, <3>1, Zenon
    <3> QED BY <3>2
  <2>2. ASSUME NEW i \in first, NEW j \in first, place[i] = place[j] PROVE i = j
    BY <1>b, <1>p, <2>2
  <2>3. ASSUME NEW k \in 0 .. left - 1 PROVE \E i \in first : place[i] = k
    <3>1. k \in 0 .. n - 1
      OBVIOUS
    <3>2. PICK i \in D : rank[i] = k
      BY <1>6, <3>1 DEF Surjection
    <3>3. i \in first
      BY <1>q, <3>2
    <3> QED BY <1>p, <3>2, <3>3
  <2> QED BY <2>1, <2>2, <2>3, Fun_IsBij
<1>8. IsFiniteSet(first)
  BY <1>1, <1>q, FS_Subset
<1>9. ExistsBijection(first, 0 .. left - 1)
  BY <1>7 DEF ExistsBijection
<1>10. Cardinality(0 .. left - 1) = left
  BY <1>n
<1> QED BY <1>8, <1>9, <1>10, FS_Bijection DEF first

\* A product with a positive number on both sides of a comparison.
LEMMA Cancels ==
    ASSUME NEW k \in Nat \ {0}, NEW a \in Int, NEW b \in Int, k * a <= k * b
    PROVE  a <= b
OBVIOUS

LEMMA DistributesOverMinus ==
    ASSUME NEW k \in Int, NEW a \in Int, NEW b \in Int
    PROVE  k * (a - b) = k * a - k * b /\ k * a \in Int
OBVIOUS

LEMMA SmallProduct ==
    ASSUME NEW k \in Nat \ {0}, NEW a \in Int, NEW b \in Nat, b < k, k * a + b = 0
    PROVE  a = 0 /\ b = 0
<1>1. a >= 1 => k * a >= k * 1
  OBVIOUS
<1>2. a <= -1 => k * a <= k * (-1)
  OBVIOUS
<1>3. k * a \in Int /\ k * 1 = k /\ k * (-1) = -k /\ (a = 0 => k * a = 0)
  OBVIOUS
<1> QED BY <1>1, <1>2, <1>3

LEMMA Division ==
    ASSUME NEW a \in Int, NEW b \in Nat \ {0}
    PROVE  a = b * (a \div b) + (a % b) /\ a \div b \in Int /\ a % b \in 0 .. b - 1
<1>1. a \div b \in Int
  OBVIOUS
<1>2. a % b \in 0 .. b - 1
  OBVIOUS
<1>3. a = b * (a \div b) + (a % b)
  OBVIOUS
<1> QED BY <1>1, <1>2, <1>3

LEMMA SharesAreExact ==
    ASSUME NEW total \in Int, NEW weights \in Seq(Nat), SumPence(weights) > 0
    PROVE  LET shares == Distribute(total, weights)
               whole == SumPence(weights) IN
           /\ SumPence(shares) = total
           /\ \A i \in DOMAIN shares :
                 /\ Abs(shares[i] * whole - total * weights[i]) < whole
                 /\ weights[i] = 0 => shares[i] = 0
<1> DEFINE n == Len(weights)
           D == 1 .. n
           W == SumPence(weights)
           part == [i \in D |-> total * weights[i]]
           floors == [i \in D |-> part[i] \div W]
           lost == [i \in D |-> part[i] % W]
           left == total - SumPence(floors)
           ahead == [i \in D |-> {j \in D : lost[j] > lost[i] \/ (lost[j] = lost[i] /\ j < i)}]
           first == {i \in D : Cardinality(ahead[i]) < left}
           penny == [i \in D |-> IF i \in first THEN 1 ELSE 0]
<1>1. /\ n \in Nat /\ DOMAIN weights = D /\ weights \in [D -> Int] /\ \A i \in D : weights[i] \in Nat
      /\ IsFiniteSet(D) /\ Cardinality(D) = n
  <2>1. n \in Nat /\ DOMAIN weights = D /\ weights \in [D -> Nat]
    BY LenProperties
  <2>2. IsFiniteSet(D) /\ Cardinality(D) = n
    <3> HIDE DEF n
    <3> QED BY <2>1, FS_Interval
  <2> QED BY <2>1, <2>2
<1> HIDE DEF n
<1>2. W \in Nat \ {0}
  <2>1. W \in Int
    BY <1>1, SumIsWhole
  <2> QED BY <2>1
<1>3. part \in [D -> Int]
  BY <1>1
<1>4. SumPence(part) = total * W
  BY <1>1, SumScales
<1> HIDE DEF W
<1>5. floors \in [D -> Int] /\ lost \in [D -> Int] /\ lost \in [D -> Nat]
      /\ \A i \in D : part[i] = W * floors[i] + lost[i] /\ lost[i] < W /\ lost[i] \in Nat
  <2>1. ASSUME NEW i \in D
        PROVE  /\ part[i] = W * (part[i] \div W) + (part[i] % W)
               /\ part[i] \div W \in Int /\ part[i] % W \in 0 .. W - 1
    <3>1. part[i] \in Int
      BY <1>3
    <3> HIDE DEF part
    <3> QED BY <1>2, <3>1, Division
  <2> HIDE DEF part
  <2>2. ASSUME NEW i \in D
        PROVE  /\ part[i] = W * floors[i] + lost[i] /\ lost[i] < W /\ lost[i] \in Nat
               /\ part[i] \div W \in Int /\ part[i] % W \in Nat
    <3>1. floors[i] = part[i] \div W /\ lost[i] = part[i] % W
      OBVIOUS
    <3> HIDE DEF floors, lost
    <3>2. /\ part[i] = W * (part[i] \div W) + (part[i] % W)
          /\ part[i] \div W \in Int /\ part[i] % W \in 0 .. W - 1
      BY <2>1
    <3> HIDE DEF D
    <3>3. part[i] = W * floors[i] + lost[i] /\ lost[i] \in 0 .. W - 1
      BY <3>1, <3>2, Zenon
    <3>4. lost[i] < W /\ lost[i] \in Nat
      BY <1>2, <3>3
    <3> QED BY <3>1, <3>2, <3>3, <3>4, Zenon
  <2> QED BY <2>2
<1>f. floors \in [D -> Int] /\ lost \in [D -> Int] /\ lost \in [D -> Nat]
  BY <1>5
<1>d. \A i \in D : part[i] = W * floors[i] + lost[i] /\ lost[i] < W /\ lost[i] \in Nat
  BY <1>5
<1>w. W \in Int
  BY <1>2
<1> DEFINE some == {i \in D : lost[i] > 0}
<1>6. W * left = SumPence(lost) /\ left \in Int /\ SumPence(lost) \in Int
  <2> DEFINE whole == [i \in D |-> W * floors[i]]
  <2>1. SumPence(floors) \in Int /\ SumPence(lost) \in Int
    BY <1>1, <1>f, SumIsWhole
  <2>2. SumPence(whole) = W * SumPence(floors)
    BY <1>1, <1>w, <1>f, SumScales
  <2>3. whole \in [D -> Int]
    BY <1>w, <1>f, Distributes
  <2>4. part = [i \in D |-> whole[i] + lost[i]]
    <3>1. \A i \in D : part[i] = whole[i] + lost[i]
      BY <1>d
    <3>2. part = [i \in D |-> part[i]]
      OBVIOUS
    <3> QED BY <3>1, <3>2, Zenon
  <2>5. SumPence(part) = SumPence(whole) + SumPence(lost)
    <3> HIDE DEF whole, part, lost
    <3> QED BY <1>1, <1>f, <2>3, <2>4, SumOfSums
  <2> HIDE DEF whole, part, lost, floors
  <2>6. W * left = W * total - W * SumPence(floors)
    BY <1>w, <2>1, DistributesOverMinus
  <2>7. total * W = W * total /\ W * SumPence(floors) \in Int /\ W * total \in Int
    BY <1>w, <2>1, Distributes
  <2> QED BY <1>4, <2>1, <2>2, <2>5, <2>6, <2>7
<1>7. 0 <= left
  <2> DEFINE none == [i \in D |-> IF i \in {} THEN W ELSE 0]
  <2>1. SumPence(none) = 0
    <3>1. SumPence(none) = W * Cardinality({})
      <4>1. {} \in SUBSET D
        OBVIOUS
      <4> QED BY <1>1, <1>w, <4>1, SumOfTheSame
    <3> QED BY <1>w, <3>1, FS_EmptySet
  <2>2. none \in [D -> Int] /\ \A i \in D : none[i] <= lost[i]
    BY <1>d
  <2>3. SumPence(none) <= SumPence(lost)
    <3> HIDE DEF none, lost
    <3> QED BY <1>1, <1>f, <2>2, SumIsAtMost
  <2>4. W * 0 <= W * left
    BY <1>w, <1>6, <2>1, <2>3
  <2> HIDE DEF left
  <2> QED BY <1>2, <1>6, <2>4, Cancels
<1>8. left <= Cardinality(some) /\ IsFiniteSet(some) /\ Cardinality(some) \in 0 .. n
  <2> DEFINE most == [i \in D |-> IF i \in some THEN W ELSE 0]
  <2>1. some \in SUBSET D /\ IsFiniteSet(some) /\ Cardinality(some) \in Nat /\ Cardinality(some) <= n
    <3>1. some \in SUBSET D
      OBVIOUS
    <3> HIDE DEF some
    <3>2. IsFiniteSet(some) /\ Cardinality(some) <= Cardinality(D)
      BY <1>1, <3>1, FS_Subset
    <3>3. Cardinality(some) \in Nat
      BY <3>2, FS_CardinalityType
    <3> QED BY <1>1, <3>1, <3>2, <3>3
  <2>2. most \in [D -> Int] /\ \A i \in D : lost[i] <= most[i]
    BY <1>w, <1>d
  <2> HIDE DEF some
  <2>3. SumPence(most) = W * Cardinality(some)
    BY <1>1, <1>w, <2>1, SumOfTheSame
  <2> HIDE DEF most, lost
  <2>4. SumPence(lost) <= SumPence(most)
    BY <1>1, <1>f, <2>2, SumIsAtMost
  <2>5. W * left <= W * Cardinality(some)
    BY <1>6, <2>3, <2>4
  <2> HIDE DEF left
  <2> QED BY <1>1, <1>2, <1>6, <2>1, <2>5, Cancels
<1>9. Cardinality(first) = left
  <2>1. left \in 0 .. n
    BY <1>1, <1>6, <1>7, <1>8
  <2>2. InOrder(n, lost, ahead) /\ first = First(n, ahead, left)
    BY DEF InOrder, First
  <2> HIDE DEF left, lost, ahead, first, D
  <2>3. lost \in [1 .. n -> Nat]
    BY <1>f DEF D
  <2> QED BY <1>1, <2>1, <2>2, <2>3, RanksAreNumbers
<1>10. ASSUME NEW i \in D, lost[i] = 0 PROVE i \notin first
  <2>1. some \subseteq ahead[i] /\ ahead[i] \subseteq D
    BY <1>d, <1>10
  <2>2. IsFiniteSet(ahead[i]) /\ Cardinality(some) <= Cardinality(ahead[i]) /\ Cardinality(ahead[i]) \in Nat
    <3> HIDE DEF some, ahead
    <3> QED BY <1>1, <2>1, FS_Subset, FS_CardinalityType
  <2> HIDE DEF left, some, ahead
  <2>3. ~(Cardinality(ahead[i]) < left)
    BY <1>6, <1>8, <2>2
  <2> QED BY <2>3
<1> DEFINE shares == [i \in D |-> floors[i] + penny[i]]
<1>11. Distribute(total, weights) = shares
  <2>1. \A i \in D : Lost(total, weights, i) = lost[i] /\ floors[i] = (total * weights[i]) \div SumPence(weights)
    BY DEF Lost, W
  <2>2. ASSUME NEW i \in D
        PROVE  {j \in DOMAIN weights : \/ Lost(total, weights, j) > Lost(total, weights, i)
                                       \/ Lost(total, weights, j) = Lost(total, weights, i) /\ j < i}
               = ahead[i]
    <3> HIDE DEF lost
    <3> QED BY <1>1, <2>1
  <2>3. [i \in DOMAIN weights |-> (total * weights[i]) \div SumPence(weights)] = floors
    BY <1>1, <2>1
  <2>4. \A i \in D : penny[i] = IF Cardinality(ahead[i]) < left THEN 1 ELSE 0
    OBVIOUS
  <2> HIDE DEF floors, ahead, lost, penny, left
  <2>5. left = total - SumPence(floors)
    BY DEF left
  <2> QED BY <1>1, <2>2, <2>3, <2>4, <2>5 DEF Distribute
<1>12. penny \in [D -> Int] /\ SumPence(penny) = left
  <2>1. first \in SUBSET D /\ penny \in [D -> Int]
    OBVIOUS
  <2> HIDE DEF first
  <2>a. 1 \in Int
    OBVIOUS
  <2>2. SumPence(penny) = 1 * Cardinality(first)
    BY <1>1, <2>a, <2>1, SumOfTheSame, Zenon
  <2> HIDE DEF left, penny
  <2> QED BY <1>6, <1>9, <2>1, <2>2
<1>13. SumPence(shares) = total
  <2> HIDE DEF floors, penny
  <2>1. SumPence(shares) = SumPence(floors) + SumPence(penny)
    BY <1>1, <1>f, <1>12, SumOfSums
  <2>2. SumPence(floors) \in Int
    BY <1>1, <1>f, SumIsWhole
  <2> HIDE DEF shares
  <2> QED BY <1>12, <2>1, <2>2
<1>14. ASSUME NEW i \in D
       PROVE  /\ Abs(shares[i] * W - total * weights[i]) < W
              /\ weights[i] = 0 => shares[i] = 0
  <2>1. shares[i] = floors[i] + penny[i] /\ floors[i] \in Int /\ total * weights[i] = part[i]
    BY <1>f
  <2>2. penny[i] \in {0, 1} /\ (lost[i] = 0 => penny[i] = 0)
    BY <1>10
  <2>3. part[i] = W * floors[i] + lost[i] /\ lost[i] < W /\ lost[i] \in Nat /\ W * floors[i] \in Int
    BY <1>d, <1>w, <2>1, Distributes
  <2>4. weights[i] = 0 => part[i] = 0
    BY <1>1
  <2> HIDE DEF shares, floors, lost, penny, part
  <2>5. shares[i] * W = W * floors[i] + W * penny[i]
    BY <1>w, <2>1, <2>2, Distributes
  <2>6. W * penny[i] = IF penny[i] = 1 THEN W ELSE 0
    BY <1>w, <2>2
  <2>7. shares[i] * W - total * weights[i] = (IF penny[i] = 1 THEN W ELSE 0) - lost[i]
    BY SMTT(30), <1>w, <2>1, <2>3, <2>5, <2>6
  <2>8. Abs(shares[i] * W - total * weights[i]) < W
    BY <1>w, <2>2, <2>3, <2>7 DEF Abs
  <2>9. ASSUME weights[i] = 0 PROVE shares[i] = 0
    <3>1. W * floors[i] + lost[i] = 0
      BY <2>3, <2>4, <2>9
    <3>2. floors[i] = 0 /\ lost[i] = 0
      BY <1>2, <2>1, <2>3, <3>1, SmallProduct
    <3> QED BY <2>1, <2>2, <3>2
  <2> QED BY <2>8, <2>9
<1>15. DOMAIN shares = D
  OBVIOUS
<1> HIDE DEF shares
<1> QED BY <1>11, <1>13, <1>14, <1>15 DEF W

-----------------------------------------------------------------------------
(* A statement: every line is rounded once, and the rounding adds up.      *)

LEMMA RoundingIsNear ==
    ASSUME NEW a \in Int
    PROVE  /\ RoundedHalfAway(a, 12) \in Int
           /\ -6 <= 12 * RoundedHalfAway(a, 12) - a /\ 12 * RoundedHalfAway(a, 12) - a <= 6
BY DEF RoundedHalfAway

LEMMA RateIsWhole ==
    ASSUME NEW frequency \in Frequencies
    PROVE  PerYear[frequency] \in Nat
BY DEF Frequencies, PerYear

\* Where each figure is near its exact one, the sums are near each other.
LEMMA SumsAreNear ==
    ASSUME NEW n \in Nat, NEW f \in [1 .. n -> Int], NEW h \in [1 .. n -> Int],
           \A i \in 1 .. n : -6 <= 12 * f[i] - h[i] /\ 12 * f[i] - h[i] <= 6
    PROVE  Abs(12 * SumPence(f) - SumPence(h)) <= 6 * n
<1> DEFINE D == 1 .. n
           twelve == [i \in D |-> 12 * f[i]]
           slack == [i \in D |-> IF i \in D THEN 6 ELSE 0]
           above == [i \in D |-> h[i] + slack[i]]
           over == [i \in D |-> twelve[i] + slack[i]]
<1>1. IsFiniteSet(D) /\ Cardinality(D) = n /\ D \in SUBSET D /\ 12 \in Int /\ 6 \in Int
  BY FS_Interval
<1>2. /\ twelve \in [D -> Int] /\ slack \in [D -> Int] /\ above \in [D -> Int] /\ over \in [D -> Int]
      /\ f \in [D -> Int] /\ h \in [D -> Int]
  OBVIOUS
<1>3. \A i \in D : twelve[i] <= above[i] /\ h[i] <= over[i]
  OBVIOUS
<1>4. SumPence(twelve) = 12 * SumPence(f)
  BY <1>1, <1>2, SumScales, Zenon
<1>5. SumPence(slack) = 6 * Cardinality(D)
  BY SMTT(30), <1>1, SumOfTheSame
<1>6. SumPence(above) = SumPence(h) + SumPence(slack)
  <2>1. slack \in [D -> Int] /\ h \in [D -> Int]
    BY <1>2, Zenon
  <2> HIDE DEF D, slack, twelve
  <2> QED BY ZenonT(60), <1>1, <2>1, SumOfSums
<1>6b. SumPence(over) = SumPence(twelve) + SumPence(slack)
  <2>1. slack \in [D -> Int] /\ twelve \in [D -> Int]
    BY <1>2, Zenon
  <2> HIDE DEF D, slack, twelve
  <2> QED BY ZenonT(60), <1>1, <2>1, SumOfSums
<1> HIDE DEF D, twelve, slack, above, over
<1>7. SumPence(twelve) <= SumPence(above) /\ SumPence(h) <= SumPence(over)
  BY <1>1, <1>2, <1>3, SumIsAtMost
<1>8. SumPence(f) \in Int /\ SumPence(h) \in Int
  BY <1>1, <1>2, SumIsWhole
<1> QED BY <1>1, <1>4, <1>5, <1>6, <1>6b, <1>7, <1>8 DEF Abs

\* What some of the lines come to in a month, and twelve times that exactly.
MonthlyOf(rows, some) == [i \in DOMAIN rows |-> IF i \in some THEN Monthly(rows[i]) ELSE 0]
ExactOf(rows, some) ==
    [i \in DOMAIN rows |-> IF i \in some THEN rows[i].amount * PerYear[rows[i].frequency] ELSE 0]

LEMMA LinesAreNear ==
    ASSUME NEW rows \in Seq(Line), NEW some
    PROVE  /\ SumPence(MonthlyOf(rows, some)) \in Int /\ SumPence(ExactOf(rows, some)) \in Int
           /\ Abs(12 * SumPence(MonthlyOf(rows, some)) - SumPence(ExactOf(rows, some))) <= 6 * Len(rows)
<1> DEFINE n == Len(rows)
           f == MonthlyOf(rows, some)
           h == ExactOf(rows, some)
<1>1. n \in Nat /\ DOMAIN rows = 1 .. n /\ IsFiniteSet(1 .. n)
  BY LenProperties, FS_Interval
<1>2. ASSUME NEW i \in 1 .. n
      PROVE  /\ f[i] \in Int /\ h[i] \in Int
             /\ -6 <= 12 * f[i] - h[i] /\ 12 * f[i] - h[i] <= 6
  <2> DEFINE exact == rows[i].amount * PerYear[rows[i].frequency]
  <2>1. rows[i].amount \in Int /\ rows[i].frequency \in Frequencies
    <3>1. rows[i] \in Line
      BY <1>1
    <3>2. rows[i].amount \in Amounts /\ rows[i].frequency \in Frequencies
      BY <3>1 DEF Line
    <3> QED BY <3>2, BudgetAssumption
  <2>2. exact \in Int
    BY <2>1, RateIsWhole
  <2>3. Monthly(rows[i]) = RoundedHalfAway(exact, 12)
    BY DEF Monthly, ToMonthly
  <2>4. f[i] = IF i \in some THEN RoundedHalfAway(exact, 12) ELSE 0
    BY <1>1, <2>3 DEF MonthlyOf
  <2>5. h[i] = IF i \in some THEN exact ELSE 0
    BY <1>1 DEF ExactOf
  <2> HIDE DEF exact, f, h
  <2> QED BY <2>2, <2>4, <2>5, RoundingIsNear
<1>3. f = [i \in 1 .. n |-> f[i]] /\ h = [i \in 1 .. n |-> h[i]]
  BY <1>1 DEF MonthlyOf, ExactOf
<1> HIDE DEF n, f, h
<1>4. f \in [1 .. n -> Int] /\ h \in [1 .. n -> Int]
  BY <1>2, <1>3
<1>5. Abs(12 * SumPence(f) - SumPence(h)) <= 6 * n
  BY <1>1, <1>2, <1>4, SumsAreNear
<1>6. SumPence(f) \in Int /\ SumPence(h) \in Int
  BY <1>1, <1>4, SumIsWhole
<1> QED BY <1>5, <1>6 DEF n, f, h

BudgetInv == lines \in Seq(Line) /\ share \in Shares

LEMMA BudgetTyped == BudgetSpec => []BudgetInv
<1>1. BudgetInit => BudgetInv
  BY DEF BudgetInit, BudgetInv
<1>2. BudgetInv /\ [AddLine]_<<lines, share>> => BudgetInv'
  BY AppendProperties DEF BudgetInv, AddLine
<1> QED BY <1>1, <1>2, PTL DEF BudgetSpec

LEMMA SharesHold == BudgetInv => SharesAddUp
<1> SUFFICES ASSUME BudgetInv PROVE SharesAddUp
  OBVIOUS
<1>1. share.total \in Int /\ share.weights \in Seq(Nat) /\ SumPence(share.weights) > 0
  BY BudgetAssumption DEF BudgetInv
<1>2. LET shares == Distribute(share.total, share.weights)
          whole == SumPence(share.weights) IN
      /\ SumPence(shares) = share.total
      /\ \A i \in DOMAIN shares :
            /\ Abs(shares[i] * whole - share.total * share.weights[i]) < whole
            /\ share.weights[i] = 0 => shares[i] = 0
  BY <1>1, SharesAreExact
<1> QED BY <1>2 DEF SharesAddUp

\* A total of some lines is the sum over where they are.
LEMMA TotalsAreSums ==
    ASSUME NEW section, NEW category
    PROVE  LET ofSection == {i \in DOMAIN lines : lines[i].section = section}
               ofCategory == {i \in DOMAIN lines : Spends(lines[i], category)} IN
           /\ TotalOf(lines, LAMBDA l : l.section = section) = SumPence(MonthlyOf(lines, ofSection))
           /\ ExactlyPerYear(LAMBDA l : l.section = section) = SumPence(ExactOf(lines, ofSection))
           /\ TotalOf(lines, LAMBDA l : Spends(l, category)) = SumPence(MonthlyOf(lines, ofCategory))
           /\ ExactlyPerYear(LAMBDA l : Spends(l, category)) = SumPence(ExactOf(lines, ofCategory))
<1> DEFINE ofSection == {i \in DOMAIN lines : lines[i].section = section}
           ofCategory == {i \in DOMAIN lines : Spends(lines[i], category)}
<1>1. TotalOf(lines, LAMBDA l : l.section = section) = SumPence(MonthlyOf(lines, ofSection))
  <2>1. [i \in DOMAIN lines |-> IF lines[i].section = section THEN Monthly(lines[i]) ELSE 0]
        = MonthlyOf(lines, ofSection)
    BY DEF MonthlyOf
  <2> QED BY <2>1, Zenon DEF TotalOf
<1>2. ExactlyPerYear(LAMBDA l : l.section = section) = SumPence(ExactOf(lines, ofSection))
  <2>1. [i \in DOMAIN lines |-> IF lines[i].section = section
                                THEN lines[i].amount * PerYear[lines[i].frequency] ELSE 0]
        = ExactOf(lines, ofSection)
    BY DEF ExactOf
  <2> QED BY <2>1, Zenon DEF ExactlyPerYear
<1>3. TotalOf(lines, LAMBDA l : Spends(l, category)) = SumPence(MonthlyOf(lines, ofCategory))
  <2>1. [i \in DOMAIN lines |-> IF Spends(lines[i], category) THEN Monthly(lines[i]) ELSE 0]
        = MonthlyOf(lines, ofCategory)
    BY DEF MonthlyOf
  <2> QED BY <2>1, Zenon DEF TotalOf
<1>4. ExactlyPerYear(LAMBDA l : Spends(l, category)) = SumPence(ExactOf(lines, ofCategory))
  <2>1. [i \in DOMAIN lines |-> IF Spends(lines[i], category)
                                THEN lines[i].amount * PerYear[lines[i].frequency] ELSE 0]
        = ExactOf(lines, ofCategory)
    BY DEF ExactOf
  <2> QED BY <2>1, Zenon DEF ExactlyPerYear
<1> QED BY <1>1, <1>2, <1>3, <1>4

LEMMA StatementHolds == BudgetInv => StatementAddsUp
<1> SUFFICES ASSUME BudgetInv PROVE StatementAddsUp
  OBVIOUS
<1> DEFINE built == BuildStatement(lines, Household, Triggers)
           drift == 6 * Len(lines)
           figure(c) == TriggerFigure(Triggers, c, Household)
           total(c) == TotalOf(lines, LAMBDA l : Spends(l, c))
           spent(c) == ExactlyPerYear(LAMBDA l : Spends(l, c))
<1>1. lines \in Seq(Line) /\ drift \in Nat
  BY LenProperties DEF BudgetInv
<1>2. Abs(12 * TotalOf(lines, LAMBDA l : l.section = "income")
          - ExactlyPerYear(LAMBDA l : l.section = "income")) <= drift
  <2> DEFINE where == {i \in DOMAIN lines : lines[i].section = "income"}
  <2>1. /\ TotalOf(lines, LAMBDA l : l.section = "income") = SumPence(MonthlyOf(lines, where))
        /\ ExactlyPerYear(LAMBDA l : l.section = "income") = SumPence(ExactOf(lines, where))
    BY TotalsAreSums
  <2> QED BY <1>1, <2>1, LinesAreNear
<1>3. Abs(12 * TotalOf(lines, LAMBDA l : l.section = "expenditure")
          - ExactlyPerYear(LAMBDA l : l.section = "expenditure")) <= drift
  <2> DEFINE where == {i \in DOMAIN lines : lines[i].section = "expenditure"}
  <2>1. /\ TotalOf(lines, LAMBDA l : l.section = "expenditure") = SumPence(MonthlyOf(lines, where))
        /\ ExactlyPerYear(LAMBDA l : l.section = "expenditure") = SumPence(ExactOf(lines, where))
    BY TotalsAreSums
  <2> QED BY <1>1, <2>1, LinesAreNear
<1>4. built.income = TotalOf(lines, LAMBDA l : l.section = "income")
      /\ built.expenditure = TotalOf(lines, LAMBDA l : l.section = "expenditure")
  BY DEF BuildStatement
<1>5. ASSUME NEW c \in Categories
      PROVE  /\ figure(c) # NoFigure /\ spent(c) > 12 * figure(c) + drift => c \in built.exceeded
             /\ c \in built.exceeded => spent(c) > 12 * figure(c) - drift
  <2> DEFINE where == {i \in DOMAIN lines : Spends(lines[i], c)}
             claimed == {lines[i].category : i \in {j \in DOMAIN lines : lines[j].section = "expenditure"}}
  <2>1. total(c) = SumPence(MonthlyOf(lines, where)) /\ spent(c) = SumPence(ExactOf(lines, where))
    BY TotalsAreSums
  <2>2. total(c) \in Int /\ spent(c) \in Int /\ Abs(12 * total(c) - spent(c)) <= drift
    BY <1>1, <2>1, LinesAreNear
  <2>3. c \in built.exceeded <=> c \in claimed /\ figure(c) # NoFigure /\ total(c) > figure(c)
    BY DEF BuildStatement, Over
  <2>4. figure(c) \in Nat \cup {NoFigure} /\ NoFigure = -1
    BY BudgetAssumption DEF NoFigure
  <2>5. c \notin claimed => spent(c) = 0
    <3>1. c \notin claimed => where = {}
      BY DEF Spends
    <3>2. where = {} => spent(c) = 0
      <4>1. ASSUME where = {} PROVE ExactOf(lines, where) = [i \in DOMAIN lines |-> IF i \in {} THEN 0 ELSE 0]
        BY <4>1 DEF ExactOf
      <4>2. IsFiniteSet(DOMAIN lines)
        BY <1>1, LenProperties, FS_Interval
      <4>3. SumPence([i \in DOMAIN lines |-> IF i \in {} THEN 0 ELSE 0]) = 0 * Cardinality({})
        BY <4>2, SumOfTheSame
      <4> QED BY <2>1, <4>1, <4>3, FS_EmptySet
    <3> QED BY <3>1, <3>2
  <2> HIDE DEF total, spent, figure, claimed, built, drift
  <2> QED BY <1>1, <2>2, <2>3, <2>4, <2>5 DEF Abs
<1> QED BY <1>2, <1>3, <1>4, <1>5 DEF StatementAddsUp

(* No penny is lost or made when an amount is shared out, whatever the        *)
(* weights, and the totals of a statement stay within half a penny a line of  *)
(* the exact monthly figures, whatever its lines (money.ts distributePence,   *)
(* statement.ts buildStatement).                                              *)
THEOREM NoPennyIsLost == BudgetSpec => []PenniesConserved
<1>1. BudgetInv => PenniesConserved
  BY SharesHold, StatementHolds DEF PenniesConserved
<1> QED BY <1>1, BudgetTyped, PTL

-----------------------------------------------------------------------------
(* The file of a case.                                                     *)

Item == {item \in [status: Statuses, method: Methods \cup {""}, expired: BOOLEAN] :
            item.status = "verified" => item.method # ""}

FileInv ==
    /\ stage \in StageKeys(Type) /\ payment \in {NoPayment, 8000}
    /\ \E tracked \in SUBSET Keys : items \in [tracked -> Item]
    /\ consents \subseteq Keys /\ records \subseteq Severities \cup {"none"}
    /\ elsewhere \in Elsewhere /\ clearing \in BOOLEAN
    /\ since \in 1 .. 3 /\ waited \in 1 .. 3 /\ steps \in 0 .. MaxSteps

LEMMA LaterClock ==
    ASSUME NEW now \in 1 .. 3
    PROVE  Min({now + 1, 3}) \in 1 .. 3
<1> DEFINE least == IF now + 1 <= 3 THEN now + 1 ELSE 3
<1>1. least \in {now + 1, 3} /\ \A x \in {now + 1, 3} : least <= x
  OBVIOUS
<1> HIDE DEF least
<1>2. Min({now + 1, 3}) \in {now + 1, 3} /\ \A x \in {now + 1, 3} : Min({now + 1, 3}) <= x
  BY <1>1 DEF Min
<1> QED BY <1>2

LEMMA ThreeClocks == Len(Clocks) = 3 /\ DOMAIN Clocks = 1 .. 3
BY DEF Clocks

LEMMA FileStays == FileInv /\ [Next]_file => FileInv'
<1> SUFFICES ASSUME FileInv, [Next]_file PROVE FileInv'
  OBVIOUS
<1> USE RecordsAssumption
<1>s. ASSUME Step PROVE steps' \in 0 .. MaxSteps
  BY <1>s DEF Step, FileInv
<1>1. CASE UNCHANGED file
  BY <1>1 DEF FileInv, file
<1>2. CASE AddDebt \/ UpdateDebt \/ RemoveDebt \/ RecordAsset
  <2>1. Step /\ UNCHANGED <<stage, payment, items, consents, records, since, waited, elsewhere, clearing>>
    BY <1>2 DEF AddDebt, UpdateDebt, RemoveDebt, RecordAsset
  <2> QED BY <1>s, <2>1 DEF FileInv
<1>3. CASE SaveStatement
  BY <1>3, <1>s DEF FileInv, SaveStatement
<1>i. PICK tracked \in SUBSET Keys : items \in [tracked -> Item]
  BY DEF FileInv
<1>k. ASSUME Step, UNCHANGED <<stage, payment, consents, records, since, waited, elsewhere, clearing>>,
             \E kept \in SUBSET Keys : items' \in [kept -> Item]
      PROVE  FileInv'
  <2>1. stage' \in StageKeys(Type) /\ payment' \in {NoPayment, 8000} /\ consents' \subseteq Keys
    BY <1>k DEF FileInv
  <2>2. records' \subseteq Severities \cup {"none"} /\ elsewhere' \in Elsewhere /\ clearing' \in BOOLEAN
    BY <1>k DEF FileInv
  <2>3. since' \in 1 .. 3 /\ waited' \in 1 .. 3
    BY <1>k DEF FileInv
  <2> QED BY <1>k, <1>s, <2>1, <2>2, <2>3 DEF FileInv
<1>4. CASE SyncRequirements
  <2> DEFINE fresh == [status |-> "outstanding", method |-> "", expired |-> FALSE]
  <2>1. fresh \in Item
    BY DEF Item, Statuses
  <2>2. items' = [k \in Keys |-> IF k \in tracked THEN items[k] ELSE fresh]
    BY <1>4, <1>i DEF SyncRequirements
  <2> HIDE DEF fresh
  <2>3. items' \in [Keys -> Item]
    BY <1>i, <2>1, <2>2
  <2>4. Step /\ UNCHANGED <<stage, payment, consents, records, since, waited, elsewhere, clearing>>
    BY <1>4 DEF SyncRequirements
  <2>5. \E kept \in SUBSET Keys : items' \in [kept -> Item]
    BY <2>3
  <2> QED BY <1>k, <2>4, <2>5, Zenon
<1>5. CASE SetVerificationStatus
  <2>1. PICK k \in DOMAIN items, status \in Statuses, method \in {"", "document", "verbal"} :
           /\ status = "verified" => method # ""
           /\ items' = [items EXCEPT ![k] = [status |-> status, method |-> method, expired |-> FALSE]]
    BY <1>5 DEF SetVerificationStatus
  <2>2. [status |-> status, method |-> method, expired |-> FALSE] \in Item
    BY <2>1 DEF Item, Methods, VerifyingMethods
  <2>3. items' \in [tracked -> Item]
    BY <1>i, <2>1, <2>2
  <2>4. Step /\ UNCHANGED <<stage, payment, consents, records, since, waited, elsewhere, clearing>>
    BY <1>5 DEF SetVerificationStatus
  <2>5. \E kept \in SUBSET Keys : items' \in [kept -> Item]
    BY <1>i, <2>3
  <2> QED BY <1>k, <2>4, <2>5, Zenon
<1>6. CASE EvidenceExpires
  <2>1. PICK k \in DOMAIN items : items' = [items EXCEPT ![k].expired = TRUE]
    BY <1>6 DEF EvidenceExpires
  <2>2. [items[k] EXCEPT !.expired = TRUE] \in Item
    <3>1. items[k] \in Item
      BY <1>i, <2>1
    <3> QED BY <3>1 DEF Item
  <2>3. items' \in [tracked -> Item]
    BY <1>i, <2>1, <2>2
  <2>4. Step /\ UNCHANGED <<stage, payment, consents, records, since, waited, elsewhere, clearing>>
    BY <1>6 DEF EvidenceExpires
  <2>5. \E kept \in SUBSET Keys : items' \in [kept -> Item]
    BY <1>i, <2>3
  <2> QED BY <1>k, <2>4, <2>5, Zenon
<1>7. CASE ConsentGivenOrWithdrawn
  BY <1>7, <1>s DEF FileInv, ConsentGivenOrWithdrawn
<1>8. CASE RecordVulnerability \/ LookForIndicators \/ RecordNoIndicators \/ CloseVulnerability
  <2>1. Step /\ UNCHANGED <<stage, payment, items, consents, since, waited, elsewhere>>
    BY <1>8 DEF RecordVulnerability, LookForIndicators, RecordNoIndicators, CloseVulnerability
  <2>b. records \subseteq Severities \cup {"none"} /\ clearing \in BOOLEAN
    BY DEF FileInv
  <2>2. records' \subseteq Severities \cup {"none"} /\ clearing' \in BOOLEAN
    <3>1. CASE RecordVulnerability
      BY <2>b, <3>1 DEF RecordVulnerability
    <3>2. CASE LookForIndicators \/ RecordNoIndicators
      BY <2>b, <3>2 DEF LookForIndicators, RecordNoIndicators
    <3>3. CASE CloseVulnerability
      BY <2>b, <3>3 DEF CloseVulnerability
    <3> QED BY <1>8, <3>1, <3>2, <3>3
  <2> QED BY <1>s, <2>1, <2>2 DEF FileInv
<1>e. CASE ChangedElsewhere
  BY <1>e, <1>s DEF FileInv, ChangedElsewhere
<1>9. CASE TimePasses
  <2>1. since' \in 1 .. 3 /\ waited' \in 1 .. 3
    <3>1. since' = Min({since + 1, 3}) /\ waited' = Min({waited + 1, 3})
      BY <1>9, ThreeClocks DEF TimePasses
    <3>2. since \in 1 .. 3 /\ waited \in 1 .. 3
      BY DEF FileInv
    <3> QED BY <3>1, <3>2, LaterClock, Zenon
  <2>2. Step /\ UNCHANGED <<stage, payment, items, consents, records, elsewhere, clearing>>
    BY <1>9 DEF TimePasses
  <2> QED BY <1>s, <2>1, <2>2 DEF FileInv
<1> QED BY <1>1, <1>2, <1>3, <1>4, <1>5, <1>6, <1>7, <1>8, <1>9, <1>e DEF Next

LEMMA StateIsKnown ==
    ASSUME FileInv, NEW r \in Type.evidence
    PROVE  Resolve(r, EvidenceRecords) \in States
BY DEF Resolve, ByItem, ByRecords, States

LEMMA FileHolds == Spec => []FileInv
<1>1. ASSUME Init PROVE FileInv
  <2>1. /\ stage \in StageKeys(Type) /\ payment \in {NoPayment, 8000}
        /\ consents = {} /\ records = {}
        /\ since = 1 /\ waited = 1 /\ steps = 0
    BY <1>1 DEF Init
  <2>2. elsewhere \in Elsewhere /\ clearing \in BOOLEAN
    <3>1. elsewhere \in Elsewhere
      BY <1>1 DEF Init
    <3>2. clearing = FALSE
      BY <1>1 DEF Init
    <3>3. clearing \in BOOLEAN
      BY <3>2
    <3> QED BY <3>1, <3>3
  <2>3. \E tracked \in SUBSET Keys : items \in [tracked -> Item]
    <3> DEFINE nothing == {}
    <3>1. << >> \in [nothing -> Item] /\ nothing \in SUBSET Keys
      OBVIOUS
    <3> HIDE DEF nothing
    <3>2. items = << >>
      BY <1>1 DEF Init
    <3> QED BY <3>1, <3>2
  <2>4. consents \subseteq Keys /\ records \subseteq Severities \cup {"none"}
    BY <2>1
  <2>5. since \in 1 .. 3 /\ waited \in 1 .. 3 /\ steps \in 0 .. MaxSteps
    BY <2>1, RecordsAssumption
  <2> QED BY <2>1, <2>2, <2>3, <2>4, <2>5 DEF FileInv
<1> QED BY <1>1, FileStays, PTL DEF Spec

(* Whatever is done to a file, no check on it stands as verified without a    *)
(* method, every requirement of its type is in one of the states of evidence, *)
(* and its rows stay well formed (case-file, evidence/state.ts                *)
(* resolveEvidenceState).                                                     *)
THEOREM FileIsTyped == Spec => []TypeOK
<1>1. FileInv => TypeOK
  <2> SUFFICES ASSUME FileInv PROVE TypeOK
    OBVIOUS
  <2> DEFINE Rows == \A k \in DOMAIN items :
                        /\ items[k].status \in Statuses /\ items[k].method \in Methods \cup {""}
                        /\ items[k].status = "verified" => items[k].method # ""
  <2>1. DOMAIN items \subseteq Keys /\ Rows
    <3>1. PICK tracked \in SUBSET Keys : items \in [tracked -> Item]
      BY DEF FileInv
    <3>2. \A k \in DOMAIN items : items[k] \in Item
      BY <3>1
    <3>3. ASSUME NEW item \in Item
          PROVE  /\ item.status \in Statuses /\ item.method \in Methods \cup {""}
                 /\ item.status = "verified" => item.method # ""
      BY DEF Item
    <3>4. DOMAIN items \subseteq Keys
      BY <3>1
    <3>5. ASSUME NEW k \in DOMAIN items
          PROVE  /\ items[k].status \in Statuses /\ items[k].method \in Methods \cup {""}
                 /\ items[k].status = "verified" => items[k].method # ""
      BY <3>2, <3>3
    <3> QED BY <3>4, <3>5
  <2>2. \A r \in Resolved : r.state \in States
    BY StateIsKnown DEF Resolved, ResolveEvidence
  <2>3. {since, waited} \subseteq DOMAIN Clocks
    BY ThreeClocks DEF FileInv
  <2>4. stage \in StageKeys(Type) /\ payment \in {NoPayment, 8000}
    BY DEF FileInv
  <2>5. /\ consents \subseteq Keys /\ records \subseteq Severities \cup {"none"}
        /\ elsewhere \in Elsewhere /\ clearing \in BOOLEAN /\ steps \in 0 .. MaxSteps
    BY DEF FileInv
  <2>6. TypeOK <=> /\ stage \in StageKeys(Type) /\ payment \in {NoPayment, 8000}
                   /\ DOMAIN items \subseteq Keys /\ Rows
                   /\ consents \subseteq Keys /\ records \subseteq Severities \cup {"none"}
                   /\ elsewhere \in Elsewhere /\ clearing \in BOOLEAN
                   /\ {since, waited} \subseteq DOMAIN Clocks /\ steps \in 0 .. MaxSteps
                   /\ \A r \in Resolved : r.state \in States
    BY DEF TypeOK
  <2> HIDE DEF Rows
  <2> QED BY <2>1, <2>2, <2>3, <2>4, <2>5, <2>6
<1> QED BY <1>1, FileHolds, PTL

\* What the current stage needs is owed now.
LEMMA NeededIsDue ==
    ASSUME Regular(Type), FileInv, NEW k \in StageByKey(Type, stage).needs
    PROVE  Timing(Type, stage, k) = "now" /\ \E r \in Type.evidence : r.key = k
<1> DEFINE here == StageByKey(Type, stage)
           requiring == {s \in Type.stages : k \in s.needs}
<1>1. here \in Type.stages /\ stage \in StageKeys(Type)
  BY DEF FileInv, StageKeys, StageByKey
<1>2. here \in requiring /\ here.order <= here.order
  BY <1>1 DEF Regular
<1>3. here.needs \subseteq {e.key : e \in Type.evidence}
  BY <1>1 DEF Regular, Accepted
<1> QED BY <1>1, <1>2, <1>3 DEF Timing

\* What one requirement resolves to, as the two lists read it.
LEMMA ListsOfOne ==
    ASSUME AsksOnce(Type), NEW r \in Type.evidence, Timing(Type, stage, r.key) = "now"
    PROVE  LET state == Resolve(r, EvidenceRecords) IN
           /\ r.key \in Met <=> state \in {"verified", "waived"}
           /\ r.key \in Owed <=> state \in {"missing", "expired", "declared"}
<1> DEFINE state == Resolve(r, EvidenceRecords)
           seen == [key |-> r.key, blocking |-> r.blocking, state |-> state, timing |-> "now"]
<1>1. seen \in Resolved
  BY DEF Resolved, ResolveEvidence
<1>2. ASSUME NEW x \in Resolved, x.key = r.key PROVE x = seen
  <2>1. PICK q \in Type.evidence :
           x = [key |-> q.key, blocking |-> q.blocking, state |-> Resolve(q, EvidenceRecords),
                timing |-> Timing(Type, stage, q.key)]
    BY DEF Resolved, ResolveEvidence
  <2>2. q = r
    BY <1>2, <2>1 DEF AsksOnce
  <2> QED BY <2>1, <2>2
<1>3. seen.key = r.key /\ seen.state = state /\ seen.timing = "now"
  OBVIOUS
<1> HIDE DEF state, seen
<1>4. r.key \in Met <=> seen.state \in {"verified", "waived"}
  BY <1>1, <1>2, <1>3 DEF Met, EvidenceMap
<1>5. r.key \in Owed <=> seen.state \in {"missing", "expired", "declared"}
  BY <1>1, <1>2, <1>3 DEF Owed, OutstandingEvidence
<1> QED BY <1>3, <1>4, <1>5 DEF state

\* Only somebody's note takes a requirement off both lists.
LEMMA OnlyNotApplicable ==
    ASSUME FileInv, NEW r \in Type.evidence
    PROVE  Resolve(r, EvidenceRecords) = "not-required"
           <=> r.key \in DOMAIN items /\ items[r.key].status = "not-applicable"
BY DEF Resolve, Acted, ByItem, ByRecords, EvidenceRecords

(* For a case type whose requirements have keys of their own, the two views   *)
(* of what a stage is short of never name different items, whatever happens   *)
(* to the file (compose.ts evidenceSignals, inbox/page.tsx:90).               *)
THEOREM SurfacesStayAgreed ==
    ASSUME Regular(Type)
    PROVE  Spec => []SurfacesAgree
<1>1. ASSUME FileInv, NEW k \in StageByKey(Type, stage).needs
      PROVE  k \notin Met
             <=> k \in Owed \/ (k \in DOMAIN items /\ items[k].status = "not-applicable")
  <2>1. PICK r \in Type.evidence : r.key = k
    BY <1>1, NeededIsDue
  <2>2. Timing(Type, stage, r.key) = "now" /\ AsksOnce(Type)
    BY <1>1, <2>1, NeededIsDue DEF Regular
  <2>3. Resolve(r, EvidenceRecords) \in States
    BY <1>1, StateIsKnown
  <2>4. /\ r.key \in Met <=> Resolve(r, EvidenceRecords) \in {"verified", "waived"}
        /\ r.key \in Owed <=> Resolve(r, EvidenceRecords) \in {"missing", "expired", "declared"}
    BY <2>2, ListsOfOne
  <2>5. Resolve(r, EvidenceRecords) = "not-required"
        <=> r.key \in DOMAIN items /\ items[r.key].status = "not-applicable"
    BY <1>1, OnlyNotApplicable
  <2> QED BY <2>1, <2>3, <2>4, <2>5 DEF States
<1>2. Ready => StageByKey(Type, stage).needs \subseteq Met
  <2>1. MissingAtStage # {} => \E s \in Signals : s.key = "evidence-outstanding"
    <3>1. Signal("evidence-outstanding", "attention").key = "evidence-outstanding"
      BY DEF Signal, Weighing
    <3> QED BY <3>1 DEF Signals, EvidenceSignals, SignalIf
  <2> QED BY <2>1 DEF Ready, MissingAtStage
<1>3. FileInv => SurfacesAgree
  BY <1>1, <1>2 DEF SurfacesAgree
<1> QED BY <1>3, FileHolds, PTL

(* Opening the tab of checks never changes what is known of the case, from    *)
(* any state of the file (verification.ts syncRequirements).                  *)
THEOREM OpeningIsHarmless == Spec => OpeningErasesNothing
<1>1. ASSUME SyncRequirements PROVE Resolved' = Resolved
  <2>1. /\ items' = [k \in Keys |-> IF k \in DOMAIN items THEN items[k]
                                    ELSE [status |-> "outstanding", method |-> "", expired |-> FALSE]]
        /\ UNCHANGED <<stage, consents, records, statements>>
    BY <1>1 DEF SyncRequirements
  <2>2. ASSUME NEW r \in Type.evidence
        PROVE  Resolve(r, EvidenceRecords') = Resolve(r, EvidenceRecords)
    <3>1. r.key \in Keys
      BY DEF Keys
    <3>2. Acted(r.key, items') <=> Acted(r.key, items)
      BY <2>1, <3>1 DEF Acted
    <3>3. Acted(r.key, items) => items'[r.key] = items[r.key]
      BY <2>1, <3>1 DEF Acted
    <3>4. EvidenceRecords.items = items /\ EvidenceRecords'.items = items'
      BY DEF EvidenceRecords
    <3>5. ByRecords(r, EvidenceRecords') = ByRecords(r, EvidenceRecords)
      BY <2>1 DEF ByRecords, EvidenceRecords, CurrentStatement
    <3> QED BY <3>2, <3>3, <3>4, <3>5, Zenon DEF Resolve
  <2> QED BY <2>1, <2>2 DEF Resolved, ResolveEvidence
<1> QED BY <1>1, PTL DEF OpeningErasesNothing, Spec

-----------------------------------------------------------------------------
(* The health score: a sum over the signals that are shown.                *)

Weights(signals) == [s \in signals |-> s.weight]

\* assessHealth adds the weights up like amounts.
LEMMA WeighingIsASum ==
    ASSUME NEW signals, IsFiniteSet(signals), \A s \in signals : s.weight \in Int
    PROVE  MapThenSumSet(LAMBDA s : s.weight, signals) = SumPence(Weights(signals))
<1> DEFINE f == Weights(signals)
           Folds(g) == g = [s \in SUBSET signals |->
                              IF s = {} THEN 0 ELSE Pick(s).weight + g[s \ {Pick(s)}]]
           iter == CHOOSE g : Folds(g)
<1>1. f \in [signals -> Int]
  BY DEF Weights
<1>2. PICK h \in [SUBSET signals -> Int] : Sums(h, f, signals)
  BY <1>1, SumsExist
<1>3. \A s \in SUBSET signals : s # {} => f[Pick(s)] = Pick(s).weight
  BY PickIsIn DEF Weights
<1>4. ASSUME NEW g PROVE Folds(g) <=> Sums(g, f, signals)
  BY <1>3 DEF Sums
<1>5. Folds(iter)
  BY <1>2, <1>4
<1>6. Sums(Partial(f, signals), f, signals)
  BY <1>2 DEF Partial
<1>7. iter = Partial(f, signals)
  <2> HIDE DEF Folds, iter, f
  <2> QED BY <1>4, <1>5, <1>6, OneTable
<1>8. MapThenSumSet(LAMBDA s : s.weight, signals) = iter[signals]
  BY DEF MapThenSumSet, MapThenFoldSet, Pick
<1>9. SumPence(f) = Partial(f, signals)[signals]
  BY <1>1 DEF SumPence, FoldSeq, FoldFunction, FoldFunctionOnSet, MapThenFoldSet, Partial, Sums, Pick
<1> QED BY <1>7, <1>8, <1>9

\* A sum over a part is a sum over the whole that counts nothing else.
LEMMA SumOfAPart ==
    ASSUME NEW D, IsFiniteSet(D), NEW A \in SUBSET D, NEW f \in [A -> Int]
    PROVE  SumPence(f) = SumPence([i \in D |-> IF i \in A THEN f[i] ELSE 0])
<1> DEFINE h == [i \in D |-> IF i \in A THEN f[i] ELSE 0]
<1>1. h \in [D -> Int] /\ IsFiniteSet(A)
  BY FS_Subset
<1>2. PICK a : Adds(a, f, A) /\ SumPence(f) = a[A]
  BY <1>1, SumPenceAdds
<1>3. PICK b : Adds(b, h, D) /\ SumPence(h) = b[D]
  BY <1>1, SumPenceAdds
<1> DEFINE family == {s \in SUBSET D : b[s] = a[s \cap A]}
<1>4. {} \in family
  <2>1. {} \cap A = {}
    OBVIOUS
  <2> QED BY <1>2, <1>3, <2>1 DEF Adds
<1>5. ASSUME NEW s \in family, NEW x \in D \ s PROVE s \cup {x} \in family
  <2>1. b[s \cup {x}] = h[x] + b[s] /\ b[s] \in Int
    BY <1>1, <1>3, AddsOneMore
  <2>2. CASE x \in A
    <3>1. (s \cup {x}) \cap A = (s \cap A) \cup {x} /\ x \in A \ (s \cap A) /\ s \cap A \in SUBSET A
      BY <2>2
    <3>2. a[(s \cap A) \cup {x}] = f[x] + a[s \cap A]
      BY <1>2, <3>1, AddsOneMore
    <3> QED BY <2>1, <2>2, <3>1, <3>2
  <2>3. CASE x \notin A
    <3>1. (s \cup {x}) \cap A = s \cap A /\ s \cup {x} \in SUBSET D
      BY <2>3
    <3>2. h[x] = 0 /\ b[s] = a[s \cap A]
      BY <2>3
    <3> HIDE DEF h
    <3>3. b[s \cup {x}] = b[s]
      BY <2>1, <3>2
    <3> QED BY <3>1, <3>2, <3>3
  <2> QED BY <2>2, <2>3
<1>6. D \in family
  BY <1>4, <1>5, Grows
<1>7. D \cap A = A
  OBVIOUS
<1> QED BY <1>2, <1>3, <1>6, <1>7

LEMMA ScoreIsWhole ==
    ASSUME NEW total \in Int
    PROVE  Max({0, 100 - total}) = IF total <= 100 THEN 100 - total ELSE 0
<1> DEFINE most == IF total <= 100 THEN 100 - total ELSE 0
<1>1. most \in {0, 100 - total} /\ \A x \in {0, 100 - total} : most >= x
  OBVIOUS
<1>2. most \in Int /\ \A x \in {0, 100 - total} : x \in Int
  OBVIOUS
<1> HIDE DEF most
<1>3. Max({0, 100 - total}) \in {0, 100 - total} /\ \A x \in {0, 100 - total} : Max({0, 100 - total}) >= x
  BY <1>1 DEF Max
<1>4. Max({0, 100 - total}) = most
  BY <1>1, <1>2, <1>3
<1> QED BY <1>4 DEF most

\* Signals of no weight, and none that counts but what counted before, do no harm.
LEMMA ScoreGrows ==
    ASSUME NEW before, IsFiniteSet(before), NEW after, IsFiniteSet(after),
           \A s \in before \cup after : s.weight \in Nat,
           \A s \in after : s \in before \/ s.weight = 0
    PROVE  Score(after) >= Score(before)
<1> DEFINE all == before \cup after
           Counted(part) == [s \in all |-> IF s \in part THEN Weights(part)[s] ELSE 0]
           Total(part) == SumPence(Weights(part))
<1>1. IsFiniteSet(all)
  BY FS_Union
<1>2. ASSUME NEW part \in SUBSET all, IsFiniteSet(part)
      PROVE  /\ Counted(part) \in [all -> Int]
             /\ Total(part) = SumPence(Counted(part)) /\ Total(part) \in Int
             /\ Score(part) = Max({0, 100 - Total(part)})
  <2>1. Weights(part) \in [part -> Int] /\ Counted(part) \in [all -> Int]
    BY DEF Weights
  <2>2. SumPence(Weights(part)) = SumPence(Counted(part))
    <3> HIDE DEF all
    <3> QED BY <1>1, <2>1, SumOfAPart
  <2>3. SumPence(Weights(part)) \in Int
    BY <1>2, <2>1, SumIsWhole
  <2>4. MapThenSumSet(LAMBDA s : s.weight, part) = SumPence(Weights(part))
    BY <1>2, WeighingIsASum
  <2>5. Score(part) = Max({0, 100 - SumPence(Weights(part))})
    BY <2>4, Zenon DEF Score
  <2> QED BY <2>1, <2>2, <2>3, <2>5
<1>3. \A s \in all : Counted(after)[s] <= Counted(before)[s]
  BY DEF Weights
<1>4. before \in SUBSET all /\ after \in SUBSET all
  OBVIOUS
<1> HIDE DEF all, Counted, Total
<1>5. Total(after) <= Total(before)
  BY <1>1, <1>2, <1>3, <1>4, SumIsAtMost
<1>6. /\ Total(before) \in Int /\ Score(before) = Max({0, 100 - Total(before)})
      /\ Total(after) \in Int /\ Score(after) = Max({0, 100 - Total(after)})
  BY <1>2, <1>4
<1>7. /\ Score(before) = IF Total(before) <= 100 THEN 100 - Total(before) ELSE 0
      /\ Score(after) = IF Total(after) <= 100 THEN 100 - Total(after) ELSE 0
  BY <1>6, ScoreIsWhole
<1> QED BY <1>5, <1>6, <1>7

LEMMA WeightsAreCounts ==
    ASSUME NEW severity \in DOMAIN Weight, NEW key
    PROVE  Signal(key, severity).weight \in Nat
BY DEF Signal, Weighing, Weight

\* What can be added up.
Few(signals) == IsFiniteSet(signals) /\ \A s \in signals : s.weight \in Nat

LEMMA SignalsAreFew == Few(Signals)
<1>1. ASSUME NEW condition, NEW s, s.weight \in Nat
      PROVE  Few(SignalIf(condition, s))
  BY <1>1, FS_EmptySet, FS_Singleton DEF SignalIf, Few
<1>u. ASSUME NEW S, NEW T, Few(S), Few(T) PROVE Few(S \cup T)
  BY <1>u, FS_Union DEF Few
<1>e. Few({})
  BY FS_EmptySet DEF Few
<1>2. {"critical", "urgent", "attention", "informational"} \subseteq DOMAIN Weight
  BY DEF Weight
<1>3. \A c, key : Signal(key, IF c THEN "urgent" ELSE "attention").weight \in Nat
  BY <1>2, WeightsAreCounts
<1>4. \A key : /\ Signal(key, "urgent").weight \in Nat /\ Signal(key, "attention").weight \in Nat
               /\ Signal(key, "informational").weight \in Nat
               /\ \A c : Signal(key, IF c THEN "critical" ELSE "attention").weight \in Nat
  BY <1>2, WeightsAreCounts
<1>5. Few(AffordabilitySignals)
  BY <1>1, <1>u, <1>e, <1>3, <1>4 DEF AffordabilitySignals
<1>6. Few(EvidenceSignals)
  BY <1>1, <1>4 DEF EvidenceSignals
<1>7. Few(VulnerabilitySignals)
  BY <1>1 DEF VulnerabilitySignals, Weighing
<1>8. Few(DeadlineSignals)
  BY <1>1, <1>u, <1>3 DEF DeadlineSignals
<1>9. Few(EngagementSignals) /\ Few(ProposalSignals)
  BY <1>1, <1>3, <1>4 DEF EngagementSignals, ProposalSignals
<1>10. Few(ComplianceSignals)
  BY <1>1, <1>4 DEF ComplianceSignals
<1> QED BY <1>u, <1>5, <1>6, <1>7, <1>8, <1>9, <1>10 DEF Signals

LEMMA SignalsStayFew == []Few(Signals)
BY SignalsAreFew, PTL

\* Recording a vulnerability can only settle what was short.
LEMMA RecordingSettles ==
    ASSUME RecordVulnerability
    PROVE  MissingAtStage' \subseteq MissingAtStage
<1>1. /\ records' # {} /\ UNCHANGED <<stage, items, consents, statements>>
  BY DEF RecordVulnerability
<1>2. ASSUME NEW r \in Type.evidence, Resolve(r, EvidenceRecords) \in {"verified", "waived"}
      PROVE  Resolve(r, EvidenceRecords') = Resolve(r, EvidenceRecords)
  <2>1. EvidenceRecords.items = items /\ EvidenceRecords'.items = items
    BY <1>1 DEF EvidenceRecords
  <2>2. CASE Acted(r.key, items)
    BY <2>1, <2>2 DEF Resolve
  <2>3. CASE ~Acted(r.key, items)
    <3>1. ByRecords(r, EvidenceRecords) \in {"verified", "waived"}
      BY <1>2, <2>1, <2>3 DEF Resolve
    <3>2. ByRecords(r, EvidenceRecords') = ByRecords(r, EvidenceRecords)
      BY <1>1, <3>1 DEF ByRecords, EvidenceRecords, CurrentStatement
    <3> QED BY <2>1, <2>3, <3>2 DEF Resolve
  <2> QED BY <2>2, <2>3
<1>3. Met \subseteq Met'
  <2> SUFFICES ASSUME NEW r \in Type.evidence, Resolve(r, EvidenceRecords) \in {"verified", "waived"}
               PROVE  r.key \in Met'
    BY DEF Met, EvidenceMap, Resolved, ResolveEvidence
  <2>1. Resolve(r, EvidenceRecords') \in {"verified", "waived"}
    BY <1>2
  <2> DEFINE seen == [key |-> r.key, blocking |-> r.blocking, state |-> Resolve(r, EvidenceRecords'),
                      timing |-> Timing(Type, stage', r.key)]
  <2>2. seen \in Resolved' /\ seen.key = r.key /\ seen.state \in {"verified", "waived"}
    BY <2>1 DEF Resolved, ResolveEvidence
  <2> HIDE DEF seen
  <2> QED BY <2>2 DEF Met, EvidenceMap
<1> QED BY <1>1, <1>3 DEF MissingAtStage

(* Recording that a client is vulnerable never lowers the health of the case, *)
(* whatever its rows and its type ("Vulnerability never reduces the health    *)
(* score", compose.ts:254).                                                   *)
THEOREM HealthIsBlindToVulnerability == Spec => HealthIgnoresVulnerability
<1>1. ASSUME RecordVulnerability, Few(Signals), Few(Signals)'
      PROVE  Score(Signals)' >= Score(Signals)
  <2>1. UNCHANGED <<stage, items, consents, statements, since, waited, elsewhere>>
    BY <1>1 DEF RecordVulnerability
  <2>2. /\ AffordabilitySignals' = AffordabilitySignals
        /\ DeadlineSignals' = DeadlineSignals /\ EngagementSignals' = EngagementSignals
        /\ ComplianceSignals' = ComplianceSignals /\ ProposalSignals' = ProposalSignals
    BY <2>1 DEF AffordabilitySignals, DeadlineSignals, EngagementSignals, ComplianceSignals, ProposalSignals,
                CurrentStatement
  <2>3. EvidenceSignals' \subseteq EvidenceSignals
    BY <1>1, RecordingSettles DEF EvidenceSignals, SignalIf
  <2>4. \A s \in VulnerabilitySignals' : s.weight = 0
    BY DEF VulnerabilitySignals, SignalIf, Weighing
  <2>5. \A s \in Signals' : s \in Signals \/ s.weight = 0
    BY <2>2, <2>3, <2>4 DEF Signals
  <2>6. IsFiniteSet(Signals) /\ \A s \in Signals : s.weight \in Nat
    BY <1>1 DEF Few
  <2>7. IsFiniteSet(Signals') /\ \A s \in Signals' : s.weight \in Nat
    BY <1>1 DEF Few
  <2>8. Score(Signals') >= Score(Signals)
    BY <2>5, <2>6, <2>7, ScoreGrows
  <2> QED BY <2>8
<1> QED BY <1>1, SignalsStayFew, PTL DEF HealthIgnoresVulnerability, Spec
=============================================================================
