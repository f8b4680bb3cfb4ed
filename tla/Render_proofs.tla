--------------------------- MODULE Render_proofs ---------------------------
(* Proofs about Render, for every family and any number of labels and samples. *)
EXTENDS Render, FiniteSetTheorems, WellFoundedInduction, TLAPS

-----------------------------------------------------------------------------
(* The inductive invariant *)

\* Behind NeverPastTheEnd: what end() returned is not a valid position, so
\* that every iterator that differs from it is one.
EndReached == scrape \in {"metrics", "points", "done"} => ~IsValid(last)
RangeInv == EndReached /\ NeverPastTheEnd

\* newSample is at work on the last payload of its object, which the buckets it has
\* passed have counted already and the other points have not.
Counted(o, i) ==
  IF o = object /\ ~(kind = "histogram" /\ i < bucket) THEN Len(seen[o]) - 1 ELSE Len(seen[o])
PayloadSeen ==
  \A o \in Objects : seen[o] # <<>> /\ (o = object => payload = seen[o][Len(seen[o])])
BucketsPassed == \A i \in 1 .. bucket - 1 : AtMost(Sample(payload), Buckets[i])
ValuesFollow ==
  \A o \in Objects, i \in DataPoints : values[o][i] = Expected(kind, seen[o], Counted(o, i), i)
RecordInv == PayloadSeen /\ BucketsPassed /\ ValuesFollow

\* What begin() found has been given more payloads since, none of them half recorded then.
Finished(o) == IF o = object THEN Len(seen[o]) - 1 ELSE Len(seen[o])
BeginKept ==
  \A o \in DOMAIN seenAtBegin :
    /\ Len(seenAtBegin[o]) \in 1 .. Finished(o)
    /\ \A m \in DOMAIN seenAtBegin[o] : seenAtBegin[o][m] = seen[o][m]

\* A line shows what its point was worth at some moment since begin().
WorthSince(line) ==
  \E n \in Len(seenAtBegin[line.object]) .. Len(seen[line.object]) :
    line.value = Expected(kind, seen[line.object], n, line.point)
LinesSince == \A k \in DOMAIN text : text[k].point \in DataPoints => WorthSince(text[k])
ShownInv == BeginKept /\ LinesSince

\* A histogram's _count and _sum are as the constructors left them, and shown so.
RestKept == kind = "histogram" => \A o \in Objects : values[o][CountPoint] = 0 /\ values[o][SumPoint] = Garbage
RestOf(line) == (line.point = CountPoint => line.value = 0) /\ (line.point = SumPoint => line.value = Garbage)
RestShown == kind = "histogram" => \A k \in DOMAIN text : RestOf(text[k])
RestInv == RestKept /\ RestShown

\* How far the scrape is in the section.
Position == IF scrape = "points" THEN point.index ELSE 0
Passed(m, i) == m <= it.index \/ (m = it.index + 1 /\ i <= Position)
SectionInv ==
  /\ it.index <= Len(it.vec) /\ Len(text) = it.index * Len(Points) + Position
  /\ scrape = "points" => IsValid(it) /\ point.vec = Points /\ point.index <= Len(Points)
  /\ (scrape = "idle" => text = <<>>) /\ (scrape = "done" => ~IsValid(it))
  /\ \A m \in DOMAIN it.vec, i \in DOMAIN Points : Passed(m, i) =>
       /\ Line(m, i) \in DOMAIN text
       /\ text[Line(m, i)].object = it.vec[m] /\ text[Line(m, i)].point = i

RenderInv == TypeOK /\ RangeInv /\ RecordInv /\ ShownInv /\ RestInv /\ SectionInv

-----------------------------------------------------------------------------
(* The operators: buckets, points and pointers *)

\* A set of natural numbers has a smallest element.
LEMMA Smallest == ASSUME NEW T \in SUBSET Nat, T # {} PROVE \E x \in T : \A y \in T : x <= y
<1>1. PICK x \in T : \A y \in T : ~(<<y, x>> \in OpToRel(<, Nat))
  BY NatLessThanWellFounded, WFMin
<1>2. \A y \in T : ~(y < x)
  BY <1>1 DEF OpToRel
<1> QED BY <1>2

\* Every list of numbers can be sorted, the largest first: insertion, by induction.
Sorts(n, s, p) ==
  /\ p \in [1 .. n -> 1 .. n]
  /\ \A i \in 1 .. n : \E k \in 1 .. n : p[k] = i
  /\ \A i, k \in 1 .. n : i < k => s[p[i]] >= s[p[k]]
Sortable(n) == \A s \in [1 .. n -> Int] : \E p : Sorts(n, s, p)

LEMMA Insertion == ASSUME NEW n \in Nat, Sortable(n) PROVE Sortable(n + 1)
<1> SUFFICES ASSUME NEW s \in [1 .. n + 1 -> Int] PROVE \E p : Sorts(n + 1, s, p)
  BY DEF Sortable
<1>1. [i \in 1 .. n |-> s[i]] \in [1 .. n -> Int]
  OBVIOUS
<1>2. PICK p : Sorts(n, [i \in 1 .. n |-> s[i]], p)
  BY <1>1 DEF Sortable
<1>3. /\ p \in [1 .. n -> 1 .. n]
      /\ \A i \in 1 .. n : \E k \in 1 .. n : p[k] = i
      /\ \A i, k \in 1 .. n : i < k => s[p[i]] >= s[p[k]]
  BY <1>2 DEF Sorts
<1> DEFINE Places == {k \in 1 .. n + 1 : k = n + 1 \/ s[p[k]] < s[n + 1]}
<1>4. PICK k \in Places : \A j \in Places : k <= j
  <2>1. n + 1 \in Places /\ Places \in SUBSET Nat
    OBVIOUS
  <2> QED BY <2>1, Smallest
<1>5. k \in 1 .. n + 1 /\ (k # n + 1 => s[p[k]] < s[n + 1]) /\ \A i \in 1 .. k - 1 : s[p[i]] >= s[n + 1]
  <2>1. k \in 1 .. n + 1 /\ (k # n + 1 => s[p[k]] < s[n + 1])
    BY <1>4
  <2>2. ASSUME NEW i \in 1 .. k - 1 PROVE s[p[i]] >= s[n + 1]
    <3>1. i \in 1 .. n /\ i \notin Places
      BY <1>4, <2>1
    <3>2. s[p[i]] \in Int /\ s[n + 1] \in Int
      BY <1>3, <3>1
    <3> QED BY <3>1, <3>2
  <2> QED BY <2>1, <2>2
<1> DEFINE q == [i \in 1 .. n + 1 |-> IF i < k THEN p[i] ELSE IF i = k THEN n + 1 ELSE p[i - 1]]
<1> HIDE DEF Places
<1>6. q \in [1 .. n + 1 -> 1 .. n + 1]
  <2>1. ASSUME NEW i \in 1 .. n + 1 PROVE q[i] \in 1 .. n + 1
    <3>1. CASE i < k
      <4>1. i \in 1 .. n /\ q[i] = p[i]
        BY <1>5, <3>1
      <4>2. p[i] \in 1 .. n + 1
        BY <1>3, <4>1
      <4> QED BY <4>1, <4>2
    <3>2. CASE i = k
      BY <3>2
    <3>3. CASE i > k
      <4>1. i - 1 \in 1 .. n /\ q[i] = p[i - 1]
        BY <1>5, <3>3
      <4>2. p[i - 1] \in 1 .. n + 1
        BY <1>3, <4>1
      <4> QED BY <4>1, <4>2
    <3> QED BY <1>5, <3>1, <3>2, <3>3
  <2> QED BY <2>1
<1>7. ASSUME NEW i \in 1 .. n + 1 PROVE \E j \in 1 .. n + 1 : q[j] = i
  <2>1. CASE i = n + 1
    BY <1>5, <2>1
  <2>2. CASE i \in 1 .. n
    <3>1. PICK j \in 1 .. n : p[j] = i
      BY <1>3, <2>2
    <3>2. CASE j < k
      BY <3>1, <3>2
    <3>3. CASE j >= k
      <4>1. j + 1 \in 1 .. n + 1 /\ q[j + 1] = p[j]
        BY <1>5, <3>1, <3>3
      <4> QED BY <3>1, <4>1
    <3> QED BY <1>5, <3>1, <3>2, <3>3
  <2> QED BY <2>1, <2>2
<1>8. ASSUME NEW i \in 1 .. n + 1, NEW j \in 1 .. n + 1, i < j PROVE s[q[i]] >= s[q[j]]
  <2>1. \A m \in 1 .. n : p[m] \in 1 .. n /\ s[p[m]] \in Int
    BY <1>3
  <2>2. CASE j < k
    <3>1. i \in 1 .. n /\ j \in 1 .. n /\ q[i] = p[i] /\ q[j] = p[j]
      BY <1>5, <1>8, <2>2
    <3> QED BY <1>3, <1>8, <3>1
  <2>3. CASE j = k
    BY <1>5, <1>8, <2>1, <2>3
  <2>4. CASE j > k /\ i < k
    <3>1. i \in 1 .. n /\ j - 1 \in 1 .. n /\ i < j - 1 /\ q[i] = p[i] /\ q[j] = p[j - 1]
      BY <1>5, <1>8, <2>4
    <3> QED BY <1>3, <3>1
  <2>5. CASE j > k /\ i = k
    <3>1. j - 1 \in 1 .. n /\ k \in 1 .. n /\ k <= j - 1 /\ q[i] = n + 1 /\ q[j] = p[j - 1]
      BY <1>5, <1>8, <2>5
    <3>2. k = j - 1 \/ s[p[k]] >= s[p[j - 1]]
      BY <1>3, <3>1
    <3>3. s[p[k]] < s[n + 1]
      BY <1>5, <3>1
    <3>4. s[p[k]] \in Int /\ s[p[j - 1]] \in Int /\ s[n + 1] \in Int
      BY <2>1, <3>1
    <3>5. s[n + 1] >= s[p[j - 1]]
      BY <3>2, <3>3, <3>4
    <3> QED BY <3>1, <3>5
  <2>6. CASE j > k /\ i > k
    <3>1. i - 1 \in 1 .. n /\ j - 1 \in 1 .. n /\ i - 1 < j - 1 /\ q[i] = p[i - 1] /\ q[j] = p[j - 1]
      BY <1>5, <1>8, <2>6
    <3> QED BY <1>3, <3>1
  <2> QED BY <1>5, <2>2, <2>3, <2>4, <2>5, <2>6
<1>9. Sorts(n + 1, s, q)
  BY <1>6, <1>7, <1>8 DEF Sorts
<1> QED BY <1>9

LEMMA Sorting == \A n \in Nat : Sortable(n)
<1> DEFINE T == {n \in Nat : ~Sortable(n)}
<1> SUFFICES ASSUME T # {} PROVE FALSE
  OBVIOUS
<1>1. PICK n \in T : \A m \in T : n <= m
  BY Smallest
<1>2. CASE n = 0
  <2>1. \A s : Sorts(0, s, [i \in 1 .. 0 |-> i])
    BY DEF Sorts
  <2> QED BY <1>1, <1>2, <2>1 DEF Sortable
<1>3. CASE n # 0
  <2>1. n - 1 \in Nat /\ ~(n - 1 \in T) /\ n - 1 + 1 = n
    BY <1>1, <1>3
  <2>2. Sortable(n - 1)
    BY <2>1
  <2> QED BY <1>1, <2>1, <2>2, Insertion
<1> QED BY <1>2, <1>3

\* A histogram's buckets: one more than its bounds, the widest first.
LEMMA BucketsSorted ==
  /\ Buckets \in Seq(Int) /\ Len(Buckets) = Len(Bounds) + 1
  /\ \A i, k \in DOMAIN Buckets : i <= k => Buckets[i] >= Buckets[k]
<1> DEFINE all == Append(Bounds, Infinity)
           n == Len(all)
           order == CHOOSE p \in [DOMAIN all -> DOMAIN all] :
                      /\ \A i \in DOMAIN all : \E k \in DOMAIN all : p[k] = i
                      /\ \A i, k \in DOMAIN all : i < k => all[p[i]] >= all[p[k]]
<1>1. all \in Seq(Int) /\ n \in Nat /\ DOMAIN all = 1 .. n /\ n = Len(Bounds) + 1
  BY RenderAssumption
<1>2. Buckets = [i \in DOMAIN all |-> all[order[i]]]
  BY DEF Buckets
<1> HIDE DEF all
<1>3. all \in [1 .. n -> Int]
  BY <1>1
<1>4. PICK p : Sorts(n, all, p)
  BY <1>1, <1>3, Sorting DEF Sortable
<1>5. /\ order \in [1 .. n -> 1 .. n]
      /\ \A i, k \in 1 .. n : i < k => all[order[i]] >= all[order[k]]
  BY <1>1, <1>4 DEF Sorts
<1> HIDE DEF order
<1>6. Buckets \in Seq(Int) /\ Len(Buckets) = n /\ DOMAIN Buckets = 1 .. n
  BY <1>1, <1>2, <1>3, <1>5
<1>7. \A i, k \in 1 .. n : i <= k => all[order[i]] >= all[order[k]]
  BY <1>3, <1>5
<1> QED BY <1>1, <1>2, <1>6, <1>7

LEMMA PointsAre ==
  /\ DOMAIN Points = 1 .. Len(Points) /\ Len(Points) \in Nat \ {0}
  /\ \A i \in DOMAIN Points : Points[i] = i
  /\ Points \in Seq(DOMAIN Points) /\ DataPoints \subseteq DOMAIN Points
<1>1. Len(Buckets) \in Nat /\ DOMAIN Buckets = 1 .. Len(Buckets)
  BY BucketsSorted
<1>2. CASE kind = "histogram"
  <2>1. Points = [i \in 1 .. Len(Buckets) + 2 |-> i]
    BY <1>2 DEF Points
  <2>2. DOMAIN Points = 1 .. Len(Buckets) + 2 /\ Len(Points) = Len(Buckets) + 2
    BY <1>1, <2>1
  <2> QED BY <1>1, <1>2, <2>1, <2>2 DEF DataPoints
<1>3. CASE kind # "histogram"
  <2>1. Points = <<1>>
    BY <1>3 DEF Points
  <2> QED BY <1>3, <2>1 DEF DataPoints
<1> QED BY <1>2, <1>3

\* The k-th of the labels present is one.
LEMMA NthPresent ==
  /\ IsFiniteSet(Present) /\ Cardinality(Present) \in Nat
  /\ \A k \in 1 .. Cardinality(Present) : Nth(k) \in Present
<1> DEFINE Rank(x) == Cardinality({m \in Present : m <= x})
<1>1. IsFiniteSet(Labels) /\ Labels = 1 .. NumLabels /\ NumLabels \in Nat
  BY FS_Interval, RenderAssumption DEF Labels
<1>2. IsFiniteSet(Present) /\ Cardinality(Present) \in Nat
  BY <1>1, FS_Subset, FS_CardinalityType DEF Present
<1>0. \A m \in Present : m \in Int /\ 1 <= m /\ m <= NumLabels
  BY <1>1 DEF Present
<1>3. \A x : IsFiniteSet({m \in Present : m <= x}) /\ Rank(x) \in Nat
  BY <1>2, FS_Subset, FS_CardinalityType
<1>4. ASSUME NEW k \in 1 .. Cardinality(Present) PROVE Nth(k) \in Present
  <2> DEFINE T == {x \in Nat : Rank(x) >= k}
  <2>1. NumLabels \in T
    <3>1. {m \in Present : m <= NumLabels} = Present
      BY <1>0
    <3> QED BY <1>1, <3>1
  <2>2. PICK x \in T : \A y \in T : x <= y
    BY <2>1, Smallest
  <2>3. x # 0
    <3>1. {m \in Present : m <= 0} = {}
      BY <1>0
    <3> QED BY <2>2, <3>1, FS_EmptySet
  <2>4. x - 1 \in Nat /\ ~(Rank(x - 1) >= k)
    BY <2>2, <2>3
  <2>5. {m \in Present : m <= x} \ {x} = {m \in Present : m <= x - 1}
    <3>1. \A m \in Present : m <= x - 1 <=> m <= x /\ m # x
      BY <1>0, <2>2
    <3> QED BY <3>1
  <2>6. Rank(x - 1) = IF x \in Present THEN Rank(x) - 1 ELSE Rank(x)
    <3> DEFINE below == {m \in Present : m <= x}
    <3>1. Cardinality(below \ {x}) = IF x \in below THEN Cardinality(below) - 1 ELSE Cardinality(below)
      BY <1>3, FS_RemoveElement
    <3>2. x \in below <=> x \in Present
      BY <2>2
    <3> QED BY <2>5, <3>1, <3>2
  <2>7. x \in Present /\ Rank(x) = k
    BY <1>3, <2>2, <2>4, <2>6
  <2> QED BY <2>7 DEF Nth
<1> QED BY <1>2, <1>4

LEMMA PointersTyped ==
  ASSUME NEW S, items \in [Labels -> S \cup {None}]
  PROVE  Pointers \in Seq(S) /\ Len(Pointers) = Cardinality(Present)
<1>1. \A k \in 1 .. Cardinality(Present) : items[Nth(k)] \in S
  BY NthPresent DEF Present
<1> QED BY <1>1, NthPresent DEF Pointers

-----------------------------------------------------------------------------
(* What a point is worth *)

\* The last of some places in a sequence.
LEMMA LastOf ==
  ASSUME NEW n \in Nat, NEW P \in SUBSET (1 .. n), P # {}
  PROVE  LET m == CHOOSE m \in P : \A k \in P : k <= m IN m \in P /\ \A k \in P : k <= m
<1> DEFINE T == {x \in Nat : \A k \in P : k <= x}
<1>1. n \in T
  OBVIOUS
<1>2. PICK x \in T : \A y \in T : x <= y
  BY <1>1, Smallest
<1>3. x \in P
  <2> SUFFICES ASSUME x \notin P PROVE FALSE
    OBVIOUS
  <2>1. \A k \in P : k \in Int /\ 1 <= k /\ k <= x /\ k # x
    BY <1>2
  <2>2. x - 1 \in Nat /\ \A k \in P : k <= x - 1
    <3>1. PICK k \in P : TRUE
      OBVIOUS
    <3>2. x \in Nat /\ x >= 1
      BY <1>2, <2>1, <3>1
    <3> QED BY <2>1, <3>2
  <2>3. x - 1 \in T
    BY <2>2
  <2> QED BY <1>2, <2>2, <2>3
<1> QED BY <1>2, <1>3

\* It depends on the payloads counted only.
LEMMA SameExpected ==
  ASSUME NEW ps, NEW qs, NEW n \in Nat, NEW i, \A m \in 1 .. n : ps[m] = qs[m], kind \in AllKinds
  PROVE  Expected(kind, ps, n, i) = Expected(kind, qs, n, i)
<1>1. CASE kind = "counter"
  BY <1>1 DEF Expected
<1>2. CASE kind = "gauge"
  <2> DEFINE P == {m \in 1 .. n : ps[m] # Text}
             Q == {m \in 1 .. n : qs[m] # Text}
             latest(S) == CHOOSE m \in S : \A k \in S : k <= m
  <2>1. P = Q
    OBVIOUS
  <2>2. P # {} => latest(P) \in 1 .. n
    <3>1. P \in SUBSET (1 .. n)
      OBVIOUS
    <3> QED BY <3>1, LastOf
  <2>3. Expected(kind, ps, n, i) = IF P = {} THEN Garbage ELSE ps[latest(P)]
    BY <1>2 DEF Expected
  <2>4. Expected(kind, qs, n, i) = IF P = {} THEN Garbage ELSE qs[latest(P)]
    <3>1. Expected(kind, qs, n, i) = IF Q = {} THEN Garbage ELSE qs[latest(Q)]
      BY <1>2 DEF Expected
    <3> HIDE DEF P, Q
    <3> QED BY <2>1, <3>1
  <2> QED BY <2>2, <2>3, <2>4
<1>3. CASE kind = "MatchGauge"
  BY <1>3 DEF Expected
<1>4. CASE kind = "histogram"
  <2>1. {m \in 1 .. n : AtMost(Sample(ps[m]), Buckets[i])} = {m \in 1 .. n : AtMost(Sample(qs[m]), Buckets[i])}
    OBVIOUS
  <2> QED BY <1>4, <2>1 DEF Expected
<1> QED BY <1>1, <1>2, <1>3, <1>4 DEF AllKinds

LEMMA ExpectedKept ==
  kind \in AllKinds => \A ps, qs : \A n \in Nat : \A i : (\A m \in 1 .. n : ps[m] = qs[m]) =>
    Expected(kind, ps, n, i) = Expected(kind, qs, n, i)
BY SameExpected

\* The samples of a bucket.
Within(ps, n, le) == {m \in 1 .. n : AtMost(Sample(ps[m]), le)}
LEMMA WithinFinite ==
  ASSUME NEW ps, NEW n \in Nat, NEW le
  PROVE  IsFiniteSet(Within(ps, n, le)) /\ Cardinality(Within(ps, n, le)) \in 0 .. n
<1>1. IsFiniteSet(1 .. n) /\ Cardinality(1 .. n) = n
  BY FS_Interval
<1>2. Within(ps, n, le) \in SUBSET (1 .. n)
  BY DEF Within
<1> QED BY <1>1, <1>2, FS_Subset, FS_CardinalityType

LEMMA TypedExpected ==
  ASSUME NEW ps \in Seq(Payloads), NEW n \in 0 .. Len(ps), NEW i, kind \in AllKinds
  PROVE  /\ Expected(kind, ps, n, i) \in Worth
         /\ kind \in {"counter", "histogram"} => Expected(kind, ps, n, i) \in Nat
<1> USE DEF Worth
<1>0. n \in Nat /\ \A m \in 1 .. n : ps[m] \in Payloads
  OBVIOUS
<1>1. CASE kind = "counter"
  BY <1>1 DEF Expected
<1>2. CASE kind = "gauge"
  <2> DEFINE P == {m \in 1 .. n : ps[m] # Text}
             latest == CHOOSE m \in P : \A k \in P : k <= m
  <2>1. P \in SUBSET (1 .. n)
    OBVIOUS
  <2>2. P # {} => latest \in P
    BY <1>0, <2>1, LastOf
  <2>3. Expected(kind, ps, n, i) = IF P = {} THEN Garbage ELSE ps[latest]
    BY <1>2 DEF Expected
  <2>4. P # {} => ps[latest] \in Payloads /\ ps[latest] # Text
    BY <1>0, <2>2
  <2> QED BY <1>2, <2>3, <2>4, RenderAssumption DEF Payloads
<1>3. CASE kind = "MatchGauge"
  BY <1>0, <1>3, RenderAssumption DEF Expected
<1>4. CASE kind = "histogram"
  <2>1. Expected(kind, ps, n, i) = Cardinality(Within(ps, n, Buckets[i]))
    BY <1>4 DEF Expected, Within
  <2>2. Cardinality(Within(ps, n, Buckets[i])) \in Nat
    BY <1>0, WithinFinite
  <2> QED BY <1>4, <2>1, <2>2
<1> QED BY <1>1, <1>2, <1>3, <1>4 DEF AllKinds

\* One more payload: what the newSample of each class makes of it.
LEMMA NextExpected ==
  ASSUME NEW ps \in Seq(Payloads), NEW n \in 1 .. Len(ps), NEW i
  PROVE  /\ kind = "counter" => Expected(kind, ps, n, i) = Expected(kind, ps, n - 1, i) + 1
         /\ kind = "gauge" => Expected(kind, ps, n, i) = IF ps[n] = Text THEN Expected(kind, ps, n - 1, i) ELSE ps[n]
         /\ kind = "MatchGauge" => Expected(kind, ps, n, i) = MatchCount[ps[n]]
         /\ kind = "histogram" =>
              Expected(kind, ps, n, i) = Expected(kind, ps, n - 1, i) + IF AtMost(Sample(ps[n]), Buckets[i]) THEN 1 ELSE 0
<1>0. n \in Nat /\ n - 1 \in Nat
  OBVIOUS
<1>1. CASE kind = "counter"
  BY <1>1 DEF Expected
<1>2. CASE kind = "gauge"
  <2> DEFINE P(m) == {k \in 1 .. m : ps[k] # Text}
             Last(m) == CHOOSE k \in P(m) : \A j \in P(m) : j <= k
  <2>1. \A m : Expected(kind, ps, m, i) = IF P(m) = {} THEN Garbage ELSE ps[Last(m)]
    BY <1>2 DEF Expected
  <2>2. CASE ps[n] = Text
    <3>1. P(n) = P(n - 1)
      BY <2>2
    <3> QED BY <1>2, <2>1, <2>2, <3>1
  <2>3. CASE ps[n] # Text
    <3>1. n \in P(n) /\ P(n) \in SUBSET (1 .. n)
      BY <2>3
    <3>2. Last(n) \in P(n) /\ \A k \in P(n) : k <= Last(n)
      BY <1>0, <3>1, LastOf
    <3>3. Last(n) = n
      BY <3>1, <3>2
    <3> QED BY <1>2, <2>1, <2>3, <3>1, <3>3
  <2> QED BY <2>2, <2>3
<1>3. CASE kind = "MatchGauge"
  BY <1>3 DEF Expected
<1>4. CASE kind = "histogram"
  <2> DEFINE W(m) == Within(ps, m, Buckets[i])
  <2>1. \A m : Expected(kind, ps, m, i) = Cardinality(W(m))
    BY <1>4 DEF Expected, Within
  <2>2. W(n) = W(n - 1) \cup (IF AtMost(Sample(ps[n]), Buckets[i]) THEN {n} ELSE {})
    BY DEF Within
  <2>3. n \notin W(n - 1) /\ IsFiniteSet(W(n - 1))
    <3>1. n \notin W(n - 1)
      BY DEF Within
    <3> QED BY <1>0, <3>1, WithinFinite
  <2>4. Cardinality(W(n - 1) \cup {n}) = Cardinality(W(n - 1)) + 1
    BY <2>3, FS_AddElement
  <2>5. Cardinality(W(n - 1)) \in Nat
    BY <1>0, WithinFinite
  <2> HIDE DEF W
  <2>6. CASE AtMost(Sample(ps[n]), Buckets[i])
    BY <1>4, <2>1, <2>2, <2>4, <2>6
  <2>7. CASE ~AtMost(Sample(ps[n]), Buckets[i])
    <3>1. W(n) = W(n - 1)
      BY <2>2, <2>7
    <3> QED BY <1>4, <2>1, <2>5, <2>7, <3>1
  <2> QED BY <2>6, <2>7
<1> QED BY <1>1, <1>2, <1>3, <1>4

\* Before the first payload: what the constructors leave.
LEMMA FreshExpected ==
  ASSUME kind \in AllKinds
  PROVE  Fresh \in [DOMAIN Points -> Worth] /\ \A ps : \A i \in DataPoints : Fresh[i] = Expected(kind, ps, 0, i)
<1> USE BucketsSorted, PointsAre DEF Worth
<1>1. CASE kind = "counter"
  BY <1>1 DEF Expected, Fresh, Points, DataPoints
<1>2. CASE kind \in {"gauge", "MatchGauge"}
  <2>1. Fresh = <<Garbage>> /\ Points = <<1>> /\ DataPoints = {1}
    BY <1>2 DEF Fresh, Points, DataPoints
  <2>2. \A ps : {m \in 1 .. 0 : ps[m] # Text} = {}
    OBVIOUS
  <2>3. \A ps, i : Expected(kind, ps, 0, i) = Garbage
    BY <1>2, <2>2 DEF Expected
  <2> QED BY <2>1, <2>3
<1>3. CASE kind = "histogram"
  <2>1. Fresh = [i \in DOMAIN Points |-> IF i <= Len(Buckets) + 1 THEN 0 ELSE Garbage]
    BY <1>3 DEF Fresh
  <2>2. \A ps, i : Expected(kind, ps, 0, i) = 0
    BY <1>3, FS_EmptySet DEF Expected
  <2> QED BY <1>3, <2>1, <2>2 DEF DataPoints
<1> QED BY <1>1, <1>2, <1>3 DEF AllKinds

-----------------------------------------------------------------------------
(* Iterators and types *)

\* end() makes an iterator that is not valid, whatever is in the map.
LEMMA PastInvalid == ~IsValid(Past(Pointers))
<1>1. Len(Pointers) = Cardinality(Present)
  BY NthPresent DEF Pointers
<1> QED
  BY <1>1, NthPresent DEF IsValid, Past

\* Two iterators that differ by VectorIterator's == are not both past the end.
LEMMA DifferentIsValid == ASSUME NEW a, NEW b, ~Same(a, b), ~IsValid(b) PROVE IsValid(a)
BY DEF Same

LEMMA KindStays == [Next]_vars => kind' = kind /\ Points' = Points /\ DataPoints' = DataPoints
BY DEF vars, Next, NewSample, UpdatePoint, UpdateBucket, UpdateDone, Erase, Begin, End, VisitMetric, RenderPoint,
       MetricDone, FamilyDone, Return, Points, DataPoints

\* Recording and sweeping keep the family and its metrics well typed ...
LEMMA DataStep == TypeOK /\ RecordInv /\ [Next]_vars => DataTyped'
<1> SUFFICES ASSUME DataTyped, RecordInv, [Next]_vars PROVE DataTyped'
  BY DEF TypeOK
<1>0. /\ kind' = kind /\ Points' = Points /\ kind \in AllKinds
      /\ Len(values) \in Nat /\ Objects = 1 .. Len(values) /\ Len(seen) = Len(values)
      /\ Buckets \in Seq(Int) /\ Buckets' = Buckets
  <2>1. kind' = kind /\ Points' = Points /\ kind \in AllKinds
    BY KindStays, RenderAssumption DEF DataTyped
  <2>2. Len(values) \in Nat /\ Objects = 1 .. Len(values) /\ Len(seen) = Len(values)
    BY DEF DataTyped, Objects
  <2>3. Buckets \in Seq(Int) /\ Buckets' = Buckets
    BY BucketsSorted DEF Buckets
  <2> QED BY <2>1, <2>2, <2>3
<1> USE DEF DataTyped
<1>1. ASSUME NEW l \in Labels, NEW p \in Payloads, NewSample(l, p) PROVE DataTyped'
  <2> USE RenderAssumption DEF NewSample, Labels
  <2>1. CASE items[l] # None
    <3>1. items[l] \in Objects /\ UNCHANGED <<items, values, kind, process>> /\ object' = items[l]
          /\ seen' = [seen EXCEPT ![items[l]] = Append(@, p)]
      BY <1>1, <2>1
    <3>2. seen' \in Seq(Seq(Payloads)) /\ DOMAIN seen' = DOMAIN seen
      BY <3>1
    <3>3. None \notin Objects
      BY <1>0 DEF None
    <3> QED BY <1>0, <1>1, <2>1, <3>1, <3>2, <3>3 DEF Objects
  <2>2. CASE items[l] = None
    <3>1. /\ object' = Len(values) + 1 /\ items' = [items EXCEPT ![l] = object']
          /\ values' = Append(values, Fresh) /\ seen' = Append(seen, <<p>>)
      BY <1>1, <2>2
    <3>2. values' \in Seq([DOMAIN Points -> Worth]) /\ seen' \in Seq(Seq(Payloads))
      BY <1>0, <3>1, FreshExpected
    <3>3. Objects' = Objects \cup {object'} /\ DOMAIN seen' = Objects' /\ object' # None
      <4>1. values \in Seq([DOMAIN Points -> Worth]) /\ seen \in Seq(Seq(Payloads))
        OBVIOUS
      <4> HIDE DEF DataTyped, NewSample
      <4>2. Len(values') = Len(values) + 1 /\ DOMAIN values' = 1 .. Len(values) + 1 /\ DOMAIN seen' = 1 .. Len(seen) + 1
        BY <3>1, <4>1
      <4>3. Objects' = 1 .. Len(values) + 1
        BY <4>2 DEF Objects
      <4> QED BY <1>0, <3>1, <4>2, <4>3 DEF None
    <3>4. items' \in [Labels -> Objects' \cup {None}]
      BY <3>1, <3>3
    <3> QED BY <1>0, <1>1, <3>2, <3>3, <3>4
  <2> QED BY <2>1, <2>2
<1>2. CASE UpdatePoint
  <2>1. object \in Objects /\ 1 \in DataPoints /\ 1 \in DOMAIN Points /\ payload \in Payloads
    BY <1>2, PointsAre DEF UpdatePoint, DataPoints
  <2>2. values[object][1] \in Worth /\ (kind = "counter" => values[object][1] \in Nat)
    <3>1. /\ seen[object] \in Seq(Payloads) /\ Len(seen[object]) - 1 \in 0 .. Len(seen[object])
          /\ values[object][1] = Expected(kind, seen[object], Len(seen[object]) - 1, 1)
      BY <1>2, <2>1 DEF UpdatePoint, RecordInv, ValuesFollow, PayloadSeen, Counted
    <3> QED BY <1>0, <3>1, TypedExpected
  <2>3. Assigned(values[object][1]) \in Worth
    <3> USE DEF Worth, Payloads
    <3>1. CASE kind = "counter"
      <4>1. Assigned(values[object][1]) = values[object][1] + 1
        BY <3>1 DEF Assigned
      <4> QED BY <2>2, <3>1, <4>1
    <3>2. CASE kind = "gauge"
      BY <2>1, <2>2, <3>2, RenderAssumption DEF Assigned
    <3>3. CASE kind = "MatchGauge"
      <4>1. MatchCount[payload] \in Nat
        BY <2>1, RenderAssumption
      <4> QED BY <3>3, <4>1 DEF Assigned
    <3> QED BY <1>0, <1>2, <3>1, <3>2, <3>3 DEF UpdatePoint, AllKinds
  <2>4. values' = [values EXCEPT ![object] = [@ EXCEPT ![1] = Assigned(values[object][1])]]
    BY <1>2 DEF UpdatePoint
  <2>5. values' \in Seq([DOMAIN Points -> Worth]) /\ DOMAIN values' = DOMAIN values
    BY <2>1, <2>3, <2>4 DEF Objects
  <2> QED BY <1>0, <1>2, <2>5 DEF UpdatePoint, Unlock, Objects, None, Payloads
<1>3. CASE UpdateBucket
  <2>1. object \in Objects /\ bucket \in DataPoints /\ bucket \in DOMAIN Points
    <3>1. object \in Objects
      BY <1>3 DEF UpdateBucket
    <3>2. bucket \in DOMAIN Buckets
      BY <1>0, <1>3 DEF UpdateBucket, Counts
    <3>3. bucket \in DataPoints
      BY <1>3, <3>2 DEF UpdateBucket, DataPoints
    <3> QED BY <3>1, <3>3, PointsAre
  <2>2. values[object][bucket] \in Nat
    <3>1. /\ seen[object] \in Seq(Payloads) /\ Len(seen[object]) - 1 \in 0 .. Len(seen[object])
          /\ values[object][bucket] = Expected(kind, seen[object], Len(seen[object]) - 1, bucket)
      <4>1. seen[object] \in Seq(Payloads) /\ seen[object] # <<>>
        BY <2>1 DEF RecordInv, PayloadSeen
      <4>2. Counted(object, bucket) = Len(seen[object]) - 1
        BY <1>0 DEF Counted
      <4>3. values[object][bucket] = Expected(kind, seen[object], Counted(object, bucket), bucket)
        BY <2>1 DEF RecordInv, ValuesFollow
      <4> QED BY <4>1, <4>2, <4>3
    <3>2. kind = "histogram"
      BY <1>3 DEF UpdateBucket
    <3> QED BY <1>0, <3>1, <3>2, TypedExpected
  <2>3. values' = [values EXCEPT ![object] = [@ EXCEPT ![bucket] = values[object][bucket] + 1]]
    BY <1>3 DEF UpdateBucket
  <2>4. values' \in Seq([DOMAIN Points -> Worth]) /\ DOMAIN values' = DOMAIN values
    BY <2>1, <2>2, <2>3 DEF Objects, Worth
  <2> QED BY <1>0, <1>3, <2>4 DEF UpdateBucket, Counts, Objects
<1>4. CASE UpdateDone
  BY <1>0, <1>4 DEF UpdateDone, Unlock, Objects, None, Payloads
<1>5. ASSUME NEW l \in Labels, Erase(l) PROVE DataTyped'
  BY <1>0, <1>5 DEF Erase, workerVars, Objects
<1>6. CASE Begin \/ End \/ RenderPoint \/ MetricDone \/ FamilyDone \/ Return
  BY <1>0, <1>6 DEF Begin, End, RenderPoint, MetricDone, FamilyDone, Return, Goto, workerVars, Objects
<1>7. CASE VisitMetric
  BY <1>0, <1>7 DEF VisitMetric, workerVars, Objects
<1>8. CASE UNCHANGED vars
  BY <1>0, <1>8 DEF vars, workerVars, Objects
<1> QED
  BY <1>1, <1>2, <1>3, <1>4, <1>5, <1>6, <1>7, <1>8 DEF Next

\* operator++ moves the index only.
LEMMA Incremented ==
  ASSUME NEW S, NEW i \in IteratorOf(S)
  PROVE  Increment(i) \in IteratorOf(S) /\ Increment(i).vec = i.vec /\ Increment(i).index = i.index + 1
BY DEF IteratorOf, Increment

\* The steps of the worker and the sweep, and those of the scrape.
Recording ==
  (\E l \in Labels, p \in Payloads : NewSample(l, p)) \/ UpdatePoint \/ UpdateBucket \/ UpdateDone
  \/ \E l \in Labels : Erase(l)
Scraping == Begin \/ End \/ VisitMetric \/ RenderPoint \/ MetricDone \/ FamilyDone \/ Return

\* A sequence of payloads, and the same with more behind.
Extends(s, t) == t \in Seq(Payloads) /\ Len(t) >= Len(s) /\ \A m \in DOMAIN s : t[m] = s[m]

LEMMA Recorded ==
  ASSUME DataTyped, Recording
  PROVE  /\ UNCHANGED <<process, scrape, it, last, point, text, seenAtBegin>>
         /\ \A o \in Objects : o \in Objects' /\ Extends(seen[o], seen'[o])
<1>0. Objects = 1 .. Len(values) /\ Len(values) \in Nat /\ DOMAIN seen = Objects /\ \A o \in Objects : seen[o] \in Seq(Payloads)
  BY DEF DataTyped, Objects
<1>1. \A p \in Payloads, s \in Seq(Payloads) : Extends(s, s) /\ Extends(s, Append(s, p))
  BY DEF Extends
<1>2. ASSUME NEW l \in Labels, NEW p \in Payloads, NewSample(l, p)
      PROVE  /\ UNCHANGED <<process, scrape, it, last, point, text, seenAtBegin>>
             /\ \A o \in Objects : o \in Objects' /\ Extends(seen[o], seen'[o])
  <2>1. UNCHANGED <<process, scrape, it, last, point, text, seenAtBegin>>
    BY <1>2 DEF NewSample, scrapeVars
  <2>2. CASE items[l] # None
    <3>1. values' = values /\ seen' = [seen EXCEPT ![items[l]] = Append(@, p)]
      BY <1>2, <2>2 DEF NewSample
    <3>2. \A o \in Objects : seen'[o] = seen[o] \/ seen'[o] = Append(seen[o], p)
      BY <1>0, <3>1
    <3> QED BY <1>0, <1>1, <2>1, <3>1, <3>2 DEF Objects
  <2>3. CASE items[l] = None
    <3>1. values' = Append(values, Fresh) /\ seen' = Append(seen, <<p>>)
      BY <1>2, <2>3 DEF NewSample
    <3>2. values \in Seq([DOMAIN Points -> Worth]) /\ seen \in Seq(Seq(Payloads))
      BY DEF DataTyped
    <3>3. \A o \in Objects : seen'[o] = seen[o] /\ o \in Objects'
      BY <1>0, <3>1, <3>2 DEF Objects
    <3> QED BY <1>0, <1>1, <2>1, <3>3
  <2> QED BY <2>2, <2>3
<1>3. CASE UpdatePoint \/ UpdateBucket \/ UpdateDone \/ \E l \in Labels : Erase(l)
  <2>1. /\ UNCHANGED <<process, scrape, it, last, point, text, seenAtBegin, seen>>
        /\ values' = values \/ DOMAIN values' = DOMAIN values
    BY <1>3 DEF UpdatePoint, UpdateBucket, UpdateDone, Erase, scrapeVars
  <2>2. \A o \in Objects : Extends(seen[o], seen'[o])
    BY <1>0, <2>1 DEF Extends
  <2> QED BY <2>1, <2>2 DEF Objects
<1> QED BY <1>2, <1>3 DEF Recording

LEMMA Scraped == Scraping => UNCHANGED <<kind, items, values, sent, worker, object, payload, bucket, seen>>
BY DEF Scraping, Begin, End, VisitMetric, RenderPoint, MetricDone, FamilyDone, Return, workerVars

\* ... and every scrape keeps iterators and lines over metrics that exist.
LEMMA ScrapeStep == TypeOK /\ SectionInv /\ [Next]_vars => ScrapeTyped'
<1> SUFFICES ASSUME DataTyped, ScrapeTyped, SectionInv, [Next]_vars PROVE ScrapeTyped'
  BY DEF TypeOK
<1>0. Points' = Points
  BY KindStays
<1>1. CASE Recording
  <2>1. UNCHANGED <<scrape, it, last, point, text, seenAtBegin>> /\ Objects \subseteq Objects'
    BY <1>1, Recorded
  <2>2. last.vec \in Seq(Objects')
    BY <2>1 DEF ScrapeTyped, IteratorOf
  <2> QED BY <1>0, <2>1, <2>2 DEF ScrapeTyped, IteratorOf
<1>2. CASE Begin
  <2>1. Pointers \in Seq(Objects) /\ DOMAIN seen = Objects /\ seen \in Seq(Seq(Payloads))
    BY PointersTyped DEF DataTyped
  <2>2. it' = Start(Pointers) /\ seenAtBegin' = seen /\ UNCHANGED <<last, point, text>> /\ Objects' = Objects /\ scrape' = "begun"
    BY <1>2 DEF Begin, Goto, Objects
  <2>3. text = <<>>
    BY <1>2 DEF Begin, Goto, SectionInv
  <2> QED BY <1>0, <2>1, <2>2, <2>3 DEF ScrapeTyped, IteratorOf, Start
<1>3. CASE End
  <2>1. Pointers \in Seq(Objects)
    BY PointersTyped DEF DataTyped
  <2>2. last' = Past(Pointers) /\ UNCHANGED <<it, point, text, seenAtBegin>> /\ Objects' = Objects /\ scrape' = "metrics"
    BY <1>3 DEF End, Goto, Objects
  <2> QED BY <1>0, <2>1, <2>2 DEF ScrapeTyped, IteratorOf, Past
<1>4. CASE VisitMetric
  BY <1>0, <1>4, PointsAre DEF VisitMetric, ScrapeTyped, IteratorOf, Start, Objects
<1>5. CASE RenderPoint
  <2> DEFINE line == [object |-> Deref(it), point |-> Deref(point), value |-> values[Deref(it)][Deref(point)]]
  <2>1. /\ text' = Append(text, line) /\ point' = Increment(point) /\ UNCHANGED <<scrape, it, last, seenAtBegin>>
        /\ Objects' = Objects /\ scrape = "points" /\ ~Same(point, Past(Points))
    BY <1>5 DEF RenderPoint, Goto, Objects
  <2>2. IsValid(it) /\ IsValid(point)
    BY <2>1, PointsAre, DifferentIsValid DEF SectionInv, IsValid, Past
  <2>3. Deref(it) \in DOMAIN seenAtBegin /\ Deref(point) \in DOMAIN Points
    <3>1. ASSUME NEW S, NEW i \in IteratorOf(S), IsValid(i) PROVE Deref(i) \in S
      BY <3>1 DEF IteratorOf, IsValid, Deref
    <3>2. it \in IteratorOf(DOMAIN seenAtBegin) /\ point \in IteratorOf(DOMAIN Points)
      BY DEF ScrapeTyped
    <3> QED BY <2>2, <3>1, <3>2
  <2>4. line.value \in Worth
    BY <2>3 DEF DataTyped, ScrapeTyped, Objects
  <2>5. text' \in Seq([object : DOMAIN seenAtBegin, point : DOMAIN Points, value : Worth])
    BY <2>1, <2>3, <2>4 DEF ScrapeTyped
  <2>6. point' \in IteratorOf(DOMAIN Points)
    BY <2>1, Incremented DEF ScrapeTyped
  <2> QED BY <1>0, <2>1, <2>5, <2>6 DEF ScrapeTyped
<1>6. CASE MetricDone
  <2>1. /\ it' = Increment(it) /\ point' = Start(<<>>) /\ UNCHANGED <<last, text, seenAtBegin>>
        /\ Objects' = Objects /\ scrape' = "metrics"
    BY <1>6 DEF MetricDone, Goto, Objects
  <2>2. it' \in IteratorOf(DOMAIN seenAtBegin)
    BY <2>1, Incremented DEF ScrapeTyped
  <2>3. point' \in IteratorOf(DOMAIN Points)
    BY <2>1 DEF Start, IteratorOf
  <2> QED BY <1>0, <2>1, <2>2, <2>3 DEF ScrapeTyped
<1>7. CASE FamilyDone
  BY <1>0, <1>7 DEF FamilyDone, Goto, ScrapeTyped, Objects
<1>8. CASE Return
  BY <1>0, <1>8 DEF Return, Goto, ScrapeTyped, IteratorOf, Start, Objects
<1>9. CASE UNCHANGED vars
  BY <1>0, <1>9 DEF vars, scrapeVars, ScrapeTyped, Objects
<1> QED
  BY <1>1, <1>2, <1>3, <1>4, <1>5, <1>6, <1>7, <1>8, <1>9 DEF Next, Recording

\* No step uses an iterator past its end, nor makes __end a valid one.
LEMMA RangeStep == RangeInv /\ [Next]_vars => RangeInv'
<1> SUFFICES ASSUME RangeInv, [Next]_vars PROVE RangeInv'
  OBVIOUS
<1> USE DEF RangeInv, EndReached, NeverPastTheEnd, Goto, IsValid, workerVars, scrapeVars
<1>1. ASSUME NEW l \in Labels, NEW p \in Payloads, NewSample(l, p) PROVE RangeInv'
  BY <1>1 DEF NewSample
<1>2. CASE UpdatePoint \/ UpdateBucket \/ UpdateDone
  BY <1>2 DEF UpdatePoint, UpdateBucket, UpdateDone
<1>3. ASSUME NEW l \in Labels, Erase(l) PROVE RangeInv'
  BY <1>3 DEF Erase
<1>4. CASE Begin
  BY <1>4 DEF Begin
<1>5. CASE End
  BY <1>5, PastInvalid DEF End
<1>6. CASE VisitMetric
  <2>1. ~IsValid(last) /\ ~Same(it, last)
    BY <1>6 DEF VisitMetric
  <2>2. IsValid(it)
    BY <2>1, DifferentIsValid
  <2> QED
    BY <1>6, <2>2 DEF VisitMetric
<1>7. CASE RenderPoint \/ MetricDone \/ FamilyDone
  BY <1>7 DEF RenderPoint, MetricDone, FamilyDone
<1>8. CASE Return
  BY <1>8 DEF Return
<1>9. CASE UNCHANGED vars
  BY <1>9 DEF vars
<1> QED
  BY <1>1, <1>2, <1>3, <1>4, <1>5, <1>6, <1>7, <1>8, <1>9 DEF Next

-----------------------------------------------------------------------------
(* The worker: what the points are worth *)

\* A sample too large for a bucket is too large for the narrower ones.
LEMMA TooNarrow ==
  ASSUME NEW p \in Payloads, NEW i \in DOMAIN Buckets, NEW k \in DOMAIN Buckets, i <= k,
         AtMost(Sample(p), Buckets[k])
  PROVE  AtMost(Sample(p), Buckets[i])
<1>1. Sample(p) \in Int /\ Sample(p) # NaN
  BY RenderAssumption DEF AtMost, Sample, Payloads
<1>2. Buckets[k] \in Int /\ Buckets[i] \in Int /\ Buckets[i] >= Buckets[k]
  BY BucketsSorted
<1> QED BY <1>1, <1>2 DEF AtMost

LEMMA DataPointsPositive == \A i \in DataPoints : i \in Int /\ ~(i < 1)
BY BucketsSorted DEF DataPoints

\* A message is taken up: its object is worth what it was, without the new payload.
LEMMA TakenUp ==
  ASSUME TypeOK, RecordInv, NEW l \in Labels, NEW p \in Payloads, NewSample(l, p)
  PROVE  RecordInv'
<1> USE DEF RecordInv
<1>0. /\ Objects = 1 .. Len(values) /\ Len(values) \in Nat /\ DOMAIN seen = Objects /\ Len(seen) = Len(values)
      /\ \A o \in Objects : seen[o] \in Seq(Payloads) /\ o # None
      /\ object = None /\ kind \in AllKinds
  BY RenderAssumption DEF TypeOK, DataTyped, Objects, NewSample, None
<1>1. worker' = "update" /\ payload' = p /\ bucket' = 1 /\ kind' = kind /\ DataPoints' = DataPoints
  BY DEF NewSample, DataPoints
<1>2. BucketsPassed'
  BY <1>1 DEF BucketsPassed
<1>3. \A o \in Objects, i \in DataPoints : values[o][i] = Expected(kind, seen[o], Len(seen[o]), i)
  BY <1>0 DEF ValuesFollow, Counted
<1>4. CASE items[l] # None
  <2> DEFINE x == items[l]
  <2>1. x \in Objects /\ object' = x /\ values' = values /\ Objects' = Objects
        /\ seen' = [seen EXCEPT ![x] = Append(@, p)]
    BY <1>4 DEF TypeOK, DataTyped, NewSample, Objects
  <2>2. \A o \in Objects : seen'[o] = IF o = x THEN Append(seen[x], p) ELSE seen[o]
    BY <1>0, <2>1
  <2>3. PayloadSeen'
    <3>1. \A t \in Seq(Payloads) : Append(t, p) # <<>> /\ Append(t, p)[Len(Append(t, p))] = p
      OBVIOUS
    <3>2. Append(seen[x], p) # <<>> /\ Append(seen[x], p)[Len(Append(seen[x], p))] = p
      <4>1. seen[x] \in Seq(Payloads)
        BY <1>0, <2>1
      <4> HIDE DEF x
      <4> QED BY <3>1, <4>1
    <3> QED BY <1>1, <2>1, <2>2, <3>2 DEF PayloadSeen
  <2>5. \A o \in Objects : /\ Len(seen[o]) \in Nat /\ Len(seen'[o]) = IF o = x THEN Len(seen[o]) + 1 ELSE Len(seen[o])
                          /\ \A m \in 1 .. Len(seen[o]) : seen[o][m] = seen'[o][m]
    <3>1. \A t \in Seq(Payloads) : /\ Len(t) \in Nat /\ Len(Append(t, p)) = Len(t) + 1
                                   /\ \A m \in 1 .. Len(t) : Append(t, p)[m] = t[m]
      OBVIOUS
    <3> QED BY <1>0, <2>1, <2>2, <3>1
  <2>4. ValuesFollow'
    <3> SUFFICES ASSUME NEW o \in Objects, NEW i \in DataPoints
                 PROVE  values[o][i] = Expected(kind, seen'[o], Counted(o, i)', i)
      BY <1>1, <2>1 DEF ValuesFollow
    <3>1. Counted(o, i)' = Len(seen[o])
      <4>1. CASE o = x
        <5>1. Len(seen'[o]) - 1 = Len(seen[o])
          BY <2>5, <4>1
        <5> QED BY <1>1, <2>1, <4>1, <5>1, DataPointsPositive DEF Counted
      <4>2. CASE o # x
        BY <2>1, <2>2, <4>2 DEF Counted
      <4> QED BY <4>1, <4>2
    <3>2. Expected(kind, seen[o], Len(seen[o]), i) = Expected(kind, seen'[o], Len(seen[o]), i)
      <4>1. Len(seen[o]) \in Nat /\ (\A m \in 1 .. Len(seen[o]) : seen[o][m] = seen'[o][m]) /\ kind \in AllKinds
        BY <1>0, <2>5
      <4> HIDE DEF x
      <4>2. \A n \in Nat : \A k : (\A m \in 1 .. n : seen[o][m] = seen'[o][m]) =>
              Expected(kind, seen[o], n, k) = Expected(kind, seen'[o], n, k)
        BY <4>1, ExpectedKept
      <4> QED BY <4>1, <4>2, Zenon
    <3> QED BY <1>3, <3>1, <3>2
  <2> QED BY <1>2, <2>3, <2>4
<1>5. CASE items[l] = None
  <2> DEFINE x == Len(values) + 1
  <2>1. object' = x /\ values' = Append(values, Fresh) /\ seen' = Append(seen, <<p>>)
    BY <1>5 DEF NewSample
  <2>2. /\ values \in Seq([DOMAIN Points -> Worth]) /\ seen \in Seq(Seq(Payloads))
        /\ Fresh \in [DOMAIN Points -> Worth]
    BY <1>0, FreshExpected DEF TypeOK, DataTyped
  <2>3. Objects' = Objects \cup {x} /\ x \notin Objects
    BY <1>0, <2>1, <2>2 DEF Objects
  <2>4. seen'[x] = <<p>> /\ values'[x] = Fresh /\ \A o \in Objects : seen'[o] = seen[o] /\ values'[o] = values[o]
    BY <1>0, <2>1, <2>2
  <2>5. PayloadSeen'
    <3>1. <<p>> # <<>> /\ Len(<<p>>) = 1 /\ <<p>>[1] = p
      OBVIOUS
    <3>2. \A o \in Objects : seen'[o] # <<>> /\ o # object'
      BY <2>1, <2>3, <2>4 DEF PayloadSeen
    <3> QED BY <1>1, <2>1, <2>3, <2>4, <3>1, <3>2 DEF PayloadSeen
  <2>6. ValuesFollow'
    <3> SUFFICES ASSUME NEW o \in Objects', NEW i \in DataPoints
                 PROVE  values'[o][i] = Expected(kind, seen'[o], Counted(o, i)', i)
      BY <1>1 DEF ValuesFollow
    <3>1. CASE o = x
      <4>1. Counted(o, i)' = 0
        <5>1. Len(<<p>>) - 1 = 0
          OBVIOUS
        <5> QED BY <1>1, <2>1, <2>4, <3>1, <5>1, DataPointsPositive DEF Counted
      <4>2. Fresh[i] = Expected(kind, seen'[x], 0, i)
        <5>1. \A ps : Fresh[i] = Expected(kind, ps, 0, i)
          BY <1>0, FreshExpected
        <5> QED BY <5>1
      <4> QED BY <2>4, <3>1, <4>1, <4>2
    <3>2. CASE o \in Objects
      <4>1. Counted(o, i)' = Len(seen[o])
        BY <2>1, <2>3, <2>4, <3>2 DEF Counted
      <4> QED BY <1>3, <2>4, <3>2, <4>1
    <3> QED BY <2>3, <3>1, <3>2
  <2> QED BY <1>2, <2>5, <2>6
<1> QED BY <1>4, <1>5

\* The payload being recorded is the last its object was given.
LEMMA LastPayload ==
  ASSUME TypeOK, RecordInv, worker = "update"
  PROVE  /\ object \in Objects /\ seen[object] \in Seq(Payloads) /\ kind \in AllKinds
         /\ Len(seen[object]) \in 1 .. Len(seen[object]) /\ payload = seen[object][Len(seen[object])]
         /\ payload \in Payloads /\ bucket \in 1 .. Len(Buckets) + 1
         /\ \A o \in Objects : o # None
<1>1. object \in Objects
  BY DEF TypeOK, DataTyped
<1>2. seen[object] \in Seq(Payloads)
  BY <1>1 DEF TypeOK, DataTyped
<1>3. seen[object] # <<>> /\ payload = seen[object][Len(seen[object])]
  BY <1>1 DEF RecordInv, PayloadSeen
<1>4. \A o \in Objects : o # None
  BY DEF TypeOK, DataTyped, Objects, None
<1> QED BY <1>1, <1>2, <1>3, <1>4, RenderAssumption DEF TypeOK, DataTyped

\* A counter, a gauge or a match gauge takes the payload in one step.
LEMMA PointUpdated == TypeOK /\ RecordInv /\ UpdatePoint => RecordInv'
<1> SUFFICES ASSUME TypeOK, RecordInv, UpdatePoint PROVE RecordInv'
  OBVIOUS
<1> DEFINE ps == seen[object]
<1>1. kind # "histogram" /\ worker = "update" /\ DataPoints = {1} /\ DataPoints' = DataPoints
  BY DEF UpdatePoint, DataPoints
<1>2. /\ object \in Objects /\ ps \in Seq(Payloads) /\ kind \in AllKinds /\ Len(ps) \in 1 .. Len(ps)
      /\ payload = ps[Len(ps)] /\ \A o \in Objects : o # None
  BY <1>1, LastPayload
<1>3. values[object][1] = Expected(kind, ps, Len(ps) - 1, 1)
  <2>1. Counted(object, 1) = Len(ps) - 1
    BY <1>1 DEF Counted
  <2> QED BY <1>1, <1>2, <2>1 DEF RecordInv, ValuesFollow
<1>4. Assigned(values[object][1]) = Expected(kind, ps, Len(ps), 1)
  <2> HIDE DEF ps
  <2>1. CASE kind = "counter"
    BY <1>2, <1>3, <2>1, NextExpected DEF Assigned
  <2>2. CASE kind = "gauge"
    BY <1>2, <1>3, <2>2, NextExpected DEF Assigned
  <2>3. CASE kind = "MatchGauge"
    BY <1>2, <1>3, <2>3, NextExpected DEF Assigned
  <2> QED BY <1>1, <1>2, <2>1, <2>2, <2>3 DEF AllKinds
<1>5. /\ UNCHANGED <<kind, seen>> /\ object' = None /\ bucket' = 1
      /\ values' = [values EXCEPT ![object] = [@ EXCEPT ![1] = Assigned(values[object][1])]]
  BY DEF UpdatePoint, Unlock
<1>6. /\ Objects' = Objects /\ \A o \in Objects : 1 \in DOMAIN values[o]
  BY <1>1, <1>5, PointsAre DEF Objects, TypeOK, DataTyped
<1>7. \A o \in Objects : values'[o][1] = IF o = object THEN Assigned(values[object][1]) ELSE values[o][1]
  BY <1>2, <1>5, <1>6 DEF Objects
<1>8. PayloadSeen' /\ BucketsPassed'
  BY <1>2, <1>5, <1>6 DEF RecordInv, PayloadSeen, BucketsPassed
<1>9. ValuesFollow'
  <2> SUFFICES ASSUME NEW o \in Objects PROVE values'[o][1] = Expected(kind, seen[o], Len(seen[o]), 1)
    BY <1>1, <1>2, <1>5, <1>6 DEF ValuesFollow, Counted
  <2>1. o # object => values[o][1] = Expected(kind, seen[o], Len(seen[o]), 1)
    BY <1>1 DEF RecordInv, ValuesFollow, Counted
  <2> QED BY <1>4, <1>7, <2>1
<1> QED BY <1>8, <1>9 DEF RecordInv

\* A histogram takes it bucket by bucket ...
LEMMA BucketUpdated == TypeOK /\ RecordInv /\ UpdateBucket => RecordInv'
<1> SUFFICES ASSUME TypeOK, RecordInv, UpdateBucket PROVE RecordInv'
  OBVIOUS
<1> DEFINE ps == seen[object]
<1>1. kind = "histogram" /\ worker = "update" /\ DataPoints = DOMAIN Buckets /\ DataPoints' = DataPoints
  BY DEF UpdateBucket, DataPoints, Buckets
<1>2. /\ object \in Objects /\ ps \in Seq(Payloads) /\ kind \in AllKinds /\ Len(ps) \in 1 .. Len(ps)
      /\ payload = ps[Len(ps)] /\ bucket \in 1 .. Len(Buckets) + 1
  BY <1>1, LastPayload
<1>3. AtMost(Sample(payload), Buckets[bucket]) /\ bucket \in DOMAIN Buckets
  BY <1>2, BucketsSorted DEF UpdateBucket, Counts
<1>4. /\ UNCHANGED <<kind, seen, object, payload>> /\ bucket' = bucket + 1
      /\ values' = [values EXCEPT ![object] = [@ EXCEPT ![bucket] = values[object][bucket] + 1]]
  BY DEF UpdateBucket
<1>5. /\ Objects' = Objects /\ \A o \in Objects : DOMAIN values[o] = DOMAIN Points
  BY <1>4 DEF Objects, TypeOK, DataTyped
<1>6. \A o \in Objects, i \in DataPoints :
        values'[o][i] = IF o = object /\ i = bucket THEN values[object][bucket] + 1 ELSE values[o][i]
  BY <1>2, <1>4, <1>5, PointsAre DEF Objects
<1>7. PayloadSeen'
  BY <1>4, <1>5 DEF RecordInv, PayloadSeen
<1>8. BucketsPassed'
  <2>1. Buckets' = Buckets
    BY DEF Buckets
  <2>2. \A i \in 1 .. bucket' - 1 : i = bucket \/ i \in 1 .. bucket - 1
    BY <1>2, <1>4, BucketsSorted
  <2> QED BY <1>3, <1>4, <2>1, <2>2 DEF RecordInv, BucketsPassed
<1>9. ValuesFollow'
  <2> SUFFICES ASSUME NEW o \in Objects, NEW i \in DataPoints
               PROVE  values'[o][i] = Expected(kind, seen[o], Counted(o, i)', i)
    BY <1>1, <1>4, <1>5 DEF ValuesFollow
  <2>0. i \in Int /\ bucket \in Int
    BY <1>2, DataPointsPositive
  <2>1. values[o][i] = Expected(kind, seen[o], Counted(o, i), i)
    BY DEF RecordInv, ValuesFollow
  <2>2. CASE o = object /\ i = bucket
    <3>1. Counted(o, i) = Len(ps) - 1 /\ Counted(o, i)' = Len(ps)
      BY <1>1, <1>4, <2>0, <2>2 DEF Counted
    <3>2. Expected(kind, ps, Len(ps), i) = Expected(kind, ps, Len(ps) - 1, i) + 1
      <4> HIDE DEF ps
      <4> QED BY <1>1, <1>2, <1>3, <2>2, NextExpected
    <3> QED BY <1>6, <2>1, <2>2, <3>1, <3>2
  <2>3. CASE ~(o = object /\ i = bucket)
    <3>1. Counted(o, i)' = Counted(o, i)
      BY <1>1, <1>4, <2>0, <2>3 DEF Counted
    <3> QED BY <1>6, <2>1, <2>3, <3>1
  <2> QED BY <2>2, <2>3
<1> QED BY <1>7, <1>8, <1>9 DEF RecordInv

\* ... and stops at the first that is too narrow: none of the others has to count it.
LEMMA BucketsDone == TypeOK /\ RecordInv /\ UpdateDone => RecordInv'
<1> SUFFICES ASSUME TypeOK, RecordInv, UpdateDone PROVE RecordInv'
  OBVIOUS
<1> DEFINE ps == seen[object]
<1>1. kind = "histogram" /\ worker = "update" /\ DataPoints = DOMAIN Buckets /\ DataPoints' = DataPoints
  BY DEF UpdateDone, DataPoints, Buckets
<1>2. /\ object \in Objects /\ ps \in Seq(Payloads) /\ kind \in AllKinds /\ Len(ps) \in 1 .. Len(ps)
      /\ payload = ps[Len(ps)] /\ payload \in Payloads /\ bucket \in 1 .. Len(Buckets) + 1
      /\ \A o \in Objects : o # None
  BY <1>1, LastPayload
<1>3. UNCHANGED <<kind, seen, values>> /\ object' = None /\ bucket' = 1
  BY DEF UpdateDone, Unlock
<1>4. PayloadSeen' /\ BucketsPassed'
  BY <1>2, <1>3 DEF RecordInv, PayloadSeen, BucketsPassed, Objects
<1>5. ValuesFollow'
  <2> SUFFICES ASSUME NEW o \in Objects, NEW i \in DataPoints
               PROVE  values[o][i] = Expected(kind, seen[o], Len(seen[o]), i)
    BY <1>1, <1>2, <1>3 DEF ValuesFollow, Counted, Objects
  <2>0. i \in Int /\ bucket \in Int /\ i \in 1 .. Len(Buckets)
    BY <1>1, <1>2, BucketsSorted
  <2>1. values[o][i] = Expected(kind, seen[o], Counted(o, i), i)
    BY DEF RecordInv, ValuesFollow
  <2>2. CASE o = object /\ bucket <= i
    <3>1. Counted(o, i) = Len(ps) - 1
      BY <1>1, <2>0, <2>2 DEF Counted
    <3>2. bucket \in DOMAIN Buckets
      BY <1>2, <2>0, <2>2, BucketsSorted
    <3>3. ~AtMost(Sample(payload), Buckets[bucket])
      BY <2>0, <2>2, BucketsSorted DEF UpdateDone, Counts
    <3>4. ~AtMost(Sample(payload), Buckets[i])
      BY <1>1, <1>2, <2>2, <3>2, <3>3, TooNarrow
    <3>5. Expected(kind, ps, Len(ps), i) = Expected(kind, ps, Len(ps) - 1, i) + 0
      <4> HIDE DEF ps
      <4> QED BY <1>1, <1>2, <3>4, NextExpected
    <3>6. Expected(kind, ps, Len(ps) - 1, i) \in Nat
      <4> HIDE DEF ps
      <4> QED BY <1>1, <1>2, TypedExpected
    <3> QED BY <2>1, <2>2, <3>1, <3>5, <3>6
  <2>3. CASE ~(o = object /\ bucket <= i)
    <3>1. Counted(o, i) = Len(seen[o])
      BY <1>1, <2>0, <2>3 DEF Counted
    <3> QED BY <2>1, <3>1
  <2> QED BY <2>2, <2>3
<1> QED BY <1>4, <1>5 DEF RecordInv

\* No step makes a point worth anything else.
LEMMA RecordStep == TypeOK /\ RecordInv /\ [Next]_vars => RecordInv'
<1> SUFFICES ASSUME TypeOK, RecordInv, [Next]_vars PROVE RecordInv'
  OBVIOUS
<1>1. CASE Scraping \/ UNCHANGED vars \/ \E l \in Labels : Erase(l)
  <2>1. UNCHANGED <<kind, values, object, payload, bucket, seen>>
    BY <1>1, Scraped DEF vars, workerVars, Erase
  <2>2. UNCHANGED <<Objects, DataPoints, Buckets>>
    BY <2>1 DEF Objects, DataPoints, Buckets
  <2>3. PayloadSeen' /\ BucketsPassed'
    BY <2>1, <2>2 DEF RecordInv, PayloadSeen, BucketsPassed
  <2>4. ValuesFollow'
    BY <2>1, <2>2 DEF RecordInv, ValuesFollow, Counted
  <2> QED BY <2>3, <2>4 DEF RecordInv
<1> QED
  BY <1>1, TakenUp, PointUpdated, BucketUpdated, BucketsDone DEF Next, Scraping

-----------------------------------------------------------------------------
(* The scrape: what its lines show *)

\* An object never has fewer payloads recorded than before.
LEMMA FinishedGrows ==
  ASSUME TypeOK, Recording
  PROVE  \A o \in Objects : Finished(o) \in Int /\ Finished(o)' \in Int /\ Finished(o) <= Finished(o)'
<1>0. /\ Objects = 1 .. Len(values) /\ Len(values) \in Nat /\ DOMAIN seen = Objects /\ Len(seen) = Len(values)
      /\ \A o \in Objects : seen[o] \in Seq(Payloads) /\ Len(seen[o]) \in Nat /\ o # None
      /\ seen \in Seq(Seq(Payloads))
  BY DEF TypeOK, DataTyped, Objects, None
<1>1. ASSUME NEW l \in Labels, NEW p \in Payloads, NewSample(l, p), NEW o \in Objects
      PROVE  Finished(o) = Len(seen[o]) /\ Finished(o)' = Len(seen[o])
  <2>1. Finished(o) = Len(seen[o])
    BY <1>0, <1>1 DEF NewSample, TypeOK, DataTyped, Finished
  <2>2. CASE items[l] # None
    <3>1. object' = items[l] /\ seen' = [seen EXCEPT ![items[l]] = Append(@, p)]
      BY <1>1, <2>2 DEF NewSample
    <3>2. seen'[o] = IF o = items[l] THEN Append(seen[o], p) ELSE seen[o]
      BY <1>0, <3>1
    <3>3. Len(Append(seen[o], p)) - 1 = Len(seen[o])
      BY <1>0
    <3> QED BY <2>1, <3>1, <3>2, <3>3 DEF Finished
  <2>3. CASE items[l] = None
    <3>1. object' = Len(values) + 1 /\ seen' = Append(seen, <<p>>)
      BY <1>1, <2>3 DEF NewSample
    <3>2. seen'[o] = seen[o] /\ o # object'
      BY <1>0, <3>1
    <3> QED BY <2>1, <3>2 DEF Finished
  <2> QED BY <2>2, <2>3
<1>2. CASE UpdatePoint \/ UpdateBucket \/ UpdateDone \/ \E l \in Labels : Erase(l)
  <2>1. seen' = seen /\ (object' = object \/ object' = None)
    BY <1>2 DEF UpdatePoint, UpdateBucket, UpdateDone, Unlock, Erase, workerVars
  <2> QED BY <1>0, <2>1 DEF Finished
<1> QED BY <1>0, <1>1, <1>2 DEF Recording

\* A line goes on showing what its point was worth at some moment since begin().
LEMMA ShownStep == TypeOK /\ RecordInv /\ SectionInv /\ ShownInv /\ [Next]_vars => ShownInv'
<1> SUFFICES ASSUME TypeOK, RecordInv, SectionInv, ShownInv, [Next]_vars PROVE ShownInv'
  OBVIOUS
<1>0. /\ DOMAIN seenAtBegin \subseteq Objects /\ DOMAIN seen = Objects /\ kind \in AllKinds /\ kind' = kind
      /\ DataPoints' = DataPoints /\ \A o \in Objects : seen[o] \in Seq(Payloads)
      /\ \A o \in DOMAIN seenAtBegin : seenAtBegin[o] \in Seq(Payloads)
      /\ \A k \in DOMAIN text : text[k].object \in DOMAIN seenAtBegin
  <2>1. kind \in AllKinds /\ kind' = kind /\ DataPoints' = DataPoints
    BY KindStays, RenderAssumption DEF TypeOK, DataTyped
  <2>2. DOMAIN seen = Objects /\ \A o \in Objects : seen[o] \in Seq(Payloads)
    BY DEF TypeOK, DataTyped
  <2>3. DOMAIN seenAtBegin \subseteq Objects /\ \A o \in DOMAIN seenAtBegin : seenAtBegin[o] \in Seq(Payloads)
    BY DEF TypeOK, ScrapeTyped
  <2>4. \A k \in DOMAIN text : text[k].object \in DOMAIN seenAtBegin
    <3> DEFINE Lines == [object : DOMAIN seenAtBegin, point : DOMAIN Points, value : Worth]
    <3>1. text \in Seq(Lines)
      BY DEF TypeOK, ScrapeTyped
    <3>2. \A k \in DOMAIN text : text[k] \in Lines
      <4> HIDE DEF Lines
      <4> QED BY <3>1
    <3> QED BY <3>2
  <2> QED BY <2>1, <2>2, <2>3, <2>4
<1>1. CASE Recording
  <2>1. UNCHANGED <<text, seenAtBegin>> /\ \A o \in Objects : o \in Objects' /\ Extends(seen[o], seen'[o])
    BY <1>1, Recorded DEF TypeOK
  <2>2. BeginKept'
    <3> SUFFICES ASSUME NEW o \in DOMAIN seenAtBegin
                 PROVE  /\ Len(seenAtBegin[o]) \in 1 .. Finished(o)'
                        /\ \A m \in DOMAIN seenAtBegin[o] : seenAtBegin[o][m] = seen'[o][m]
      BY <2>1 DEF BeginKept
    <3>1. Len(seenAtBegin[o]) \in 1 .. Finished(o) /\ \A m \in DOMAIN seenAtBegin[o] : seenAtBegin[o][m] = seen[o][m]
      BY DEF ShownInv, BeginKept
    <3>2. Finished(o) \in Int /\ Finished(o)' \in Int /\ Finished(o) <= Finished(o)'
      BY <1>0, <1>1, FinishedGrows
    <3>3. Finished(o) <= Len(seen[o]) /\ Len(seen[o]) \in Nat
      BY <1>0 DEF Finished
    <3>4. DOMAIN seenAtBegin[o] \subseteq DOMAIN seen[o]
      BY <1>0, <3>1, <3>2, <3>3
    <3> QED BY <1>0, <2>1, <3>1, <3>2, <3>4 DEF Extends
  <2>3. LinesSince'
    <3> SUFFICES ASSUME NEW k \in DOMAIN text, text[k].point \in DataPoints
                 PROVE  WorthSince(text[k])'
      BY <1>0, <2>1 DEF LinesSince
    <3> DEFINE o == text[k].object
    <3>1. PICK n \in Len(seenAtBegin[o]) .. Len(seen[o]) :
            text[k].value = Expected(kind, seen[o], n, text[k].point)
      BY DEF ShownInv, LinesSince, WorthSince
    <3>2. o \in Objects /\ o \in DOMAIN seenAtBegin
      BY <1>0
    <3>3. Extends(seen[o], seen'[o]) /\ seen[o] \in Seq(Payloads) /\ Len(seenAtBegin[o]) \in Nat
      BY <1>0, <2>1, <3>2
    <3>4. n \in Nat /\ (\A m \in 1 .. n : seen[o][m] = seen'[o][m]) /\ n \in Len(seenAtBegin[o]) .. Len(seen'[o])
      BY <3>1, <3>3 DEF Extends
    <3>5. Expected(kind, seen[o], n, text[k].point) = Expected(kind, seen'[o], n, text[k].point)
      <4>1. n \in Nat /\ (\A m \in 1 .. n : seen[o][m] = seen'[o][m]) /\ kind \in AllKinds
        BY <1>0, <3>4
      <4> HIDE DEF o
      <4>2. \A j \in Nat : \A p : (\A m \in 1 .. j : seen[o][m] = seen'[o][m]) =>
              Expected(kind, seen[o], j, p) = Expected(kind, seen'[o], j, p)
        BY <4>1, ExpectedKept
      <4> QED BY <4>1, <4>2, Zenon
    <3> QED BY <1>0, <2>1, <3>1, <3>4, <3>5 DEF WorthSince
  <2> QED BY <2>2, <2>3 DEF ShownInv
<1>2. CASE Begin
  <2>1. /\ UNCHANGED <<object, seen, text>> /\ seenAtBegin' = seen /\ text = <<>>
        /\ object = None
    BY <1>2 DEF Begin, Goto, SectionInv, Locked, TypeOK, DataTyped, workerVars
  <2>2. \A o \in Objects : Len(seen[o]) \in 1 .. Len(seen[o]) /\ o # object
    <3>1. \A o \in Objects : seen[o] # <<>>
      BY DEF RecordInv, PayloadSeen
    <3>2. \A o \in Objects : o # None
      BY DEF TypeOK, DataTyped, Objects, None
    <3> QED BY <1>0, <2>1, <3>1, <3>2
  <2> QED BY <1>0, <2>1, <2>2 DEF ShownInv, BeginKept, LinesSince, Finished
<1>3. CASE RenderPoint
  <2> DEFINE o == Deref(it)
             i == Deref(point)
             line == [object |-> o, point |-> i, value |-> values[o][i]]
  <2>1. /\ text' = Append(text, line) /\ UNCHANGED <<kind, object, seen, seenAtBegin>>
        /\ scrape = "points" /\ ~Same(point, Past(Points))
    BY <1>3 DEF RenderPoint, Goto, workerVars
  <2>2. IsValid(it)
    BY <2>1 DEF SectionInv
  <2>3. o \in DOMAIN seenAtBegin
    BY <2>2 DEF TypeOK, ScrapeTyped, IteratorOf, IsValid, Deref
  <2>4. BeginKept'
    BY <2>1 DEF ShownInv, BeginKept, Finished
  <2>5. i \in DataPoints => WorthSince(line)
    <3> SUFFICES ASSUME i \in DataPoints PROVE WorthSince(line)
      OBVIOUS
    <3>1. values[o][i] = Expected(kind, seen[o], Counted(o, i), i)
      BY <1>0, <2>3 DEF RecordInv, ValuesFollow
    <3>2. Len(seenAtBegin[o]) \in 1 .. Finished(o) /\ Len(seen[o]) \in Nat
      BY <1>0, <2>3 DEF ShownInv, BeginKept
    <3>3. Counted(o, i) \in Len(seenAtBegin[o]) .. Len(seen[o])
      BY <3>2 DEF Counted, Finished
    <3> HIDE DEF o, i
    <3> QED BY <3>1, <3>3 DEF WorthSince
  <2>6. \A k \in DOMAIN text' : text'[k] = line \/ (k \in DOMAIN text /\ text'[k] = text[k])
    <3> HIDE DEF line
    <3>1. text \in Seq([object : DOMAIN seenAtBegin, point : DOMAIN Points, value : Worth])
      BY DEF TypeOK, ScrapeTyped
    <3> QED BY <2>1, <3>1
  <2>7. LinesSince'
    <3> SUFFICES ASSUME NEW k \in DOMAIN text', text'[k].point \in DataPoints PROVE WorthSince(text[k])'
      BY <1>0 DEF LinesSince
    <3>1. CASE text'[k] = line
      <4>1. WorthSince(line)
        BY <2>5, <3>1
      <4> HIDE DEF line
      <4> QED BY <2>1, <3>1, <4>1 DEF WorthSince
    <3>2. CASE k \in DOMAIN text /\ text'[k] = text[k]
      BY <2>1, <3>2 DEF ShownInv, LinesSince, WorthSince
    <3> QED BY <2>6, <3>1, <3>2
  <2> QED BY <2>4, <2>7 DEF ShownInv
<1>4. CASE Return
  <2>1. seenAtBegin' = <<>> /\ text' = <<>>
    BY <1>4 DEF Return
  <2> QED BY <2>1 DEF ShownInv, BeginKept, LinesSince
<1>5. CASE End \/ VisitMetric \/ MetricDone \/ FamilyDone \/ UNCHANGED vars
  <2>1. UNCHANGED <<kind, object, seen, text, seenAtBegin>>
    BY <1>5 DEF End, VisitMetric, MetricDone, FamilyDone, vars, workerVars, scrapeVars
  <2> QED BY <1>0, <2>1 DEF ShownInv, BeginKept, Finished, LinesSince, WorthSince
<1> QED BY <1>1, <1>2, <1>3, <1>4, <1>5 DEF Next, Recording

\* Nothing ever writes a histogram's _count or its _sum.
LEMMA RestStep == TypeOK /\ SectionInv /\ RestInv /\ [Next]_vars => RestInv'
<1> SUFFICES ASSUME TypeOK, SectionInv, RestInv, [Next]_vars, kind' = "histogram" PROVE RestInv'
  BY DEF RestInv, RestKept, RestShown
<1>0. /\ kind = "histogram" /\ CountPoint' = CountPoint /\ SumPoint' = SumPoint
      /\ Len(Buckets) \in Nat /\ DOMAIN Points = 1 .. Len(Buckets) + 2
      /\ values \in Seq([DOMAIN Points -> Worth])
      /\ \A o \in Objects : values[o][CountPoint] = 0 /\ values[o][SumPoint] = Garbage
      /\ \A k \in DOMAIN text : RestOf(text[k])
  <2>1. kind = "histogram"
    BY KindStays
  <2>2. CountPoint' = CountPoint /\ SumPoint' = SumPoint
    BY DEF CountPoint, SumPoint, Buckets
  <2>3. Len(Buckets) \in Nat /\ DOMAIN Points = 1 .. Len(Buckets) + 2
    BY <2>1, BucketsSorted DEF Points
  <2> QED BY <2>1, <2>2, <2>3 DEF RestInv, RestKept, RestShown, TypeOK, DataTyped
<1>1. RestKept'
  <2> SUFFICES ASSUME NEW o \in Objects' PROVE values'[o][CountPoint] = 0 /\ values'[o][SumPoint] = Garbage
    BY <1>0 DEF RestKept
  <2>1. CASE \E l \in Labels, p \in Payloads : NewSample(l, p)
    <3>1. values' = values \/ values' = Append(values, Fresh)
      BY <2>1 DEF NewSample
    <3>2. Fresh[CountPoint] = 0 /\ Fresh[SumPoint] = Garbage
      BY <1>0 DEF Fresh, CountPoint, SumPoint
    <3>3. CASE values' = values
      BY <1>0, <3>3 DEF Objects
    <3>4. CASE values' = Append(values, Fresh)
      <4>1. (o \in Objects /\ values'[o] = values[o]) \/ values'[o] = Fresh
        BY <1>0, <3>4 DEF Objects
      <4> QED BY <1>0, <3>2, <4>1
    <3> QED BY <3>1, <3>3, <3>4
  <2>2. CASE UpdateBucket
    <3>1. values' = [values EXCEPT ![object] = [@ EXCEPT ![bucket] = values[object][bucket] + 1]]
      BY <2>2 DEF UpdateBucket
    <3>2. bucket # CountPoint /\ bucket # SumPoint
      <4>1. bucket \in Int /\ bucket <= Len(Buckets)
        BY <1>0, <2>2 DEF UpdateBucket, Counts, TypeOK, DataTyped
      <4> QED BY <1>0, <4>1 DEF CountPoint, SumPoint
    <3>3. o \in Objects /\ values'[o][CountPoint] = values[o][CountPoint] /\ values'[o][SumPoint] = values[o][SumPoint]
      BY <1>0, <3>1, <3>2 DEF Objects
    <3> QED BY <1>0, <3>3
  <2>3. CASE UNCHANGED values
    BY <1>0, <2>3 DEF Objects
  <2>4. ~UpdatePoint
    BY <1>0 DEF UpdatePoint
  <2> QED
    BY <2>1, <2>2, <2>3, <2>4, Scraped DEF Next, Scraping, UpdateDone, Erase, vars
<1>2. RestShown'
  <2>1. CASE RenderPoint
    <3> DEFINE o == Deref(it)
               i == Deref(point)
               line == [object |-> o, point |-> i, value |-> values[o][i]]
    <3>1. text' = Append(text, line) /\ IsValid(it)
      BY <2>1 DEF RenderPoint, Goto, SectionInv
    <3>2. o \in Objects
      BY <3>1 DEF TypeOK, ScrapeTyped, IteratorOf, IsValid, Deref
    <3>3. RestOf(line)
      <4> HIDE DEF o, i
      <4> QED BY <1>0, <3>2 DEF RestOf
    <3>4. \A k \in DOMAIN text' : text'[k] = line \/ (k \in DOMAIN text /\ text'[k] = text[k])
      <4> HIDE DEF line
      <4>1. text \in Seq([object : DOMAIN seenAtBegin, point : DOMAIN Points, value : Worth])
        BY DEF TypeOK, ScrapeTyped
      <4> QED BY <3>1, <4>1
    <3> HIDE DEF line
    <3>5. \A k \in DOMAIN text' : RestOf(text'[k])
      BY <1>0, <3>3, <3>4
    <3> QED BY <1>0, <3>5 DEF RestShown, RestOf
  <2>2. CASE text' = text \/ text' = <<>>
    <3>1. \A k \in DOMAIN text' : RestOf(text'[k])
      BY <1>0, <2>2
    <3> QED BY <1>0, <3>1 DEF RestShown, RestOf
  <2> QED
    BY <2>1, <2>2 DEF Next, NewSample, UpdatePoint, UpdateBucket, UpdateDone, Erase, Begin, End, VisitMetric,
       MetricDone, FamilyDone, Return, vars, scrapeVars
<1> QED BY <1>1, <1>2 DEF RestInv

\* The section grows line by line, point by point, metric by metric.
LEMMA SectionStep == TypeOK /\ RangeInv /\ SectionInv /\ [Next]_vars => SectionInv'
<1> SUFFICES ASSUME TypeOK, RangeInv, SectionInv, [Next]_vars PROVE SectionInv'
  OBVIOUS
<1> DEFINE Lines == [object : DOMAIN seenAtBegin, point : DOMAIN Points, value : Worth]
<1>0. /\ Points' = Points /\ Len(Points) \in Nat \ {0} /\ DOMAIN Points = 1 .. Len(Points)
      /\ it.index \in Nat /\ Len(it.vec) \in Nat /\ DOMAIN it.vec = 1 .. Len(it.vec) /\ point.index \in Nat
      /\ text \in Seq(Lines) /\ it \in IteratorOf(DOMAIN seenAtBegin) /\ point \in IteratorOf(DOMAIN Points)
  <2>1. it \in IteratorOf(DOMAIN seenAtBegin) /\ point \in IteratorOf(DOMAIN Points) /\ text \in Seq(Lines)
    BY DEF TypeOK, ScrapeTyped
  <2>2. it.index \in Nat /\ it.vec \in Seq(DOMAIN seenAtBegin) /\ point.index \in Nat
    BY <2>1 DEF IteratorOf
  <2> HIDE DEF Lines
  <2> QED BY <2>1, <2>2, KindStays, PointsAre
<1> HIDE DEF Lines
<1>1. /\ it.index <= Len(it.vec) /\ Len(text) = it.index * Len(Points) + Position
      /\ scrape = "points" => IsValid(it) /\ point.vec = Points /\ point.index <= Len(Points)
      /\ (scrape = "idle" => text = <<>>) /\ (scrape = "done" => ~IsValid(it))
  BY DEF SectionInv
<1>2. ASSUME NEW m \in DOMAIN it.vec, NEW i \in DOMAIN Points, Passed(m, i)
      PROVE  /\ Line(m, i) \in DOMAIN text
             /\ text[Line(m, i)].object = it.vec[m] /\ text[Line(m, i)].point = i
  BY <1>2 DEF SectionInv
<1>3. CASE Recording \/ End \/ UNCHANGED vars
  <2>1. UNCHANGED <<it, point, text>> /\ (UNCHANGED scrape \/ (scrape = "begun" /\ scrape' = "metrics"))
    BY <1>3, Recorded DEF TypeOK, End, Goto, vars, scrapeVars
  <2>2. Position' = Position /\ IsValid(it)' = IsValid(it)
    BY <2>1 DEF Position, IsValid
  <2>3. \A m, i : Passed(m, i)' = Passed(m, i) /\ Line(m, i)' = Line(m, i)
    BY <1>0, <2>1, <2>2 DEF Passed, Line
  <2> QED BY <1>0, <1>1, <1>2, <2>1, <2>2, <2>3 DEF SectionInv
<1>4. CASE Begin
  <2>1. it' = Start(Pointers) /\ text' = <<>> /\ scrape' = "begun"
    BY <1>1, <1>4 DEF Begin, Goto
  <2>2. Len(Pointers) \in Nat /\ it'.index = 0 /\ it'.vec = Pointers
    BY <2>1, NthPresent DEF Start, Pointers
  <2>3. Position' = 0
    BY <2>1 DEF Position
  <2>4. \A m \in DOMAIN it'.vec, i \in DOMAIN Points : ~Passed(m, i)'
    <3>1. DOMAIN it'.vec = 1 .. Len(Pointers)
      BY <2>2, NthPresent DEF Pointers
    <3> QED BY <1>0, <2>2, <2>3, <3>1 DEF Passed
  <2>5. Len(text') = it'.index * Len(Points) + Position' /\ it'.index <= Len(it'.vec)
    BY <1>0, <2>1, <2>2, <2>3
  <2> QED BY <1>0, <2>1, <2>4, <2>5 DEF SectionInv
<1>5. CASE VisitMetric
  <2>1. UNCHANGED <<it, text>> /\ scrape = "metrics" /\ scrape' = "points" /\ point' = Start(Points)
        /\ ~Same(it, last)
    BY <1>5 DEF VisitMetric
  <2>2. IsValid(it)
    BY <2>1, DifferentIsValid DEF RangeInv, EndReached
  <2>3. Position = 0 /\ Position' = 0 /\ point'.vec = Points /\ point'.index = 0 /\ IsValid(it)'
    BY <2>1, <2>2 DEF Position, Start, IsValid
  <2>4. \A m, i : Passed(m, i)' = Passed(m, i) /\ Line(m, i)' = Line(m, i)
    BY <1>0, <2>1, <2>3 DEF Passed, Line
  <2>5. \A m \in DOMAIN it.vec, i \in DOMAIN Points : Passed(m, i)' =>
          /\ Line(m, i)' \in DOMAIN text'
          /\ text'[Line(m, i)'].object = it'.vec[m] /\ text'[Line(m, i)'].point = i
    BY <1>2, <2>1, <2>4
  <2>6. point'.index <= Len(Points) /\ Len(text') = it'.index * Len(Points) + Position'
    BY <1>0, <1>1, <2>1, <2>3
  <2> QED BY <1>0, <1>1, <2>1, <2>3, <2>5, <2>6 DEF SectionInv
<1>6. CASE RenderPoint
  <2> DEFINE line == [object |-> Deref(it), point |-> Deref(point), value |-> values[Deref(it)][Deref(point)]]
             here == it.index + 1
             next == point.index + 1
  <2>1. /\ text' = Append(text, line) /\ point' = Increment(point) /\ it' = it
        /\ scrape = "points" /\ scrape' = "points" /\ ~Same(point, Past(Points))
    BY <1>6 DEF RenderPoint, Goto
  <2>2. IsValid(it) /\ point.vec = Points /\ IsValid(point)
    BY <1>0, <1>1, <2>1, DifferentIsValid DEF IsValid, Past
  <2>3. here \in DOMAIN it.vec /\ next \in DOMAIN Points /\ line.object = it.vec[here] /\ line.point = next
    <3>1. here \in DOMAIN it.vec /\ next \in DOMAIN Points
      BY <1>0, <2>2 DEF IsValid
    <3>2. Points[next] = next
      BY <3>1, PointsAre
    <3> QED BY <2>2, <3>1, <3>2 DEF Deref
  <2>4. Position = point.index /\ Position' = next /\ point'.vec = Points /\ point'.index = next
    BY <1>0, <2>1, <2>2, Incremented DEF Position
  <2>5. Line(here, next) = Len(text) + 1
    <3>1. here - 1 = it.index
      BY <1>0
    <3>2. Line(here, next) = (here - 1) * Len(Points) + next
      BY DEF Line
    <3> HIDE DEF here
    <3>3. Line(here, next) = it.index * Len(Points) + next
      BY <3>1, <3>2
    <3>4. it.index * Len(Points) \in Int
      BY <1>0
    <3> QED BY <1>0, <1>1, <2>4, <3>3, <3>4
  <2> HIDE DEF line
  <2>6. /\ Len(text') = Len(text) + 1 /\ DOMAIN text' = DOMAIN text \cup {Len(text) + 1}
        /\ text'[Len(text) + 1] = line /\ \A k \in DOMAIN text : text'[k] = text[k]
    BY <1>0, <2>1
  <2>7. ASSUME NEW m \in DOMAIN it.vec, NEW i \in DOMAIN Points, Passed(m, i)'
        PROVE  /\ Line(m, i) \in DOMAIN text'
               /\ text'[Line(m, i)].object = it.vec[m] /\ text'[Line(m, i)].point = i
    <3>1. Passed(m, i) \/ (m = here /\ i = next)
      BY <1>0, <2>1, <2>4, <2>7 DEF Passed
    <3>2. CASE Passed(m, i)
      <4>1. Line(m, i) \in DOMAIN text
        BY <1>2, <3>2
      <4>2. text'[Line(m, i)] = text[Line(m, i)] /\ Line(m, i) \in DOMAIN text'
        BY <2>6, <4>1
      <4> QED BY <1>2, <3>2, <4>2
    <3>3. CASE m = here /\ i = next
      BY <2>3, <2>5, <2>6, <3>3
    <3> QED BY <3>1, <3>2, <3>3
  <2>8. Len(text') = it'.index * Len(Points) + Position'
    <3>1. it.index * Len(Points) \in Nat
      BY <1>0
    <3> QED BY <1>0, <1>1, <2>1, <2>4, <2>6, <3>1
  <2>9. \A m, i : Line(m, i)' = Line(m, i)
    BY <1>0 DEF Line
  <2>10. point'.index <= Len(Points) /\ IsValid(it)'
    BY <1>0, <2>1, <2>2, <2>3, <2>4 DEF IsValid
  <2> HIDE DEF here, next
  <2>11. /\ it'.index <= Len(it'.vec) /\ (scrape' = "points" => point'.vec = Points /\ point'.index <= Len(Points))
         /\ (scrape' = "idle" => text' = <<>>) /\ (scrape' = "done" => ~IsValid(it)') /\ Points' = Points
    BY <1>0, <1>1, <2>1, <2>4, <2>10
  <2>12. ASSUME NEW m \in DOMAIN it'.vec, NEW i \in DOMAIN Points', Passed(m, i)'
         PROVE  /\ Line(m, i)' \in DOMAIN text'
                /\ text'[Line(m, i)'].object = it'.vec[m] /\ text'[Line(m, i)'].point = i
    <3>1. m \in DOMAIN it.vec /\ i \in DOMAIN Points /\ it'.vec = it.vec
      BY <2>1, <2>11, <2>12
    <3> QED BY <2>7, <2>9, <2>12, <3>1
  <2> QED BY <2>8, <2>10, <2>11, <2>12 DEF SectionInv
<1>7. CASE MetricDone
  <2>1. /\ it' = Increment(it) /\ point' = Start(<<>>) /\ text' = text
        /\ scrape = "points" /\ scrape' = "metrics" /\ Same(point, Past(Points))
    BY <1>7 DEF MetricDone, Goto
  <2>2. IsValid(it) /\ point.vec = Points /\ point.index = Len(Points)
    BY <1>0, <1>1, <2>1 DEF Same, IsValid, Past
  <2>3. it'.vec = it.vec /\ it'.index = it.index + 1 /\ it.index + 1 <= Len(it.vec)
    BY <1>0, <2>1, <2>2, Incremented DEF IsValid
  <2>4. Position = Len(Points) /\ Position' = 0
    BY <2>1, <2>2 DEF Position
  <2>5. Len(text') = it'.index * Len(Points) + Position'
    <3>1. (it.index + 1) * Len(Points) = it.index * Len(Points) + Len(Points)
      BY <1>0
    <3> QED BY <1>0, <1>1, <2>1, <2>3, <2>4, <3>1
  <2>6. \A m \in DOMAIN it.vec, i \in DOMAIN Points : Passed(m, i)' => Passed(m, i)
    BY <1>0, <2>3, <2>4 DEF Passed
  <2>7. \A m, i : Line(m, i)' = Line(m, i)
    BY <1>0 DEF Line
  <2>8. \A m \in DOMAIN it.vec, i \in DOMAIN Points : Passed(m, i)' =>
          /\ Line(m, i)' \in DOMAIN text'
          /\ text'[Line(m, i)'].object = it'.vec[m] /\ text'[Line(m, i)'].point = i
    BY <1>2, <2>1, <2>3, <2>6, <2>7
  <2> QED BY <1>0, <2>1, <2>3, <2>5, <2>8 DEF SectionInv
<1>8. CASE FamilyDone
  <2>1. UNCHANGED <<it, point, text>> /\ scrape = "metrics" /\ scrape' = "done" /\ Same(it, last)
    BY <1>8 DEF FamilyDone, Goto
  <2>2. ~IsValid(it) /\ ~IsValid(it)'
    BY <2>1 DEF Same, RangeInv, EndReached, IsValid
  <2>3. Position = 0 /\ Position' = 0
    BY <2>1 DEF Position
  <2>4. \A m, i : Passed(m, i)' = Passed(m, i) /\ Line(m, i)' = Line(m, i)
    BY <1>0, <2>1, <2>3 DEF Passed, Line
  <2> QED BY <1>0, <1>1, <1>2, <2>1, <2>2, <2>3, <2>4 DEF SectionInv
<1>9. CASE Return
  <2>1. it' = Start(<<>>) /\ text' = <<>> /\ scrape' = "idle"
    BY <1>9 DEF Return, Goto
  <2>2. Position' = 0 /\ it'.index = 0 /\ it'.vec = <<>>
    BY <2>1 DEF Position, Start
  <2> QED BY <1>0, <2>1, <2>2 DEF SectionInv
<1> QED BY <1>3, <1>4, <1>5, <1>6, <1>7, <1>8, <1>9 DEF Next, Recording

-----------------------------------------------------------------------------
(* The invariant and what follows from it *)

\* Before the first message and the first scrape.
LEMMA RenderInit == Init => RenderInv
<1> SUFFICES ASSUME Init PROVE RenderInv
  OBVIOUS
<1>1. /\ values = <<>> /\ seen = <<>> /\ seenAtBegin = <<>> /\ text = <<>> /\ it = Start(<<>>) /\ last = Start(<<>>)
      /\ point = Start(<<>>) /\ scrape = "idle" /\ process = "up" /\ kind \in Kinds /\ sent = 0 /\ worker = "idle"
      /\ object = None /\ payload = Text /\ bucket = 1 /\ items = [l \in Labels |-> None]
  BY DEF Init
<1>2. Objects = {} /\ Position = 0 /\ it.index = 0 /\ it.vec = <<>>
  BY <1>1 DEF Objects, Position, Start
<1>3. DataTyped
  <2>1. values \in Seq([DOMAIN Points -> Worth]) /\ seen \in Seq(Seq(Payloads)) /\ DOMAIN seen = Objects
    BY <1>1, <1>2
  <2>2. bucket \in 1 .. Len(Buckets) + 1 /\ sent \in 0 .. MaxSamples /\ payload \in Payloads
    BY <1>1, BucketsSorted, RenderAssumption DEF Payloads
  <2> QED BY <1>1, <2>1, <2>2 DEF DataTyped
<1>4. ScrapeTyped
  <2>1. \A S : Start(<<>>) \in IteratorOf(S)
    BY DEF Start, IteratorOf
  <2>2. DOMAIN seenAtBegin \subseteq Objects /\ seenAtBegin \in Seq(Seq(Payloads))
    BY <1>1
  <2> QED BY <1>1, <2>1, <2>2 DEF ScrapeTyped
<1>5. RangeInv
  BY <1>1 DEF RangeInv, EndReached, NeverPastTheEnd
<1>6. RecordInv
  BY <1>1, <1>2 DEF RecordInv, PayloadSeen, BucketsPassed, ValuesFollow
<1>7. ShownInv
  BY <1>1 DEF ShownInv, BeginKept, LinesSince
<1>9. RestInv
  BY <1>1, <1>2 DEF RestInv, RestKept, RestShown
<1>8. SectionInv
  BY <1>1, <1>2, PointsAre DEF SectionInv
<1> QED BY <1>3, <1>4, <1>5, <1>6, <1>7, <1>9, <1>8 DEF TypeOK, RenderInv

LEMMA RenderStep == RenderInv /\ [Next]_vars => RenderInv'
BY DataStep, ScrapeStep, RangeStep, RecordStep, ShownStep, RestStep, SectionStep DEF RenderInv, TypeOK

\* The worker's points, what the lines show of them and how far the section has got, for
\* every family and any number of labels, buckets, samples and erasures.
THEOREM RenderInvariant == Spec => []RenderInv
BY RenderInit, RenderStep, PTL DEF Spec

\* Every variable keeps its type.
THEOREM Typing == Spec => []TypeOK
<1>1. RenderInv => TypeOK
  BY DEF RenderInv
<1> QED BY <1>1, RenderInvariant, PTL

\* A section has each metric that begin() found exactly once, with all of its points.
THEOREM Sections == Spec => []WholeSection
<1>1. RenderInv => WholeSection
  <2> SUFFICES ASSUME RenderInv, scrape = "done"
               PROVE  /\ Len(text) = Len(it.vec) * Len(Points)
                      /\ \A m \in DOMAIN it.vec, i \in DOMAIN Points :
                           text[Line(m, i)].object = it.vec[m] /\ text[Line(m, i)].point = i
    BY DEF WholeSection
  <2>1. it.index \in Nat /\ Len(it.vec) \in Nat /\ DOMAIN it.vec = 1 .. Len(it.vec)
    BY DEF RenderInv, TypeOK, ScrapeTyped, IteratorOf
  <2>2. it.index = Len(it.vec) /\ Position = 0
    BY <2>1 DEF RenderInv, SectionInv, IsValid, Position
  <2>3. \A m \in DOMAIN it.vec, i \in DOMAIN Points : Passed(m, i)
    BY <2>1, <2>2 DEF Passed
  <2>4. Len(text) = it.index * Len(Points) + Position
    BY DEF RenderInv, SectionInv
  <2>5. Len(it.vec) * Len(Points) \in Int
    BY <2>1, PointsAre
  <2> QED BY <2>2, <2>3, <2>4, <2>5 DEF RenderInv, SectionInv
<1> QED BY <1>1, RenderInvariant, PTL

\* Outside newSample a counter's, a gauge's, a match gauge's and a bucket's point is worth
\* what the definition of its type says of the payloads its metric was given; a histogram's
\* _count is always zero and its _sum never written.
THEOREM Values == Spec => []ValuesExpected
<1>1. RenderInv => ValuesExpected
  <2> SUFFICES ASSUME RenderInv, NEW o \in Objects
               PROVE  /\ o # object => \A i \in DataPoints : values[o][i] = Expected(kind, seen[o], Len(seen[o]), i)
                      /\ kind = "histogram" => values[o][CountPoint] = 0 /\ values[o][SumPoint] = Garbage
    BY DEF ValuesExpected
  <2>1. o # object => \A i \in DataPoints : values[o][i] = Expected(kind, seen[o], Len(seen[o]), i)
    BY DEF RenderInv, RecordInv, ValuesFollow, Counted
  <2> QED BY <2>1 DEF RenderInv, RestInv, RestKept
<1> QED BY <1>1, RenderInvariant, PTL

\* The lines are about metrics that begin() found and points they have.
LEMMA LinesTyped ==
  ASSUME RenderInv
  PROVE  /\ \A k \in DOMAIN text : text[k].object \in DOMAIN seenAtBegin
         /\ \A o \in DOMAIN seenAtBegin :
              /\ o \in Objects /\ seen[o] \in Seq(Payloads) /\ seenAtBegin[o] \in Seq(Payloads)
              /\ Len(seen[o]) \in Nat /\ Len(seenAtBegin[o]) \in Nat \ {0} /\ Len(seenAtBegin[o]) <= Len(seen[o])
              /\ \A m \in DOMAIN seenAtBegin[o] : seenAtBegin[o][m] = seen[o][m]
<1> DEFINE Lines == [object : DOMAIN seenAtBegin, point : DOMAIN Points, value : Worth]
<1>1. text \in Seq(Lines)
  BY DEF RenderInv, TypeOK, ScrapeTyped
<1>2. \A k \in DOMAIN text : text[k] \in Lines
  <2> HIDE DEF Lines
  <2> QED BY <1>1
<1>3. ASSUME NEW o \in DOMAIN seenAtBegin
      PROVE  /\ o \in Objects /\ seen[o] \in Seq(Payloads) /\ seenAtBegin[o] \in Seq(Payloads)
             /\ Len(seen[o]) \in Nat /\ Len(seenAtBegin[o]) \in Nat \ {0} /\ Len(seenAtBegin[o]) <= Len(seen[o])
             /\ \A m \in DOMAIN seenAtBegin[o] : seenAtBegin[o][m] = seen[o][m]
  <2>1. o \in Objects /\ seen[o] \in Seq(Payloads) /\ seenAtBegin[o] \in Seq(Payloads)
    BY DEF RenderInv, TypeOK, DataTyped, ScrapeTyped
  <2>2. Len(seenAtBegin[o]) \in 1 .. Finished(o) /\ \A m \in DOMAIN seenAtBegin[o] : seenAtBegin[o][m] = seen[o][m]
    BY DEF RenderInv, ShownInv, BeginKept
  <2>3. Len(seen[o]) \in Nat /\ Finished(o) \in Int /\ Finished(o) <= Len(seen[o])
    BY <2>1 DEF Finished
  <2> QED BY <2>1, <2>2, <2>3
<1> QED BY <1>2, <1>3

\* A gauge's value was never written only while no payload was a number.
LEMMA GarbageExpected ==
  ASSUME NEW ps \in Seq(Payloads), NEW n \in 1 .. Len(ps), kind \in AllKinds, kind # "histogram",
         Expected(kind, ps, n, 1) = Garbage
  PROVE  kind = "gauge" /\ \A m \in 1 .. n : ps[m] = Text
<1>0. n \in Nat /\ \A m \in 1 .. n : ps[m] \in Payloads /\ MatchCount[ps[m]] \in Int
  BY RenderAssumption
<1>1. CASE kind = "counter"
  BY <1>0, <1>1, RenderAssumption DEF Expected
<1>2. CASE kind = "MatchGauge"
  <2>1. Expected(kind, ps, n, 1) = MatchCount[ps[n]]
    BY <1>2, NextExpected
  <2> QED BY <1>0, <2>1, RenderAssumption
<1>3. CASE kind = "gauge"
  <2> DEFINE P == {m \in 1 .. n : ps[m] # Text}
             latest == CHOOSE m \in P : \A k \in P : k <= m
  <2>1. Expected(kind, ps, n, 1) = IF P = {} THEN Garbage ELSE ps[latest]
    BY <1>3 DEF Expected
  <2>2. P # {} => latest \in 1 .. n
    <3>1. P \in SUBSET (1 .. n)
      OBVIOUS
    <3> QED BY <1>0, <3>1, LastOf
  <2>3. \A m \in 1 .. n : ps[m] # Garbage
    BY <1>0, RenderAssumption DEF Payloads
  <2> HIDE DEF latest
  <2>4. P = {}
    BY <2>1, <2>2, <2>3
  <2> QED BY <1>3, <2>4
<1> QED BY <1>1, <1>2, <1>3 DEF AllKinds

\* The lines of a histogram: the unwritten ones are those of _sum.
LEMMA HistogramLines ==
  ASSUME RenderInv, kind = "histogram", NEW k \in DOMAIN text
  PROVE  text[k].value = Garbage <=> text[k].point = SumPoint
<1> DEFINE o == text[k].object
           i == text[k].point
<1>1. i \in DOMAIN Points
  <2> DEFINE Lines == [object : DOMAIN seenAtBegin, point : DOMAIN Points, value : Worth]
  <2>1. text \in Seq(Lines)
    BY DEF RenderInv, TypeOK, ScrapeTyped
  <2>2. text[k] \in Lines
    <3> HIDE DEF Lines
    <3> QED BY <2>1
  <2> QED BY <2>2
<1>2. Len(Buckets) \in Nat /\ i \in 1 .. Len(Buckets) + 2 /\ DataPoints = 1 .. Len(Buckets)
  BY <1>1, BucketsSorted DEF Points, DataPoints
<1>3. RestOf(text[k])
  BY DEF RenderInv, RestInv, RestShown
<1>4. CASE i \in DataPoints
  <2>1. o \in DOMAIN seenAtBegin /\ seen[o] \in Seq(Payloads) /\ Len(seen[o]) \in Nat /\ Len(seenAtBegin[o]) \in Nat
    BY LinesTyped
  <2>2. PICK n \in Len(seenAtBegin[o]) .. Len(seen[o]) : text[k].value = Expected(kind, seen[o], n, i)
    BY <1>4 DEF RenderInv, ShownInv, LinesSince, WorthSince
  <2>3. kind \in AllKinds /\ n \in 0 .. Len(seen[o])
    BY <2>1, <2>2 DEF AllKinds
  <2> HIDE DEF o, i
  <2>4. Expected(kind, seen[o], n, i) \in Nat
    BY <2>1, <2>3, TypedExpected
  <2>5. text[k].value # Garbage
    BY <2>2, <2>4, RenderAssumption
  <2>6. i # SumPoint
    BY <1>2, <1>4 DEF SumPoint
  <2> QED BY <2>5, <2>6 DEF i
<1>5. CASE i = CountPoint
  <2>1. text[k].value # Garbage
    BY <1>3, <1>5, RenderAssumption DEF RestOf
  <2> QED BY <1>2, <1>5, <2>1 DEF CountPoint, SumPoint
<1>6. CASE i = SumPoint
  BY <1>3, <1>6 DEF RestOf
<1>7. i \in DataPoints \/ i = CountPoint \/ i = SumPoint
  <2> HIDE DEF i
  <2> QED BY <1>2 DEF CountPoint, SumPoint
<1> QED BY <1>4, <1>5, <1>6, <1>7

\* A gauge is rendered unwritten only if no payload it was given before begin() was a
\* number, a counter and a match gauge never are, and a histogram always is, in its _sum alone.
THEOREM GarbageUnparsed == Spec => []GarbageOnlyUnparsed
<1>0. ASSUME RenderInv, kind = "histogram" PROVE GarbageOnlyUnparsed
  BY <1>0, HistogramLines DEF GarbageOnlyUnparsed
<1>1. ASSUME RenderInv, kind # "histogram" PROVE GarbageOnlyUnparsed
  <2> SUFFICES ASSUME NEW k \in DOMAIN text, text[k].value = Garbage
               PROVE  kind = "gauge" /\ \A m \in DOMAIN seenAtBegin[text[k].object] : seenAtBegin[text[k].object][m] = Text
    BY <1>1 DEF GarbageOnlyUnparsed
  <2> USE <1>1
  <2> DEFINE o == text[k].object
  <2>1. /\ o \in DOMAIN seenAtBegin /\ seen[o] \in Seq(Payloads) /\ seenAtBegin[o] \in Seq(Payloads)
        /\ Len(seen[o]) \in Nat /\ Len(seenAtBegin[o]) \in Nat \ {0} /\ Len(seenAtBegin[o]) <= Len(seen[o])
        /\ \A m \in DOMAIN seenAtBegin[o] : seenAtBegin[o][m] = seen[o][m]
    BY LinesTyped
  <2>2. text[k].point = 1 /\ DataPoints = {1}
    <3>1. Points = <<1>> /\ DataPoints = {1}
      BY DEF Points, DataPoints
    <3>2. text[k].point \in DOMAIN Points
      <4> DEFINE Lines == [object : DOMAIN seenAtBegin, point : DOMAIN Points, value : Worth]
      <4>1. text \in Seq(Lines)
        BY DEF RenderInv, TypeOK, ScrapeTyped
      <4>2. text[k] \in Lines
        <5> HIDE DEF Lines
        <5> QED BY <4>1
      <4> QED BY <4>2
    <3> QED BY <3>1, <3>2
  <2>3. PICK n \in Len(seenAtBegin[o]) .. Len(seen[o]) : Garbage = Expected(kind, seen[o], n, 1)
    BY <2>2 DEF RenderInv, ShownInv, LinesSince, WorthSince
  <2>4. kind \in AllKinds
    BY RenderAssumption DEF RenderInv, TypeOK, DataTyped
  <2>5. n \in 1 .. Len(seen[o])
    BY <2>1, <2>3
  <2>6. kind = "gauge" /\ \A m \in 1 .. n : seen[o][m] = Text
    <3> HIDE DEF o
    <3>1. \A j \in 1 .. Len(seen[o]) : Expected(kind, seen[o], j, 1) = Garbage =>
            kind = "gauge" /\ \A m \in 1 .. j : seen[o][m] = Text
      BY <2>1, <2>4, GarbageExpected
    <3> QED BY <2>3, <2>5, <3>1
  <2>7. \A m \in DOMAIN seenAtBegin[o] : m \in 1 .. n
    BY <2>1, <2>3
  <2> QED BY <2>1, <2>6, <2>7
<1>2. RenderInv => GarbageOnlyUnparsed
  BY <1>0, <1>1
<1> QED BY <1>2, RenderInvariant, PTL

\* A narrower bucket, read any time after a wider one, exceeds it at most by the
\* payloads given in between.
LEMMA Narrower ==
  ASSUME NEW ps \in Seq(Payloads), NEW from \in 0 .. Len(ps), NEW n \in from .. Len(ps), NEW m \in from .. Len(ps),
         NEW i \in DOMAIN Buckets, NEW k \in DOMAIN Buckets, i <= k, kind = "histogram"
  PROVE  Expected(kind, ps, n, k) <= Expected(kind, ps, m, i) + (Len(ps) - from)
<1> DEFINE A == Within(ps, n, Buckets[k])
           B == Within(ps, m, Buckets[i])
           C == (m + 1) .. n
<1>0. n \in Nat /\ m \in Nat /\ Len(ps) \in Nat /\ from \in Nat
  OBVIOUS
<1>1. Expected(kind, ps, n, k) = Cardinality(A) /\ Expected(kind, ps, m, i) = Cardinality(B)
  BY DEF Expected, Within
<1>2. IsFiniteSet(B) /\ Cardinality(B) \in Nat
  BY <1>0, WithinFinite
<1>3. IsFiniteSet(C) /\ Cardinality(C) \in Nat /\ Cardinality(C) <= Len(ps) - from
  <2>1. IsFiniteSet(C) /\ Cardinality(C) = IF m + 1 > n THEN 0 ELSE n - (m + 1) + 1
    BY <1>0, FS_Interval
  <2> QED BY <1>0, <2>1
<1>4. A \subseteq B \cup C
  <2> SUFFICES ASSUME NEW x \in 1 .. n, AtMost(Sample(ps[x]), Buckets[k]), ~(x \in C) PROVE x \in B
    BY DEF Within
  <2>1. ps[x] \in Payloads /\ x \in 1 .. m
    BY <1>0
  <2>2. AtMost(Sample(ps[x]), Buckets[i])
    BY <2>1, TooNarrow
  <2> QED BY <2>1, <2>2 DEF Within
<1> HIDE DEF A, B, C
<1>5. IsFiniteSet(B \cup C) /\ Cardinality(B \cup C) <= Cardinality(B) + Cardinality(C)
  <2>1. IsFiniteSet(B \cap C) /\ Cardinality(B \cap C) \in Nat
    BY <1>2, FS_Subset, FS_CardinalityType
  <2>2. Cardinality(B \cup C) = Cardinality(B) + Cardinality(C) - Cardinality(B \cap C)
    BY <1>2, <1>3, FS_Union
  <2> QED BY <1>2, <1>3, <2>1, <2>2, FS_Union
<1>6. Cardinality(A) <= Cardinality(B \cup C) /\ Cardinality(A) \in Nat /\ Cardinality(B \cup C) \in Nat
  BY <1>4, <1>5, FS_Subset, FS_CardinalityType
<1> QED BY <1>0, <1>1, <1>2, <1>3, <1>5, <1>6

\* A scrape may show a bucket exceed a wider one, but by no more than the samples recorded
\* while it read them.
THEOREM TornLittle == Spec => []TornByAtMostDuring
<1>1. RenderInv => TornByAtMostDuring
  <2> SUFFICES ASSUME RenderInv, kind = "histogram", NEW a \in DOMAIN text, NEW b \in DOMAIN text,
                      text[a].object = text[b].object, {text[a].point, text[b].point} \subseteq DataPoints,
                      text[a].point > text[b].point
               PROVE  text[a].value <= text[b].value + During(text[a].object)
    BY DEF TornByAtMostDuring
  <2> DEFINE o == text[a].object
  <2>1. /\ seen[o] \in Seq(Payloads) /\ Len(seen[o]) \in Nat /\ Len(seenAtBegin[o]) \in Nat
        /\ Len(seenAtBegin[o]) <= Len(seen[o])
    BY LinesTyped
  <2>2. text[a].point \in DOMAIN Buckets /\ text[b].point \in DOMAIN Buckets /\ text[b].point <= text[a].point
    BY BucketsSorted DEF DataPoints
  <2>3. PICK n \in Len(seenAtBegin[o]) .. Len(seen[o]) : text[a].value = Expected(kind, seen[o], n, text[a].point)
    BY DEF RenderInv, ShownInv, LinesSince, WorthSince
  <2>4. PICK m \in Len(seenAtBegin[o]) .. Len(seen[o]) : text[b].value = Expected(kind, seen[o], m, text[b].point)
    BY DEF RenderInv, ShownInv, LinesSince, WorthSince
  <2>5. Len(seenAtBegin[o]) \in 0 .. Len(seen[o])
    BY <2>1
  <2> HIDE DEF o
  <2>6. \A j, l \in Len(seenAtBegin[o]) .. Len(seen[o]) :
          Expected(kind, seen[o], j, text[a].point) <=
            Expected(kind, seen[o], l, text[b].point) + (Len(seen[o]) - Len(seenAtBegin[o]))
    BY <2>1, <2>2, <2>5, Narrower
  <2>7. text[a].value <= text[b].value + (Len(seen[o]) - Len(seenAtBegin[o]))
    BY <2>3, <2>4, <2>6
  <2> QED BY <2>7 DEF o, During
<1> QED BY <1>1, RenderInvariant, PTL

\* stringify never uses an iterator past its end, although begin() and end() may see
\* different maps: for any number of label sets, samples and erasures.
THEOREM RangeSafety == Spec => []NeverPastTheEnd
<1>1. Init => RangeInv
  BY DEF Init, RangeInv, EndReached, NeverPastTheEnd
<1>2. RangeInv => NeverPastTheEnd
  BY DEF RangeInv
<1> QED
  BY <1>1, <1>2, RangeStep, PTL DEF Spec
=============================================================================
