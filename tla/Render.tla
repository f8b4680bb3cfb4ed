------------------------------- MODULE Render -------------------------------
(***************************************************************************)
(* The metrics of one family and the points they are rendered from, while  *)
(* the worker records samples, the sweep erases metrics and a scrape runs  *)
(* IMetricFamily::stringify.                                               *)
(*                                                                         *)
(* MetricFamily::_mutex protects the map of metrics, and newSample holds   *)
(* it; but begin() and end() each copy the pointers under it and let it    *)
(* go, so the points are read while newSample may be writing them.         *)
(*                                                                         *)
(* Metric objects are numbered in the order of their creation; a label set *)
(* is its place in the std::map.  Payloads are what std::from_chars makes  *)
(* of them: a number, NaN or Text (no number).  An aligned double is read  *)
(* or written at once.  When the sweep erases what is MetricStore's        *)
(* subject: here it may erase any metric.                                  *)
(***************************************************************************)
EXTENDS Integers, Sequences, FiniteSets

CONSTANTS
  Kinds,       \* types of the family to consider, among AllKinds
  NumLabels,   \* number of label sets
  Bounds,      \* OpenMetric::buckets, a sequence of numbers
  Infinity,    \* std::numeric_limits<double>::infinity(), above all numbers
  Numbers, NaN, Text,   \* payloads
  MatchCount,  \* payload -> number of matches of OpenMetric::matchRegex in it
  Garbage,     \* the value of a double that was never written
  MaxSamples   \* bound: messages recorded

AllKinds == {"counter", "gauge", "histogram", "MatchGauge"}
Payloads == Numbers \cup {NaN, Text}
Labels   == 1 .. NumLabels

ASSUME RenderAssumption ==
  /\ Kinds \subseteq AllKinds /\ NumLabels \in Nat /\ MaxSamples \in Nat /\ Infinity \in Int
  /\ Numbers \subseteq Int /\ \A n \in Numbers : n <= Infinity
  /\ Bounds \in Seq(Int) /\ \A i \in DOMAIN Bounds : Bounds[i] <= Infinity
  /\ MatchCount \in [Payloads -> Nat]
  /\ NaN \notin Int /\ Text \notin Int /\ Garbage \notin Int
  /\ NaN # Text /\ NaN # Garbage /\ Text # Garbage

None == 0   \* no metric under this label set

VARIABLES
  process,   \* "up", or "corrupt" once an iterator was used past its end
  kind,      \* the family's metric class
  items,     \* MetricFamily::_metrics, in the order of the labels: objects or None
  values,    \* object -> the _value of each of its points, in the order of begin()
  sent,      \* number of messages recorded, at most MaxSamples
  worker,    \* "idle", or "update": in newSample, holding _mutex
  object, payload, bucket,  \* newSample: the item's metric, the payload, the loop's bucket
  scrape,    \* position in stringify
  it, last,  \* __begin and __end of the loop over the family
  point,     \* the iterator over the points of the current metric
  text,      \* the lines written so far, as records [object, point, value]
  seen,      \* history: object -> the payloads it was given
  seenAtBegin  \* history: seen when the scrape called begin()

workerVars == <<sent, worker, object, payload, bucket>>
scrapeVars == <<scrape, it, last, point, text, seenAtBegin>>
vars == <<process, kind, items, values, workerVars, scrapeVars, seen>>

\* MetricFamily::_mutex; begin(), end() and routine() take it for one step each.
\* (Mutant: newSample does not.)
Locked_Never == FALSE
Locked == worker = "update"

-----------------------------------------------------------------------------
(* VectorIterator: a vector of its own and an index *)

IsValid(i) == i.index < Len(i.vec)

\* Mutant: iterators are compared by their indices.
Same_ByIndex(a, b) == a.index = b.index
Same(a, b) == (~IsValid(a) /\ ~IsValid(b)) \/ a = b
Deref(i)   == i.vec[i.index + 1]
Increment(i) == [i EXCEPT !.index = @ + 1]
Start(v)   == [vec |-> v, index |-> 0]
Past(v)    == [vec |-> v, index |-> Len(v)]

-----------------------------------------------------------------------------
(* The metric classes *)

\* Mutant: the buckets are not sorted.
Buckets_Unsorted == Append(Bounds, Infinity)

\* Histogram::Histogram: the bounds and +Inf, the widest first.
Buckets ==
  LET all == Append(Bounds, Infinity)
      order == CHOOSE p \in [DOMAIN all -> DOMAIN all] :
                 /\ \A i \in DOMAIN all : \E k \in DOMAIN all : p[k] = i
                 /\ \A i, k \in DOMAIN all : i < k => all[p[i]] >= all[p[k]]
  IN [i \in DOMAIN all |-> all[order[i]]]

\* The points of begin(): a histogram's buckets, its _count and its _sum.
Points == IF kind = "histogram" THEN [i \in 1 .. Len(Buckets) + 2 |-> i] ELSE <<1>>

\* Mutant: the constructors make no point.
Fresh_NoPoint == <<>>

\* What the constructors leave in them: Gauge::Point, the class of _sum too, does
\* not initialise its _value.
Fresh ==
  CASE kind = "counter"   -> <<0>>
    [] kind = "histogram" -> [i \in DOMAIN Points |-> IF i <= Len(Buckets) + 1 THEN 0 ELSE Garbage]
    [] OTHER              -> <<Garbage>>

\* `double sample{}; from_chars(..., sample)`: no number counts as zero.
Sample(p)     == IF p = Text THEN 0 ELSE p
AtMost(x, le) == x # NaN /\ x <= le

Init ==
  /\ process = "up" /\ kind \in Kinds
  /\ items = [l \in Labels |-> None] /\ values = <<>>
  /\ sent = 0 /\ worker = "idle" /\ object = None /\ payload = Text /\ bucket = 1
  /\ scrape = "idle" /\ it = Start(<<>>) /\ last = Start(<<>>) /\ point = Start(<<>>)
  /\ text = <<>> /\ seen = <<>> /\ seenAtBegin = <<>>

-----------------------------------------------------------------------------
(* Worker: MetricFamily::newSample and the newSample of the classes *)

\* Mutant: the loop starts at the second bucket.
NewSample_SkipWidest(l, p) ==
  /\ sent < MaxSamples /\ sent' = sent + 1
  /\ worker = "idle" /\ worker' = "update" /\ payload' = p /\ bucket' = 2
  /\ IF items[l] # None
     THEN object' = items[l] /\ seen' = [seen EXCEPT ![items[l]] = Append(@, p)] /\ UNCHANGED <<items, values>>
     ELSE /\ object' = Len(values) + 1 /\ items' = [items EXCEPT ![l] = object']
          /\ values' = Append(values, Fresh) /\ seen' = Append(seen, <<p>>)
  /\ UNCHANGED <<process, kind, scrapeVars>>

\* Under the lock: the item is looked up or made ...
NewSample(l, p) ==
  /\ sent < MaxSamples /\ sent' = sent + 1
  /\ worker = "idle" /\ worker' = "update" /\ payload' = p /\ bucket' = 1
  /\ IF items[l] # None
     THEN object' = items[l] /\ seen' = [seen EXCEPT ![items[l]] = Append(@, p)] /\ UNCHANGED <<items, values>>
     ELSE /\ object' = Len(values) + 1 /\ items' = [items EXCEPT ![l] = object']
          /\ values' = Append(values, Fresh) /\ seen' = Append(seen, <<p>>)
  /\ UNCHANGED <<process, kind, scrapeVars>>

\* ... and given the payload.  A gauge keeps its value if that is no number.
Assigned(old) ==
  CASE kind = "counter"    -> old + 1
    [] kind = "gauge"      -> IF payload = Text THEN old ELSE payload
    [] kind = "MatchGauge" -> MatchCount[payload]

Unlock == worker' = "idle" /\ object' = None /\ payload' = Text /\ bucket' = 1

UpdatePoint ==
  /\ worker = "update" /\ kind # "histogram"
  /\ values' = [values EXCEPT ![object][1] = Assigned(@)]
  /\ Unlock
  /\ UNCHANGED <<process, kind, items, sent, scrapeVars, seen>>

\* A histogram's loop: from the widest bucket to the first that is too narrow.
Counts == bucket <= Len(Buckets) /\ AtMost(Sample(payload), Buckets[bucket])
UpdateBucket ==
  /\ worker = "update" /\ kind = "histogram" /\ Counts
  /\ values' = [values EXCEPT ![object][bucket] = @ + 1]
  /\ bucket' = bucket + 1
  /\ UNCHANGED <<process, kind, items, sent, worker, object, payload, scrapeVars, seen>>
UpdateDone ==
  /\ worker = "update" /\ kind = "histogram" /\ ~Counts
  /\ Unlock
  /\ UNCHANGED <<process, kind, items, values, sent, scrapeVars, seen>>

\* MetricFamily::routine erases an expired item; a scrape may still share its metric.
Erase(l) ==
  /\ ~Locked /\ items[l] # None
  /\ items' = [items EXCEPT ![l] = None]
  /\ UNCHANGED <<process, kind, values, workerVars, scrapeVars, seen>>

-----------------------------------------------------------------------------
(* Scrape: IMetricFamily::stringify *)

Goto(from, to) == process = "up" /\ scrape = from /\ scrape' = to

\* views::values of the map: the metrics in the order of their labels.
Present  == {l \in Labels : items[l] # None}
Nth(k)   == CHOOSE l \in Present : Cardinality({m \in Present : m <= l}) = k
Pointers == [k \in 1 .. Cardinality(Present) |-> items[Nth(k)]]

\* for (auto metric : *this): begin() copies the pointers under the lock, and so does end().
Begin ==
  /\ ~Locked /\ Goto("idle", "begun")
  /\ it' = Start(Pointers) /\ seenAtBegin' = seen
  /\ UNCHANGED <<process, kind, items, values, workerVars, last, point, text, seen>>
End ==
  /\ ~Locked /\ Goto("begun", "metrics")
  /\ last' = Past(Pointers)
  /\ UNCHANGED <<process, kind, items, values, workerVars, it, point, text, seen, seenAtBegin>>

\* for (auto point : *metric)
VisitMetric ==
  /\ process = "up" /\ scrape = "metrics" /\ ~Same(it, last)
  /\ scrape' = "points" /\ point' = Start(Points)
  /\ process' = IF IsValid(it) THEN process ELSE "corrupt"
  /\ UNCHANGED <<kind, items, values, workerVars, it, last, text, seen, seenAtBegin>>

\* out += point->stringify(), which reads _value without the lock
RenderPoint ==
  /\ ~Same(point, Past(Points)) /\ Goto("points", "points")
  /\ text' = Append(text, [object |-> Deref(it), point |-> Deref(point), value |-> values[Deref(it)][Deref(point)]])
  /\ point' = Increment(point)
  /\ UNCHANGED <<process, kind, items, values, workerVars, it, last, seen, seenAtBegin>>
MetricDone ==
  /\ Same(point, Past(Points)) /\ Goto("points", "metrics")
  /\ it' = Increment(it) /\ point' = Start(<<>>)
  /\ UNCHANGED <<process, kind, items, values, workerVars, last, text, seen, seenAtBegin>>

FamilyDone ==
  /\ Same(it, last) /\ Goto("metrics", "done")
  /\ UNCHANGED <<process, kind, items, values, workerVars, it, last, point, text, seen, seenAtBegin>>
Return ==
  /\ Goto("done", "idle")
  /\ it' = Start(<<>>) /\ last' = Start(<<>>) /\ text' = <<>> /\ seenAtBegin' = <<>>
  /\ UNCHANGED <<process, kind, items, values, workerVars, point, seen>>

-----------------------------------------------------------------------------
Next ==
  \/ \E l \in Labels, p \in Payloads : NewSample(l, p)
  \/ UpdatePoint \/ UpdateBucket \/ UpdateDone
  \/ \E l \in Labels : Erase(l)
  \/ Begin \/ End \/ VisitMetric \/ RenderPoint \/ MetricDone \/ FamilyDone \/ Return

Spec == Init /\ [][Next]_vars

-----------------------------------------------------------------------------
(* Properties *)

Objects      == DOMAIN values
IteratorOf(S) == [vec : Seq(S), index : Nat]
Worth        == Int \cup {NaN, Garbage}

\* The family and its metrics; the payloads given to the objects begin() found.
DataTyped ==
  /\ process \in {"up", "corrupt"} /\ kind \in Kinds /\ sent \in 0 .. MaxSamples
  /\ items \in [Labels -> Objects \cup {None}]
  /\ values \in Seq([DOMAIN Points -> Worth])
  /\ seen \in Seq(Seq(Payloads)) /\ DOMAIN seen = Objects
  /\ worker \in {"idle", "update"} /\ payload \in Payloads /\ bucket \in 1 .. Len(Buckets) + 1
  /\ object \in Objects \cup {None} /\ (worker = "update" <=> object # None)
  /\ worker = "idle" => bucket = 1

\* The scrape.
ScrapeTyped ==
  /\ scrape \in {"idle", "begun", "metrics", "points", "done"}
  /\ seenAtBegin \in Seq(Seq(Payloads)) /\ DOMAIN seenAtBegin \subseteq Objects
  /\ it \in IteratorOf(DOMAIN seenAtBegin) /\ last \in IteratorOf(Objects)
  /\ point \in IteratorOf(DOMAIN Points)
  /\ text \in Seq([object : DOMAIN seenAtBegin, point : DOMAIN Points, value : Worth])

\* Type invariant.
TypeOK == DataTyped /\ ScrapeTyped

\* end() copies the map on its own, after begin() has released the lock: the sweep and
\* the worker may change it in between.  Still no iterator is used past its end.
NeverPastTheEnd == process = "up"

\* And the section has each metric that begin() found exactly once, with all of its
\* points, however many there were when end() looked.
Line(m, i) == (m - 1) * Len(Points) + i
WholeSection ==
  scrape = "done" =>
    /\ Len(text) = Len(it.vec) * Len(Points)
    /\ \A m \in DOMAIN it.vec, i \in DOMAIN Points :
         text[Line(m, i)].object = it.vec[m] /\ text[Line(m, i)].point = i

\* What a point is worth after the first n of the payloads, by the definition of its
\* type: their number, the last number, the matches in the last payload, the number of
\* samples at most as large as the bucket's bound.
Expected(type, payloads, n, i) ==
  CASE type = "counter"    -> n
    [] type = "gauge"      -> LET parsed == {m \in 1 .. n : payloads[m] # Text}
                              IN IF parsed = {} THEN Garbage
                                 ELSE payloads[CHOOSE m \in parsed : \A k \in parsed : k <= m]
    [] type = "MatchGauge" -> IF n = 0 THEN Garbage ELSE MatchCount[payloads[n]]
    [] type = "histogram"  -> Cardinality({m \in 1 .. n : AtMost(Sample(payloads[m]), Buckets[i])})

\* Outside newSample, the incremental updates have led there: for a histogram the loop
\* that stops at the first bucket too narrow counts each sample in every bucket it
\* belongs to, whatever the order of the configured bounds.  Its other two points follow
\* no payload, as newSample gives them none (Histogram.cpp:15-26): _count is always zero,
\* and _sum what the constructor found in the memory.
DataPoints == IF kind = "histogram" THEN DOMAIN Buckets ELSE {1}
CountPoint == Len(Buckets) + 1
SumPoint   == Len(Buckets) + 2
ValuesExpected ==
  \A o \in Objects :
    /\ o # object => \A i \in DataPoints : values[o][i] = Expected(kind, seen[o], Len(seen[o]), i)
    /\ kind = "histogram" => values[o][CountPoint] = 0 /\ values[o][SumPoint] = Garbage

\* A histogram is read bucket by bucket while samples are recorded, so a scrape may see
\* a bucket exceed a wider one; but by no more than the samples recorded meanwhile.
During(o) == Len(seen[o]) - Len(seenAtBegin[o])
TornByAtMostDuring ==
  scrape = "done" /\ kind = "histogram" =>
    \A a, b \in DOMAIN text :
      /\ text[a].object = text[b].object
      /\ {text[a].point, text[b].point} \subseteq DataPoints
      /\ text[a].point > text[b].point
      => text[a].value <= text[b].value + During(text[a].object)

\* A gauge is rendered without ever having been written only if no payload it was given
\* before the scrape was a number; a counter and a match gauge never are.  A histogram is
\* in every scrape, in its _sum and there alone.
GarbageOnlyUnparsed ==
  \A n \in DOMAIN text :
    LET line == text[n]
        unwritten == line.value = Garbage
    IN IF kind = "histogram"
       THEN unwritten <=> line.point = SumPoint
       ELSE unwritten => kind = "gauge" /\ \A i \in DOMAIN seenAtBegin[line.object] : seenAtBegin[line.object][i] = Text
=============================================================================
