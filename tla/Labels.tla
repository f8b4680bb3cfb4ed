------------------------------- MODULE Labels -------------------------------
(***************************************************************************)
(* From the label templates of a metric to the label sets of its series    *)
(* and to the text a scrape tells them apart by: App::messageArrived,      *)
(* parse, replace and replaceAll, IMetricFamily::getVariableLabels,        *)
(* to_string(LabelSet), and the "le" label of a histogram's buckets.       *)
(*                                                                         *)
(* A text is a sequence of tokens: "$", "{", "}", a quote, a comma, "=",   *)
(* names and other pieces.  std::regex is external: a regular expression   *)
(* is what match[1] holds after a search in each text.                     *)
(***************************************************************************)
EXTENDS Integers, FiniteSets, SequencesExt

CONSTANTS
  Configs,     \* the configurations considered: [labels, variables, buckets]
  Regex,       \* regex -> text -> match[1], or NoMatch
  NoMatch,     \* "the search found nothing"
  Payloads,    \* texts of payloads ...
  MessageTopics, \* ... and of topics
  KeyOrder,    \* label keys in the order of std::map
  MaxMessages  \* bound: messages handled

Label == [key : ToSet(KeyOrder), value : Seq(STRING)]
Variable == [name : STRING, target : {"topic", "payload"}, regex : DOMAIN Regex]

\* A match is a part of the text; the keys of a std::map differ.
ASSUME ParametersOK ==
  /\ Configs \subseteq [labels : Seq(Label), variables : Seq(Variable), buckets : SUBSET Int]
  /\ Payloads \cup MessageTopics \subseteq Seq(STRING)
  /\ \A r \in DOMAIN Regex, t \in Payloads \cup MessageTopics : Regex[r][t] # NoMatch => Regex[r][t] \in Seq(ToSet(t))
  /\ KeyOrder \in Seq(STRING) /\ "le" \in ToSet(KeyOrder)
  /\ \A i, j \in DOMAIN KeyOrder : KeyOrder[i] = KeyOrder[j] => i = j
  /\ MaxMessages \in Nat

VARIABLES
  config,  \* the metric's configuration
  order,   \* the order in which std::unordered_map iterates over the variables
  parsed,  \* the variables of the message: name -> value
  labels,  \* variableLabels: key -> text
  next,    \* position in order; 0: no message is being handled
  series,  \* label sets of the family's items
  sent     \* number of messages handled, at most MaxMessages

vars == <<config, order, parsed, labels, next, series, sent>>

NamesOf(c) == {c.variables[i].name : i \in DOMAIN c.variables}
Ref(name) == <<"$", "{", name, "}">>
StartsAt(text, i, part) == i + Len(part) - 1 <= Len(text) /\ SubSeq(text, i, i + Len(part) - 1) = part

\* getVariableLabels: the labels with a '$', of each key the first.  (Those without
\* one are getConstantLabels, which nobody calls.)
VariableLabels(c) ==
  LET variable == {i \in DOMAIN c.labels : "$" \in ToSet(c.labels[i].value)} IN
  [k \in {c.labels[i].key : i \in variable} |-> c.labels[CHOOSE i \in variable :
      c.labels[i].key = k /\ \A j \in variable : c.labels[j].key = k => i <= j].value]

\* Mutant: a variable whose expression is not found is left out.
Parse_Found(variables, topic, payload) ==
  LET Source(v) == IF v.target = "topic" THEN topic ELSE payload
      found == {v \in ToSet(variables) : Regex[v.regex][Source(v)] # NoMatch}
  IN [n \in {v.name : v \in found} |-> LET w == CHOOSE v \in found : v.name = n IN Regex[w.regex][Source(w)]]

\* App::parse: the last variable of a name counts; "" when nothing is found.
Parse(variables, topic, payload) ==
  LET Value(v) == LET m == Regex[v.regex][IF v.target = "topic" THEN topic ELSE payload]
                  IN IF m = NoMatch THEN <<>> ELSE m
      LastOf(n) == CHOOSE i \in DOMAIN variables :
                   variables[i].name = n /\ \A j \in DOMAIN variables : variables[j].name = n => j <= i
  IN [n \in {variables[i].name : i \in DOMAIN variables} |-> Value(variables[LastOf(n)])]

\* Mutant: only the first occurrence.
replaceAll_First(text, from, to) ==
  LET starts == {i \in DOMAIN text : StartsAt(text, i, from)} IN
  IF starts = {} THEN text
  ELSE LET i == CHOOSE i \in starts : \A j \in starts : i <= j
       IN SubSeq(text, 1, i - 1) \o to \o SubSeq(text, i + Len(from), Len(text))

\* replaceAll: occurrences cannot overlap, and what is put in is not looked at again.
replaceAll(text, from, to) ==
  LET starts == {i \in DOMAIN text : StartsAt(text, i, from)}
      Covered(j) == \E i \in starts : j \in i .. i + Len(from) - 1
  IN FlattenSeq([j \in DOMAIN text |-> IF j \in starts THEN to ELSE IF Covered(j) THEN <<>> ELSE <<text[j]>>])

Init ==
  /\ config \in Configs /\ order \in SetToSeqs(NamesOf(config))
  /\ parsed = <<>> /\ labels = <<>> /\ next = 0 /\ series = {} /\ sent = 0

\* App::messageArrived takes up a message for the family.
Arrive ==
  /\ next = 0 /\ next' = 1 /\ sent < MaxMessages /\ sent' = sent + 1
  /\ \E topic \in MessageTopics, payload \in Payloads : parsed' = Parse(config.variables, topic, payload)
  /\ labels' = VariableLabels(config)
  /\ UNCHANGED <<config, order, series>>

\* One round of App::replace: the variable's reference is replaced in every label.
Replace ==
  /\ next \in DOMAIN order /\ next' = next + 1
  /\ labels' = [k \in DOMAIN labels |-> replaceAll(labels[k], Ref(order[next]), parsed[order[next]])]
  /\ UNCHANGED <<config, order, parsed, series, sent>>

Replaced == next = Len(order) + 1

\* metric->newSample(..., variableLabels): the label set is the item's key.
NewSample ==
  /\ Replaced /\ next' = 0
  /\ series' = series \cup {labels}
  /\ UNCHANGED <<config, order, parsed, labels, sent>>

Next == Arrive \/ Replace \/ NewSample
Spec == Init /\ [][Next]_vars

-----------------------------------------------------------------------------
(* The text of a series *)

Joined(set, Pair(_, _)) ==
  LET pairs == [i \in DOMAIN KeyOrder |->
                 IF KeyOrder[i] \in DOMAIN set THEN Pair(KeyOrder[i], set[KeyOrder[i]]) ELSE <<>>]
  IN IF DOMAIN set = {} THEN <<>> ELSE <<"{">> \o Front(FlattenSeq(pairs)) \o <<"}">>

\* Mutant: the values are not quoted.
to_string_Bare(set) == Joined(set, LAMBDA key, value : <<key, "=">> \o value \o <<",">>)

\* to_string(LabelSet): the values as they are, a quote in one included.
to_string(set) == Joined(set, LAMBDA key, value : <<key, "=", "\"">> \o value \o <<"\"", ",">>)

\* std::to_string(double) has six decimals.  Bounds are multiples of 10^-7: the last
\* digit is rounded.  (Mutant: they are cut to integers.)
Decimals_Integer(bound) == bound \div 10000000
Decimals(bound) == (bound + 5) \div 10

\* Histogram::Point: insert leaves a label "le" that is already there.  The bucket of
\* the bound +Inf is left out: its text, "+Inf", is that of no other bound.
WithLe(set, bound) ==
  [k \in DOMAIN set \cup {"le"} |-> IF k \in DOMAIN set THEN set[k] ELSE <<Decimals(bound)>>]

-----------------------------------------------------------------------------
(* Properties *)

Tokens == UNION {ToSet(t) : t \in Payloads \cup MessageTopics \cup UNION {{c.labels[i].value : i \in DOMAIN c.labels} : c \in Configs}}

\* Type invariant.  Every variable has a value, so that no reference to one stays.
TypeOK ==
  /\ config \in Configs /\ ToSet(order) = NamesOf(config) /\ next \in 0 .. Len(order) + 1
  /\ sent > 0 => DOMAIN parsed = NamesOf(config)
  /\ \A s \in series \cup {labels} : DOMAIN s \subseteq ToSet(KeyOrder) /\ \A k \in DOMAIN s : ToSet(s[k]) \subseteq Tokens
  /\ Cardinality(series) <= sent /\ sent \in 0 .. MaxMessages

\* Every "$" of the text begins a reference, to a variable or to none.
WellFormed(text) ==
  \A i \in DOMAIN text : text[i] = "$" =>
    i + 3 <= Len(text) /\ text[i + 1] = "{" /\ text[i + 2] \notin {"$", "{", "}"} /\ text[i + 3] = "}"

\* The text with all references replaced at once.
Substituted(text) ==
  LET Here(i) == {n \in NamesOf(config) : StartsAt(text, i, Ref(n))} IN
  FlattenSeq([j \in DOMAIN text |->
    IF Here(j) # {} THEN parsed[CHOOSE n \in Here(j) : TRUE]
    ELSE IF \E d \in 1 .. 3 : j > d /\ Here(j - d) # {} THEN <<>> ELSE <<text[j]>>])

\* The labels of a message have the keys of the configured labels that hold a "$", and
\* no others: a label without one is dropped (nobody calls getConstantLabels,
\* IMetricFamily.cpp:31).  Each is the first template with a "$" of its key, with every
\* reference replaced, in whatever order the unordered_map yields the variables
\* (App.cpp:174), as long as no value holds a "$" and no template builds one reference
\* out of another.
LabelsAsConfigured ==
  LET templates == {i \in DOMAIN config.labels : "$" \in ToSet(config.labels[i].value)}
      Key(i) == config.labels[i].key
      First(i) == \A j \in templates : Key(j) = Key(i) => i <= j
      Text(i) == config.labels[i].value
  IN Replaced =>
    /\ DOMAIN labels = {Key(i) : i \in templates}
    /\ (\A n \in NamesOf(config) : "$" \notin ToSet(parsed[n])) =>
         \A i \in templates : First(i) /\ WellFormed(Text(i)) => labels[Key(i)] = Substituted(Text(i))

\* A scraper can tell the series of a family apart: different label sets are written
\* differently unless a value holds a quote, which Label.cpp:11 does not escape.
Quoteless(set) == \A k \in DOMAIN set : "\"" \notin ToSet(set[k])
SeriesDistinct ==
  \A a, b \in series : Quoteless(a) /\ Quoteless(b) /\ to_string(a) = to_string(b) => a = b

\* So it can the buckets of a histogram, unless the configuration has a label "le" of
\* its own, or bounds that differ after the sixth decimal only (Histogram.hpp:17).
BucketsDistinct ==
  \A s \in series : "le" \notin DOMAIN s => \A b, c \in config.buckets :
    to_string(WithLe(s, b)) = to_string(WithLe(s, c)) => b - c \in -9 .. 9
=============================================================================
