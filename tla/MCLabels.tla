------------------------------ MODULE MCLabels ------------------------------
(* A small instance of Labels for TLC. *)
EXTENDS Labels

Topic(name, regex)   == [name |-> name, target |-> "topic", regex |-> regex]
Payload(name, regex) == [name |-> name, target |-> "payload", regex |-> regex]
LabelOf(key, value)  == [key |-> key, value |-> value]

\* In units of 10^-7: 0.1, 0.1000004, 0.1000009, 0.3 and 2.
SomeBounds == {1000000, 1000004, 1000009, 3000000, 20000000}
Metric(labelList, variables) == [labels |-> labelList, variables |-> variables, buckets |-> SomeBounds]

SomeConfigs == {
  \* one reference per label, one of them twice, and a constant label
  Metric(<<LabelOf("k1", Ref("a")), LabelOf("k2", Ref("b")), LabelOf("k3", <<"x">>)>>, <<Topic("a", "all"), Payload("b", "all")>>),
  Metric(<<LabelOf("k1", Ref("a") \o <<"x">> \o Ref("a") \o Ref("b"))>>, <<Topic("a", "noX"), Payload("b", "all")>>),
  \* references made of references, and one to no variable
  Metric(<<LabelOf("k1", <<"$", "{">> \o Ref("a") \o <<"}">>), LabelOf("k2", <<"$">> \o Ref("b")), LabelOf("k3", Ref("c"))>>,
         <<Topic("a", "all"), Payload("b", "all")>>),
  \* a key and a variable given twice, and a label "le"
  Metric(<<LabelOf("k1", <<"x">>), LabelOf("k1", Ref("a")), LabelOf("k1", Ref("b")), LabelOf("le", Ref("b"))>>,
         <<Topic("a", "all"), Payload("b", "all"), Payload("a", "noX")>>),
  \* no labels
  Metric(<<LabelOf("k1", <<"x">>)>>, <<>>)}

SomeTopics == {<<"x">>, <<"b">>, <<"x", ",", "k2", "=", "x">>, <<"x", "\"", ",", "k2", "=", "\"", "x">>}
SomePayloads == SomeTopics \cup {Ref("a"), <<"{", "a", "}">>}
SomeRegexes ==
  [r \in {"all", "noX"} |-> [t \in SomePayloads |-> IF r = "noX" /\ "x" \in ToSet(t) THEN NoMatch ELSE t]]
SomeKeys == <<"k1", "k2", "k3", "le">>
=============================================================================
