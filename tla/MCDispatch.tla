----------------------------- MODULE MCDispatch -----------------------------
(* Small instances of Dispatch for TLC. *)
EXTENDS Dispatch

\* A wildcard filter and three it overlaps; the third entry repeats the first
\* one's filter, as "FVE_Telc/+/Total" is repeated in mqtt-exporter.yml; the last
\* filter is malformed.
OverlapConfig == <<[topic |-> "a/+", name |-> "m1"],
                   [topic |-> "a/b", name |-> "m2"],
                   [topic |-> "a/+", name |-> "m3"],
                   [topic |-> "#",   name |-> "m4"],
                   [topic |-> "c+",  name |-> "m2"]>>
OverlapTopics   == {"a/b", "a/c", "c"}
OverlapMatching == [f \in {"a/+", "a/b", "#", "c+"} |->
                      CASE f = "a/+" -> {"a/b", "a/c"}
                        [] f = "a/b" -> {"a/b"}
                        [] f = "#"   -> OverlapTopics
                        [] f = "c+"  -> {}]
OverlapFailing  == [f \in DOMAIN OverlapMatching |-> IF f = "c+" THEN {"c"} ELSE {}]

\* The two entries of mqtt-exporter.yml on "FVE_Telc/+/Total", and one of another topic.
ShippedConfig   == <<[topic |-> "FVE_Telc/+/Total", name |-> "responses"],
                     [topic |-> "FVE_Telc/+/Total", name |-> "total_power"],
                     [topic |-> "FVE_Telc/+/Pac/+", name |-> "power_ac_watt"]>>
ShippedTopics   == {"FVE_Telc/1/Total", "FVE_Telc/1/Pac/2"}
ShippedMatching == [f \in {"FVE_Telc/+/Total", "FVE_Telc/+/Pac/+"} |->
                      IF f = "FVE_Telc/+/Total" THEN {"FVE_Telc/1/Total"} ELSE {"FVE_Telc/1/Pac/2"}]

ShippedFailing  == [f \in DOMAIN ShippedMatching |-> {}]

NoEntry  == {}
AnyEntry == DOMAIN OverlapConfig
=============================================================================
