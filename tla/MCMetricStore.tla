--------------------------- MODULE MCMetricStore ---------------------------
(* Small instances of MetricStore for TLC, with the promise it implements. *)
EXTENDS StoreExposition

CONSTANTS f1, f2, l1, s1, s2, worker, routine, free

OneFamily   == {f1}
TwoFamilies == {f1, f2}
OneLabel    == {l1}
OneScraper  == {s1}
TwoScrapers == {s1, s2}
=============================================================================
