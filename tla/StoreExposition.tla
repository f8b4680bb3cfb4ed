-------------------------- MODULE StoreExposition --------------------------
(***************************************************************************)
(* MetricStore implements Exposition: the map from the locks, the items    *)
(* and the response buffer to what a client of /metrics can observe.       *)
(***************************************************************************)
EXTENDS MetricStore

Present == {x \in Families \X Labels : items[x[1]][x[2]] # Absent}
BeingRecorded == IF pc[Worker] = "sample" THEN <<cur[Worker], label>> ELSE Free
Service(s) == IF pc[s] = "idle" THEN "idle" ELSE IF s \in alone THEN "whole" ELSE "torn"

\* The sections a scrape has rendered: those in the buffer and the one it is about
\* to append, of a scrape that nobody has overlapped.
Written     == {output[i] : i \in DOMAIN output} \cap Section
Rendered(s) ==
  IF s \notin alone THEN {}
  ELSE Written \cup (IF pc[s] \in {"end", "append"} THEN {<<cur[s], section[s]>>} ELSE {})
FamiliesIn(sections) == {x[1] : x \in sections}
SeriesOf(f, ls)      == {f} \X ls
SeriesIn(sections)   == UNION {SeriesOf(x[1], x[2]) : x \in sections}

\* What each client sees.
ServiceOf  == [s \in Scrapers |-> Service(s)]
FamiliesOf == [s \in Scrapers |-> FamiliesIn(Rendered(s))]
ShownTo    == [s \in Scrapers |-> SeriesIn(Rendered(s))]

E == INSTANCE Exposition WITH
  Clients   <- Scrapers,
  None      <- Free,
  series    <- Present,
  stamp     <- lastSample,
  recording <- BeingRecorded,
  service   <- ServiceOf,
  families  <- FamiliesOf,
  shown     <- ShownTo,
  asked     <- atStart

\* Every behaviour of the store, with its locks, sweeps and buffer, is one that
\* Exposition allows: no step of a thread takes a fresh series from the clients,
\* shows half a sample, shows a family twice or answers without one of them.
ImplementsExposition == E!Spec
=============================================================================
