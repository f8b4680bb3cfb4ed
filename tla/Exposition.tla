----------------------------- MODULE Exposition -----------------------------
(***************************************************************************)
(* What the exporter promises to whoever scrapes it, without threads, maps *)
(* or locks: series appear and are stamped, leave once they are too old,   *)
(* and a client is shown every family once, each as it was at one moment   *)
(* of the request.  A request that another one overlaps promises nothing.  *)
(* MetricStore is shown to implement this module in StoreExposition.       *)
(***************************************************************************)
EXTENDS Integers

CONSTANTS
  Families, Labels,  \* a series is a family and a label set
  Clients,           \* requests that can be in service at the same time
  None,              \* "no series"
  MaxAge             \* age up to which a series must be shown

Series == Families \X Labels
Never  == -1

VARIABLES
  clock,
  series,    \* the series that exist
  stamp,     \* family -> labels -> time of the last sample, or Never
  recording, \* the series whose sample is being recorded, or None
  service,   \* per client: "idle", "whole", or "torn" once requests overlapped
  families,  \* per client: the families shown so far ...
  shown,     \* ... and the series shown of them
  asked      \* per client: stamp when the request came in

vars == <<clock, series, stamp, recording, service, families, shown, asked>>

Unsampled == [f \in Families |-> [l \in Labels |-> Never]]

Init ==
  /\ clock = 0 /\ series = {} /\ stamp = Unsampled /\ recording = None
  /\ service = [c \in Clients |-> "idle"]
  /\ families = [c \in Clients |-> {}] /\ shown = [c \in Clients |-> {}]
  /\ asked = [c \in Clients |-> Unsampled]

Fresh(stamps, f, l) == stamps[f][l] # Never /\ clock - stamps[f][l] <= MaxAge

\* A sample is recorded in two steps; its series exists from the first one on.
Record(f, l) ==
  /\ recording = None /\ recording' = <<f, l>>
  /\ series' = series \cup {<<f, l>>}
  /\ UNCHANGED <<clock, stamp, service, families, shown, asked>>
Stamp(f, l) ==
  /\ recording = <<f, l>> /\ recording' = None
  /\ stamp' = [stamp EXCEPT ![f][l] = clock]
  /\ UNCHANGED <<clock, series, service, families, shown, asked>>

\* Only a series that is too old goes, and never while it is being recorded.
Expire(f, l) ==
  /\ <<f, l>> \in series /\ recording # <<f, l>> /\ ~Fresh(stamp, f, l)
  /\ series' = series \ {<<f, l>>}
  /\ UNCHANGED <<clock, stamp, recording, service, families, shown, asked>>

\* A request; those in service at that moment are torn, and so is the new one.
Ask(c) ==
  LET others == {d \in Clients : service[d] # "idle"} IN
  /\ service[c] = "idle"
  /\ service' = IF others = {} THEN [service EXCEPT ![c] = "whole"]
                ELSE [d \in Clients |-> IF d \in others \cup {c} THEN "torn" ELSE "idle"]
  /\ families' = [d \in Clients |-> {}] /\ shown' = [d \in Clients |-> {}]
  /\ asked' = [asked EXCEPT ![c] = stamp]
  /\ UNCHANGED <<clock, series, stamp, recording>>

\* A family, once, with all its series, and not in the middle of a sample.
Show(c, f) ==
  /\ service[c] = "whole" /\ f \notin families[c]
  /\ \A l \in Labels : recording # <<f, l>>
  /\ families' = [families EXCEPT ![c] = @ \cup {f}]
  /\ shown' = [shown EXCEPT ![c] = @ \cup (series \cap ({f} \X Labels))]
  /\ UNCHANGED <<clock, series, stamp, recording, service, asked>>

\* A whole answer has every family.
Answer(c) ==
  /\ service[c] # "idle" /\ (service[c] = "whole" => families[c] = Families)
  /\ service' = [service EXCEPT ![c] = "idle"]
  /\ families' = [families EXCEPT ![c] = {}] /\ shown' = [shown EXCEPT ![c] = {}]
  /\ asked' = [asked EXCEPT ![c] = Unsampled]
  /\ UNCHANGED <<clock, series, stamp, recording>>

Tick == clock' = clock + 1 /\ UNCHANGED <<series, stamp, recording, service, families, shown, asked>>

Next ==
  \/ \E f \in Families, l \in Labels : Record(f, l) \/ Stamp(f, l) \/ Expire(f, l)
  \/ \E c \in Clients : Ask(c) \/ Answer(c) \/ \E f \in Families : Show(c, f)
  \/ Tick

Spec == Init /\ [][Next]_vars
-----------------------------------------------------------------------------
(* What a client may rely on *)

\* A family once shown to a client whose request nobody overlapped was shown with
\* every series sampled before the request that is still fresh.
FreshShown ==
  \A c \in Clients : service[c] = "whole" =>
    \A f \in families[c], l \in Labels : Fresh(asked[c], f, l) => <<f, l>> \in shown[c]

\* The inductive invariant behind it: a fresh series exists, and what a client has
\* asked for is no newer than what there is.
Typed ==
  /\ clock \in Nat /\ stamp \in [Families -> [Labels -> Int]]
  /\ asked \in [Clients -> [Families -> [Labels -> Int]]]
  /\ service \in [Clients -> {"idle", "whole", "torn"}]
  /\ families \in [Clients -> SUBSET Families] /\ shown \in [Clients -> SUBSET Series]
FreshExists == \A f \in Families, l \in Labels : Fresh(stamp, f, l) => <<f, l>> \in series
RecordingExists == recording # None => recording \in series
AskedBefore ==
  \A c \in Clients, f \in Families, l \in Labels :
    asked[c][f][l] # Never => stamp[f][l] # Never /\ asked[c][f][l] <= stamp[f][l]
StampedBefore == \A f \in Families, l \in Labels : stamp[f][l] <= clock
ExpositionInv ==
  Typed /\ FreshExists /\ RecordingExists /\ AskedBefore /\ StampedBefore /\ FreshShown
=============================================================================
