--------------------------- MODULE Publish_proofs ---------------------------
(* Proofs about Publish, for any number of messages and of message ids. *)
EXTENDS Publish, TLAPS

-----------------------------------------------------------------------------
(* The inductive invariant *)

\* Behind all properties: an entry is filed under its message's id, which is on its way or
\* was acknowledged too early; ids on the wire are distinct until one is reused; and a
\* ticket whose message is still to be acknowledged is in the map.  No message is both on its way and acknowledged.
Sent(m) == caller[m] \in {"sent", "returned"}
NotBoth       == onWire \cap acked = {}
EntriesFiled  == \A i \in Mids : tickets[i] # None => caller[tickets[i]] = "returned" /\ mid[tickets[i]] = i
SentAccounted == \A m \in Messages : (Sent(m) => m \in onWire \cup acked) /\ (m \in onWire \cup acked => mid[m] \in Mids /\ caller[m] # "new")
EntriesLive   == \A i \in Mids : tickets[i] # None => tickets[i] \in onWire \cup early
EarlyNoted    == \A m \in acked : caller[m] = "sent" => m \in early
DistinctMids  == reused = {} => \A m, n \in onWire : mid[m] = mid[n] => m = n
TicketWaits   ==
  reused = {} => \A m \in Messages : caller[m] = "returned" /\ m \notin acked => tickets[mid[m]] = m
PublishInv ==
  /\ TypeOK /\ NotBoth /\ EntriesFiled /\ EntriesLive /\ SentAccounted /\ EarlyNoted /\ DistinctMids /\ TicketWaits
  /\ TicketMissedOnlyIfEarly

\* The library's ids stay in range.
LEMMA MidInRange == lastMid \in 0 .. MaxMid => NextMid \in Mids
<1> SUFFICES ASSUME lastMid \in 0 .. MaxMid PROVE NextMid \in Mids
  OBVIOUS
<1>1. lastMid % MaxMid \in 0 .. (MaxMid - 1)
  BY PublishAssumption
<1> QED
  BY <1>1, PublishAssumption DEF NextMid, Mids

\* The invariant holds at first.
LEMMA InitInv == Init => PublishInv
BY PublishAssumption
   DEF Init, PublishInv, TypeOK, Mids, NotBoth, EntriesFiled, EntriesLive, SentAccounted, Sent, EarlyNoted, DistinctMids,
       TicketWaits, TicketMissedOnlyIfEarly

\* Every step of every caller and of the worker preserves the invariant.
LEMMA StepInv == PublishInv /\ [Next]_vars => PublishInv'
<1> SUFFICES ASSUME PublishInv, [Next]_vars PROVE PublishInv'
  OBVIOUS
<1> USE PublishAssumption, MidInRange
    DEF PublishInv, TypeOK, NotBoth, EntriesFiled, EntriesLive, SentAccounted, Sent, EarlyNoted, DistinctMids,
        TicketWaits, TicketMissedOnlyIfEarly, Move, Mids
<1>1. ASSUME NEW m \in Messages, Send(m) PROVE PublishInv'
  <2>1. TypeOK' /\ NotBoth' /\ EntriesFiled' /\ EntriesLive' /\ EarlyNoted'
    BY <1>1 DEF Send
  <2>2. SentAccounted'
    BY <1>1 DEF Send
  <2>3. DistinctMids'
    BY <1>1 DEF Send
  <2>4. TicketWaits'
    BY <1>1 DEF Send
  <2>5. TicketMissedOnlyIfEarly'
    BY <1>1 DEF Send
  <2> QED
    BY <2>1, <2>2, <2>3, <2>4, <2>5
<1>2. ASSUME NEW m \in Messages, SendFails(m) PROVE PublishInv'
  BY <1>2 DEF SendFails
<1>3. ASSUME NEW m \in Messages, Register(m) PROVE PublishInv'
  BY <1>3 DEF Register
<1>4. ASSUME NEW m \in Messages, Duplicate(m) PROVE PublishInv'
  BY <1>4 DEF Duplicate
<1>5. ASSUME NEW m \in Messages, Drop(m) PROVE PublishInv'
  BY <1>5 DEF Drop
<1>6. ASSUME NEW m \in Messages, Puback(m) PROVE PublishInv'
  BY <1>6 DEF Puback, OnPublished
<1>7. CASE UNCHANGED vars
  BY <1>7 DEF vars
<1> QED
  BY <1>1, <1>2, <1>3, <1>4, <1>5, <1>6, <1>7 DEF Next

\* PublishInv holds in every reachable state, for 65535 ids as for two.
THEOREM PublishInvariant == Spec => []PublishInv
BY InitInv, StepInv, PTL DEF Spec

\* A PUBACK triggers the ticket filed under its id.  Its message has that id, and is the one
\* acknowledged unless the entry was stale or the id in use twice.
LEMMA PubackTriggers ==
  ASSUME PublishInv, NEW n \in Messages, Puback(n), NEW m \in triggered' \ triggered
  PROVE  n \in acked' \ acked /\ mid[n] = mid[m] /\ (n = m \/ m \in early \/ reused # {})
<1>1. n \in onWire /\ n \in acked' \ acked
  BY DEF Puback, PublishInv, NotBoth
<1>2. mid[n] \in Mids /\ m = tickets[mid[n]] /\ m # None
  BY <1>1, PublishAssumption DEF Puback, OnPublished, PublishInv, TypeOK, SentAccounted
<1>3. mid[m] = mid[n] /\ m \in onWire \cup early
  BY <1>2 DEF PublishInv, EntriesFiled, EntriesLive
<1> QED
  BY <1>1, <1>3 DEF PublishInv, DistinctMids

\* A ticket is triggered by a PUBACK for its message's id, and by one that answers another
\* message only if its own overtook the registration or an id was given out twice.
THEOREM TicketSafety == Spec => TriggeredByOwnAck
<1> DEFINE ByOwnAck == \A m \in triggered' \ triggered : \E n \in acked' \ acked :
                         mid[n] = mid[m] /\ (n = m \/ m \in early \/ reused # {})
<1>1. ASSUME PublishInv, Next PROVE ByOwnAck
  <2>1. PICK n \in Messages : Send(n) \/ SendFails(n) \/ Register(n) \/ Duplicate(n) \/ Drop(n) \/ Puback(n)
    BY <1>1 DEF Next
  <2>2. CASE Puback(n)
    BY <1>1, <2>2, PubackTriggers
  <2>3. CASE triggered' = triggered
    BY <2>3
  <2> QED
    BY <2>1, <2>2, <2>3 DEF Send, SendFails, Register, Duplicate, Drop
<1>2. PublishInv /\ [Next]_vars => [ByOwnAck]_vars
  BY <1>1
<1> QED
  BY PublishInvariant, <1>2, PTL DEF Spec, TriggeredByOwnAck

\* A ticket that is waited on misses its acknowledgement in the two named ways only.
THEOREM TicketMissed == Spec => []TicketMissedOnlyIfEarly
<1>1. PublishInv => TicketMissedOnlyIfEarly
  BY DEF PublishInv
<1> QED
  BY PublishInvariant, <1>1, PTL

\* Type correctness.
THEOREM TypeCorrect == Spec => []TypeOK
<1>1. PublishInv => TypeOK
  BY DEF PublishInv
<1> QED
  BY PublishInvariant, <1>1, PTL

\* A duplicate is reported for an id that is on its way or was acknowledged too early.
THEOREM Duplicates == Spec => DuplicateExplained
<1> DEFINE Explained(m) == Duplicate(m) => \E n \in (onWire \cup early) \ {m} : mid[n] = mid[m]
<1>1. ASSUME PublishInv, NEW m \in Messages PROVE Explained(m)
  <2> SUFFICES ASSUME Duplicate(m) PROVE \E n \in (onWire \cup early) \ {m} : mid[n] = mid[m]
    OBVIOUS
  <2> DEFINE n == tickets[mid[m]]
  <2>1. caller[m] = "sent" /\ n # None
    BY DEF Duplicate, Move
  <2>2. mid[m] \in Mids
    BY <1>1, <2>1 DEF PublishInv, SentAccounted, Sent
  <2>3. n \in onWire \cup early /\ caller[n] = "returned" /\ mid[n] = mid[m]
    BY <1>1, <2>1, <2>2 DEF PublishInv, EntriesLive, EntriesFiled
  <2> QED
    BY <2>1, <2>3
<1>2. PublishInv /\ [Next]_vars => [\A m \in Messages : Explained(m)]_vars
  BY <1>1
<1> QED
  BY PublishInvariant, <1>2, PTL DEF Spec, DuplicateExplained
=============================================================================
