------------------------------ MODULE Publish ------------------------------
(***************************************************************************)
(* MosquittoClient::publish and the tickets it returns: _messageTickets    *)
(* maps message ids to the tickets of messages on their way, until the     *)
(* worker's onPublished, called for the broker's PUBACK, triggers them.    *)
(*                                                                         *)
(* libmosquitto is external: it numbers messages 1, 2, ..., MaxMid, 1, ... *)
(* (65535 is the last 16-bit id), keeps one until it is acknowledged, and  *)
(* may call onPublished before publish() has taken the lock.               *)
(***************************************************************************)
EXTENDS Integers, FiniteSets

CONSTANTS
  Messages,  \* the calls of publish(), each by a thread of its own
  MaxMid,    \* the last message id
  None       \* "no message"

ASSUME PublishAssumption == MaxMid \in Nat \ {0} /\ None \notin Messages

Mids == 1 .. MaxMid

VARIABLES
  lastMid,   \* library: the id given last, 0 at first
  mid,       \* message -> its id, 0 before it has one
  onWire,    \* library: messages sent and not yet acknowledged
  acked,     \* messages acknowledged
  caller,    \* message -> "new", "sent", "returned", "threw"
  held,      \* messages whose ticket the caller still shares
  tickets,   \* _messageTickets: id -> the message its weak_ptr's ticket is for
  triggered, \* messages whose ticket was triggered
  early,     \* history: messages acknowledged while publish() had not yet registered them
  reused     \* history: messages given the id of another one that was on the wire

vars == <<lastMid, mid, onWire, acked, caller, held, tickets, triggered, early, reused>>

Init ==
  /\ lastMid = 0 /\ mid = [m \in Messages |-> 0]
  /\ onWire = {} /\ acked = {} /\ early = {} /\ reused = {}
  /\ caller = [m \in Messages |-> "new"] /\ held = {}
  /\ tickets = [i \in Mids |-> None] /\ triggered = {}

Move(m, from, to) == caller[m] = from /\ caller' = [caller EXCEPT ![m] = to]

\* Mutant: the id does not wrap.
NextMid_NoWrap == lastMid + 1
NextMid == (lastMid % MaxMid) + 1

\* mosquitto_publish with QoS 1 ...
Send(m) ==
  /\ Move(m, "new", "sent")
  /\ lastMid' = NextMid /\ mid' = [mid EXCEPT ![m] = NextMid]
  /\ onWire' = onWire \cup {m}
  /\ reused' = IF \E n \in onWire : mid[n] = NextMid THEN reused \cup {m} ELSE reused
  /\ UNCHANGED <<acked, held, tickets, triggered, early>>
\* ... or an error, and ClientError.
SendFails(m) ==
  /\ Move(m, "new", "threw")
  /\ UNCHANGED <<lastMid, mid, onWire, acked, held, tickets, triggered, early, reused>>

\* Mutant: the id of the message sent last, not that of this call's.
Register_SharedMid(m) ==
  /\ Move(m, "sent", "returned") /\ tickets[lastMid] = None
  /\ tickets' = [tickets EXCEPT ![lastMid] = m] /\ held' = held \cup {m}
  /\ UNCHANGED <<lastMid, mid, onWire, acked, triggered, early, reused>>

\* Under _messageTicketsMutex: the ticket is registered and returned ...
Register(m) ==
  /\ Move(m, "sent", "returned") /\ tickets[mid[m]] = None
  /\ tickets' = [tickets EXCEPT ![mid[m]] = m] /\ held' = held \cup {m}
  /\ UNCHANGED <<lastMid, mid, onWire, acked, triggered, early, reused>>
\* ... unless the id has an entry: "Generated a duplicate messageId".
Duplicate(m) ==
  /\ Move(m, "sent", "threw") /\ tickets[mid[m]] # None
  /\ UNCHANGED <<lastMid, mid, onWire, acked, held, tickets, triggered, early, reused>>

\* The caller lets go of its ticket.
Drop(m) ==
  /\ m \in held /\ held' = held \ {m}
  /\ UNCHANGED <<lastMid, mid, onWire, acked, caller, tickets, triggered, early, reused>>

\* Mutant: the entry is erased before its ticket is read.
OnPublished_EraseFirst(i) == tickets' = [tickets EXCEPT ![i] = None] /\ UNCHANGED triggered

\* Mutant: the entry of a ticket nobody holds is left in the map.
OnPublished_KeepDropped(i) ==
  IF tickets[i] \in held
    THEN tickets' = [tickets EXCEPT ![i] = None] /\ triggered' = triggered \cup {tickets[i]}
    ELSE UNCHANGED <<tickets, triggered>>

\* onPublished, under the mutex: an unknown id is ignored, a known one's entry is
\* erased and its ticket triggered if the caller still shares it.
OnPublished(i) ==
  /\ tickets' = [tickets EXCEPT ![i] = None]
  /\ triggered' = IF tickets[i] \in held THEN triggered \cup {tickets[i]} ELSE triggered

\* PUBACK
Puback(m) ==
  /\ m \in onWire /\ onWire' = onWire \ {m} /\ acked' = acked \cup {m}
  /\ OnPublished(mid[m])
  /\ early' = IF caller[m] = "sent" THEN early \cup {m} ELSE early
  /\ UNCHANGED <<lastMid, mid, caller, held, reused>>

Next == \E m \in Messages :
  Send(m) \/ SendFails(m) \/ Register(m) \/ Duplicate(m) \/ Drop(m) \/ Puback(m)
Spec == Init /\ [][Next]_vars
-----------------------------------------------------------------------------
(* Properties *)

\* Type invariant.
TypeOK ==
  /\ lastMid \in 0 .. MaxMid /\ mid \in [Messages -> 0 .. MaxMid]
  /\ onWire \subseteq Messages /\ acked \subseteq Messages /\ held \subseteq Messages
  /\ caller \in [Messages -> {"new", "sent", "returned", "threw"}]
  /\ tickets \in [Mids -> Messages \cup {None}]
  /\ triggered \subseteq Messages /\ early \subseteq Messages /\ reused \subseteq Messages

\* A ticket is triggered by a PUBACK for its message's id, and by one that answers another
\* message in two cases only: its own PUBACK overtook the registration, so that its entry
\* waited for the id to come round (MosquittoClient.cpp:102-112, 156-165), or an id was given out
\* twice.  The caller that is told its message arrived has then been told by another's.
TriggeredByOwnAck ==
  [][\A m \in triggered' \ triggered : \E n \in acked' \ acked :
       mid[n] = mid[m] /\ (n = m \/ m \in early \/ reused # {})]_vars

\* A ticket the caller waits on misses the acknowledgement of its message in two
\* ways only: the PUBACK overtook the registration, or an id was given out twice.
TicketMissedOnlyIfEarly ==
  \A m \in acked \cap held :
    caller[m] = "returned" /\ m \notin triggered => m \in early \/ reused # {}

\* publish() throws "Generated a duplicate messageId that is currently on-the-fly"
\* only for the id of another message that is on its way, or of one whose PUBACK
\* overtook its registration: onPublished ignored that, and nothing erases the entry
\* publish() then filed (MosquittoClient.cpp:106-112, 156-162).
DuplicateExplained ==
  [][\A m \in Messages : Duplicate(m) => \E n \in (onWire \cup early) \ {m} : mid[n] = mid[m]]_vars
=============================================================================
