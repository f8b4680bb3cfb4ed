------------------------------ MODULE Dispatch ------------------------------
(***************************************************************************)
(* Setting up the configured metrics (the loop of App::App) while messages *)
(* already arrive (MosquittoClient::onMessage in the mosquitto thread).    *)
(*                                                                         *)
(* Main visits the configuration entries in order: subscribe to the topic  *)
(* filter, connect a slot to the subscription's signal, create the metric  *)
(* family, put it into App::_metrics.  The worker walks the vector of      *)
(* subscriptions, in each matching one the vector of slots, and each slot  *)
(* records the sample in the families that match.  Only App::_metrics has  *)
(* a lock; both vectors are walked while main may push into them.          *)
(*                                                                         *)
(* Payloads are left out: a message is its topic.  What the store does     *)
(* with a sample is MetricStore's subject: here a sample is counted.       *)
(***************************************************************************)
EXTENDS Integers, Sequences, FiniteSets

CONSTANTS
  Config,       \* App::Configuration::metrics, a sequence of [topic, name]
  Topics,       \* topics of the messages that arrive
  Matching,     \* mosquitto_topic_matches_sub: topic filter -> the topics it matches
  Failing,      \* ... topic filter -> the topics it is rejected for (a malformed filter)
  MaybeSummary, \* entries whose type may be one without a metric class (OpenMetric::Type::summary)
  MaxMessages   \* bound: messages delivered

Entries == DOMAIN Config
Filters == {Config[e].topic : e \in Entries}
Names   == {Config[e].name : e \in Entries}

ASSUME DispatchAssumption ==
  /\ Config \in Seq([topic : Filters, name : Names])
  /\ Matching \in [Filters -> SUBSET Topics]
  /\ Failing \in [Filters -> SUBSET Topics]
  /\ \A f \in Filters : Matching[f] \cap Failing[f] = {}
  /\ MaybeSummary \subseteq Entries /\ MaxMessages \in Nat

VARIABLES
  process,    \* "up"; "aborted": uncaught exception; "corrupt": undefined behaviour
  main, entry,\* the set-up loop: its position and the index of the entry
  requested,  \* filters the broker holds a subscription for
  subs,       \* MosquittoClient::_subscriptions (App keeps every one alive)
  slots,      \* filter -> m_functions of that subscription's signal
  metrics,    \* App::_metrics: filter -> the entry its family was created from
  worker,     \* position of the mosquitto thread in onMessage
  topic,      \* topic of the message
  sub, slot,  \* the two loops' iterators
  sent,       \* number of messages delivered, at most MaxMessages
  recorded,   \* history: samples this message recorded per entry's family
  ready       \* history: entries already set up when the message arrived

mainVars   == <<main, entry, requested, subs, slots, metrics>>
workerVars == <<worker, topic, sub, slot, sent, recorded, ready>>
vars == <<process, mainVars, workerVars>>

(***************************************************************************)
(* A std::vector: its elements, the number of times its buffer has moved,  *)
(* and whether it is just being moved.  An iterator is a position, the end *)
(* the loop has read, and the buffer both point into.                      *)
(***************************************************************************)
Vector   == [elems |-> <<>>, moved |-> 0, moving |-> FALSE]
Iterator == [pos |-> 1, end |-> 0, buffer |-> 0]

\* libstdc++ doubles the capacity: 0, 1, 2, 4, ...
Full(v) == Len(v.elems) = 0 \/ \E k \in 0 .. Len(v.elems) : Len(v.elems) = 2 ^ k

Push(v, x) == [elems |-> Append(v.elems, x), moved |-> IF v.moving THEN v.moved + 1 ELSE v.moved, moving |-> FALSE]
Begin(v)   == [pos |-> 1, end |-> 0, buffer |-> v.moved]
End(it, v) == [it EXCEPT !.end = Len(v.elems)]
More(it)   == it.pos <= it.end
Advance(it) == [it EXCEPT !.pos = @ + 1]
Dangling(it, v) == v.moving \/ it.buffer # v.moved

Init ==
  /\ process = "up"
  /\ main = "search" /\ entry = 1
  /\ requested = {} /\ subs = Vector /\ slots = [f \in Filters |-> Vector] /\ metrics = <<>>
  /\ worker = "idle" /\ topic \in Topics /\ sub = Iterator /\ slot = Iterator /\ sent = 0
  /\ recorded = [e \in Entries |-> 0] /\ ready = {}

-----------------------------------------------------------------------------
(* Main: the loop over config.metrics *)

Filter == Config[entry].topic
Goto(from, to) == main = from /\ main' = to
InSetup == process = "up" /\ entry \in Entries

\* MosquittoClient::subscribe: a live subscription to this topic is reused ...
FindSubscription ==
  /\ InSetup /\ \E i \in DOMAIN subs.elems : subs.elems[i] = Filter
  /\ Goto("search", "connect")
  /\ UNCHANGED <<process, entry, requested, subs, slots, metrics, workerVars>>

\* ... otherwise mosquitto_subscribe, which rejects a malformed filter and may fail
\* for any other; the error code is dropped ...
Subscribe ==
  /\ InSetup /\ \A i \in DOMAIN subs.elems : subs.elems[i] # Filter
  /\ Goto("search", "push")
  /\ \/ Failing[Filter] = {} /\ requested' = requested \cup {Filter}
     \/ UNCHANGED requested
  /\ UNCHANGED <<process, entry, subs, slots, metrics, workerVars>>

\* ... and _subscriptions.push_back, which first moves the elements when it is full.
MoveSubscriptions ==
  /\ InSetup /\ main = "push" /\ Full(subs) /\ ~subs.moving
  /\ subs' = [subs EXCEPT !.moving = TRUE]
  /\ UNCHANGED <<process, main, entry, requested, slots, metrics, workerVars>>
PushSubscription ==
  /\ InSetup /\ (Full(subs) => subs.moving)
  /\ Goto("push", "connect")
  /\ subs' = Push(subs, Filter)
  /\ UNCHANGED <<process, entry, requested, slots, metrics, workerVars>>

\* subscription->onArrived.connect: push_back into the signal's m_functions, likewise.
MoveSlots ==
  /\ InSetup /\ main = "connect" /\ Full(slots[Filter]) /\ ~slots[Filter].moving
  /\ slots' = [slots EXCEPT ![Filter].moving = TRUE]
  /\ UNCHANGED <<process, main, entry, requested, subs, metrics, workerVars>>
ConnectSlot ==
  /\ InSetup /\ (Full(slots[Filter]) => slots[Filter].moving)
  /\ Goto("connect", "create")
  /\ slots' = [slots EXCEPT ![Filter] = Push(@, Config[entry].name)]
  /\ UNCHANGED <<process, entry, requested, subs, metrics, workerVars>>

\* IMetricFamily::create: a type without a class throws std::runtime_error, which
\* none of main's handlers catches.  An entry's type is looked at here only, so that
\* choosing it now covers every configuration of types.
CreateThrows ==
  /\ InSetup /\ main = "create" /\ entry \in MaybeSummary
  /\ process' = "aborted"
  /\ UNCHANGED <<mainVars, workerVars>>

\* Mutant: the map keyed by name.
Emplace_ByName ==
  /\ InSetup /\ Goto("create", "search") /\ entry' = entry + 1
  /\ metrics' = [f \in DOMAIN metrics \cup {Config[entry].name} |-> IF f \in DOMAIN metrics THEN metrics[f] ELSE entry]
  /\ UNCHANGED <<process, requested, subs, slots, workerVars>>

\* _metrics->emplace(m.topic, metric) under a unique_lock: a topic filter that is
\* already there keeps its family.
Emplace ==
  /\ InSetup /\ Goto("create", "search") /\ entry' = entry + 1
  /\ metrics' = [f \in DOMAIN metrics \cup {Filter} |-> IF f \in DOMAIN metrics THEN metrics[f] ELSE entry]
  /\ UNCHANGED <<process, requested, subs, slots, workerVars>>

SetupDone == entry = Len(Config) + 1

MainNext ==
  \/ FindSubscription \/ Subscribe \/ MoveSubscriptions \/ PushSubscription
  \/ MoveSlots \/ ConnectSlot \/ CreateThrows \/ Emplace

-----------------------------------------------------------------------------
(* Worker: MosquittoClient::onMessage *)

\* The topic filter of the subscription the outer loop is at.
Notified == subs.elems[sub.pos]

Step(from, to) == process = "up" /\ worker = from /\ worker' = to

\* The broker sends a message of a topic it was asked for; mosquitto_loop calls onMessage.
Deliver ==
  /\ Step("idle", "arrived") /\ sent < MaxMessages /\ sent' = sent + 1
  /\ \E f \in requested : topic' \in Matching[f]
  /\ recorded' = [e \in Entries |-> 0] /\ ready' = 1 .. entry - 1
  /\ UNCHANGED <<process, mainVars, sub, slot>>

\* Mutant: the begin of the range is kept from one message to the next.
WalkSubscriptions_Cached ==
  /\ Step("arrived", "range")
  /\ ~subs.moving
  /\ sub' = Iterator
  /\ UNCHANGED <<process, mainVars, topic, slot, sent, recorded, ready>>

\* for (auto s : subs): reads the range's begin, then its end.
WalkSubscriptions ==
  /\ Step("arrived", "range")
  /\ ~subs.moving
  /\ sub' = Begin(subs)
  /\ UNCHANGED <<process, mainVars, topic, slot, sent, recorded, ready>>
SubscriptionsEnd ==
  /\ Step("range", "subs")
  /\ ~Dangling(sub, subs)
  /\ sub' = End(sub, subs)
  /\ UNCHANGED <<process, mainVars, topic, slot, sent, recorded, ready>>

\* Mutant: a filter the library rejects matches nothing.
MatchFails_False(f) == FALSE
\* matchTopic(f, topic) throws MosquittoException, out of mosquitto's callback.
MatchFails(f) == topic \in Failing[f]

\* matchTopic(s->topic, m.topic); filter_view's ++ reads the vector's end again.
NoMatch ==
  /\ Step("subs", "subs")
  /\ More(sub) /\ ~Dangling(sub, subs) /\ topic \notin Matching[Notified] /\ ~MatchFails(Notified)
  /\ sub' = Advance(sub)
  /\ UNCHANGED <<process, mainVars, topic, slot, sent, recorded, ready>>

\* s->onArrived(m): for_each over m_functions reads its begin, then its end.
WalkSlots ==
  /\ Step("subs", "notify")
  /\ More(sub) /\ ~Dangling(sub, subs) /\ topic \in Matching[Notified]
  /\ ~slots[Notified].moving
  /\ slot' = Begin(slots[Notified])
  /\ UNCHANGED <<process, mainVars, topic, sub, sent, recorded, ready>>
SlotsEnd ==
  /\ Step("notify", "slots")
  /\ ~Dangling(slot, slots[Notified])
  /\ slot' = End(slot, slots[Notified])
  /\ UNCHANGED <<process, mainVars, topic, sub, sent, recorded, ready>>

\* Mutant: the name is not compared.
RecordedBy_AnyName(omName) == {metrics[f] : f \in {g \in DOMAIN metrics : topic \in Matching[g]}}

\* App::messageArrived: the families, copied under a shared_lock, whose filter
\* matches and whose base name is the slot's.
RecordedBy(omName) ==
  {metrics[f] : f \in {g \in DOMAIN metrics : topic \in Matching[g] /\ Config[metrics[g]].name = omName}}

CallSlot ==
  /\ Step("slots", "slots")
  /\ More(slot) /\ ~Dangling(slot, slots[Notified]) /\ \A f \in DOMAIN metrics : ~MatchFails(f)
  /\ slot' = Advance(slot)
  /\ LET hit == RecordedBy(slots[Notified].elems[slot.pos]) IN
       recorded' = [e \in Entries |-> IF e \in hit THEN recorded[e] + 1 ELSE recorded[e]]
  /\ UNCHANGED <<process, mainVars, topic, sub, sent, ready>>

SlotsDone ==
  /\ Step("slots", "subs")
  /\ ~More(slot) /\ ~Dangling(sub, subs)
  /\ sub' = Advance(sub) /\ slot' = Iterator
  /\ UNCHANGED <<process, mainVars, topic, sent, recorded, ready>>

MessageDone ==
  /\ Step("subs", "done")
  /\ ~More(sub)
  /\ sub' = Iterator
  /\ UNCHANGED <<process, mainVars, topic, slot, sent, recorded, ready>>
Return ==
  /\ Step("done", "idle")
  /\ recorded' = [e \in Entries |-> 0] /\ ready' = {}
  /\ UNCHANGED <<process, mainVars, topic, sub, slot, sent>>

\* A malformed filter, of the subscription the loop is at or of any family: nothing
\* catches the exception in the mosquitto thread.
MatchThrows ==
  /\ process = "up" /\ process' = "aborted"
  /\ \/ worker = "subs" /\ More(sub) /\ ~Dangling(sub, subs) /\ MatchFails(Notified)
     \/ /\ worker = "slots" /\ More(slot) /\ ~Dangling(slot, slots[Notified])
        /\ \E f \in DOMAIN metrics : MatchFails(f)
  /\ UNCHANGED <<mainVars, workerVars>>

\* A vector read while its elements move, or an iterator into a buffer that is gone.
UseDangling ==
  /\ process = "up" /\ process' = "corrupt"
  /\ \/ worker = "arrived" /\ subs.moving
     \/ worker = "range" /\ Dangling(sub, subs)
     \/ worker = "subs" /\ More(sub) /\ Dangling(sub, subs)
     \/ worker = "subs" /\ More(sub) /\ topic \in Matching[Notified] /\ slots[Notified].moving
     \/ worker = "notify" /\ Dangling(slot, slots[Notified])
     \/ worker = "slots" /\ More(slot) /\ Dangling(slot, slots[Notified])
     \/ worker = "slots" /\ ~More(slot) /\ Dangling(sub, subs)
  /\ UNCHANGED <<mainVars, workerVars>>

WorkerNext ==
  \/ Deliver \/ WalkSubscriptions \/ SubscriptionsEnd \/ NoMatch \/ WalkSlots \/ SlotsEnd
  \/ CallSlot \/ SlotsDone \/ MessageDone \/ Return \/ MatchThrows \/ UseDangling

Next == MainNext \/ WorkerNext
Spec == Init /\ [][Next]_vars

-----------------------------------------------------------------------------
(* Properties *)

\* Type invariant, with the outer iterator's place in the vector.
VectorOf(S)  == [elems : Seq(S), moved : Nat, moving : BOOLEAN]
IteratorType == [pos : Nat \ {0}, end : Nat, buffer : Nat]
TypeOK ==
  /\ process \in {"up", "aborted", "corrupt"}
  /\ main \in {"search", "push", "connect", "create"} /\ entry \in 1 .. Len(Config) + 1
  /\ requested \subseteq Filters
  /\ subs \in VectorOf(Filters) /\ slots \in [Filters -> VectorOf(Names)]
  /\ DOMAIN metrics \subseteq Filters /\ \A f \in DOMAIN metrics : metrics[f] \in Entries
  /\ worker \in {"idle", "arrived", "range", "subs", "notify", "slots", "done"}
  /\ topic \in Topics /\ sub \in IteratorType /\ slot \in IteratorType /\ sent \in 0 .. MaxMessages
  /\ worker \in {"subs", "notify", "slots"} => sub.end <= Len(subs.elems)
  /\ worker \in {"notify", "slots"} => sub.pos <= sub.end
  /\ recorded \in [Entries -> Nat] /\ ready \subseteq Entries

\* A message the exporter has finished with was counted exactly once by every
\* matching family that was set up before it arrived, and at most once by one that
\* was being set up meanwhile: overlapping topic filters and entries sharing a
\* filter neither lose it nor count it twice (names are unique to their entry).
Exported(e) == Config[e].topic \in DOMAIN metrics /\ metrics[Config[e].topic] = e
Concerned(e) == Exported(e) /\ topic \in Matching[Config[e].topic]
NameIsUnique(e) == \A d \in Entries : Config[d].name = Config[e].name => d = e
CountedOnce ==
  worker = "done" => \A e \in Entries :
    /\ e \in ready /\ Concerned(e) => recorded[e] >= 1
    /\ NameIsUnique(e) => recorded[e] <= 1
    /\ ~Concerned(e) => recorded[e] = 0

\* The unlocked vectors are only unsafe while App::App still fills them: a message
\* that arrives once the last entry is set up never meets a moved buffer.
SafeOnceSetUp == process = "corrupt" => ready # Entries

\* A malformed filter is not found out when its entry is set up but by the first
\* message it is compared with (MosquittoClient.cpp:192): none of the messages it is
\* rejected for, whichever metric they are for, is handled to the end any more; and
\* but for a type without a class nothing else ends the process.
MalformedFilterFatal ==
  /\ worker = "done" => \A e \in ready : topic \notin Failing[Config[e].topic]
  /\ process = "aborted" =>
       \/ main = "create" /\ entry \in MaybeSummary
       \/ \E i \in DOMAIN subs.elems : topic \in Failing[subs.elems[i]]

\* What mqtt-exporter.yml asks for: every entry under "metrics" is exported.
EveryEntryExported == SetupDone => \A e \in Entries : Exported(e)
=============================================================================
