--------------------------- MODULE Dispatch_proofs ---------------------------
(* Proofs about Dispatch, for every configuration and any number of messages. *)
EXTENDS Dispatch, TLAPS

-----------------------------------------------------------------------------
(* The inductive invariants *)

\* Behind SafeOnceSetUp: main moves a vector only while it is
\* setting up an entry, so a message that finds every entry ready reads vectors that
\* stay where they are, and its iterators point into them.
Walking == {"range", "subs", "notify", "slots"}
MovesInSetup ==
  /\ subs.moving => main = "push" /\ entry \in Entries
  /\ \A f \in Filters : slots[f].moving => main = "connect" /\ entry \in Entries /\ f = Filter
ReadyMeansDone == ready = Entries => entry \notin Entries
IteratorsValid ==
  ready = Entries =>
    /\ worker \in Walking => sub.buffer = subs.moved
    /\ worker \in {"notify", "slots"} => slot.buffer = slots[Notified].moved /\ ~slots[Notified].moving
DispatchInv == TypeOK /\ MovesInSetup /\ ReadyMeansDone /\ IteratorsValid /\ SafeOnceSetUp

\* Behind CountedOnce and MalformedFilterFatal.  What main has set
\* up: each filter has one subscription, each entry that is connected one slot at its
\* filter, and every slot and family belongs to such an entry.
ConnectedEntry(e) == e < entry \/ (e = entry /\ main = "create")
SubscribedTo(f) == \E i \in DOMAIN subs.elems : subs.elems[i] = f
SubscribedOnce ==
  /\ \A i, j \in DOMAIN subs.elems : subs.elems[i] = subs.elems[j] => i = j
  /\ \A e \in Entries : e < entry => SubscribedTo(Config[e].topic)
  /\ main # "search" => entry \in Entries /\ (SubscribedTo(Filter) <=> main # "push")
ConnectedOnce ==
  /\ \A e \in Entries : ConnectedEntry(e) =>
       \E k \in DOMAIN slots[Config[e].topic].elems : slots[Config[e].topic].elems[k] = Config[e].name
  /\ \A f \in Filters : \A k \in DOMAIN slots[f].elems :
       \E e \in Entries : ConnectedEntry(e) /\ Config[e].topic = f /\ Config[e].name = slots[f].elems[k]
  /\ \A e \in Entries : NameIsUnique(e) =>
       \A f, g \in Filters : \A k \in DOMAIN slots[f].elems, j \in DOMAIN slots[g].elems :
         slots[f].elems[k] = Config[e].name /\ slots[g].elems[j] = Config[e].name => f = g /\ k = j
MetricsFiled == \A f \in DOMAIN metrics : metrics[f] < entry /\ Config[metrics[f]].topic = f
SetupInv == SubscribedOnce /\ ConnectedOnce /\ MetricsFiled

\* How far the worker's two loops are: the slots behind them and those ahead.
InLoops == worker \in {"subs", "notify", "slots"}
SlotBehind(e) ==
  \E i \in DOMAIN subs.elems : \E k \in DOMAIN slots[subs.elems[i]].elems :
    /\ i < sub.pos \/ (worker = "slots" /\ i = sub.pos /\ k < slot.pos)
    /\ slots[subs.elems[i]].elems[k] = Config[e].name
SlotAhead(e) ==
  \/ \E i \in DOMAIN subs.elems :
       /\ subs.elems[i] = Config[e].topic /\ i <= sub.end
       /\ sub.pos < i \/ (sub.pos = i /\ worker # "slots")
  \/ /\ worker = "slots" /\ Notified = Config[e].topic
     /\ \E k \in DOMAIN slots[Notified].elems :
          slot.pos <= k /\ k <= slot.end /\ slots[Notified].elems[k] = Config[e].name
InsideLoops ==
  /\ (worker = "range" => sub.pos = 1) /\ (worker = "notify" => slot.pos = 1)
  /\ worker \in {"notify", "slots"} => topic \in Matching[Notified]
  /\ worker = "slots" => slot.end <= Len(slots[Notified].elems)
NothingRecorded == worker \in {"arrived", "range"} => \A e \in Entries : recorded[e] = 0
RecordedBehind ==
  InLoops => \A e \in Entries : recorded[e] # 0 =>
    Concerned(e) /\ SlotBehind(e) /\ (NameIsUnique(e) => recorded[e] = 1)
ReadyAhead ==
  /\ \A e \in ready : e < entry
  /\ InLoops => \A e \in ready : Concerned(e) => recorded[e] # 0 \/ SlotAhead(e)
FailingAhead ==
  InLoops => \A e \in ready : topic \in Failing[Config[e].topic] =>
    \E i \in DOMAIN subs.elems : sub.pos <= i /\ i <= sub.end /\ subs.elems[i] = Config[e].topic
WalkInv == InsideLoops /\ NothingRecorded /\ RecordedBehind /\ ReadyAhead /\ FailingAhead
CountingInv == TypeOK /\ SetupInv /\ WalkInv /\ CountedOnce /\ MalformedFilterFatal

\* The entries are numbered from one.
LEMMA EntriesRange == Len(Config) \in Nat /\ Entries = 1 .. Len(Config) /\ \A e \in Entries : Config[e].topic \in Filters /\ Config[e].name \in Names
<1> DEFINE Entry == [topic : Filters, name : Names]
<1>1. Config \in Seq(Entry)
  BY DispatchAssumption
<1> HIDE DEF Entry
<1>2. Len(Config) \in Nat /\ Entries = 1 .. Len(Config)
  BY <1>1 DEF Entries
<1>3. ASSUME NEW e \in Entries PROVE Config[e].topic \in Filters /\ Config[e].name \in Names
  <2>1. Config[e] \in Entry
    BY <1>1, <1>2
  <2> QED
    BY <2>1 DEF Entry
<1> QED
  BY <1>2, <1>3

\* Pushing keeps a vector a vector.
LEMMA PushTyped ==
  ASSUME NEW S, NEW v \in VectorOf(S), NEW x \in S PROVE Push(v, x) \in VectorOf(S)
BY DEF VectorOf, Push

\* Iterators stay iterators.
LEMMA IteratorTyped ==
  /\ Iterator \in IteratorType
  /\ \A S : \A v \in VectorOf(S) : Begin(v) \in IteratorType /\ \A it \in IteratorType : End(it, v) \in IteratorType
  /\ \A it \in IteratorType : Advance(it) \in IteratorType
BY DEF Iterator, IteratorType, VectorOf, Begin, End, Advance

\* The worker's outer loop is inside the vector of subscriptions ...
AtSubscription == worker \in {"notify", "slots"} \/ (worker = "subs" /\ More(sub))
LEMMA InRange == TypeOK /\ AtSubscription => sub.pos \in DOMAIN subs.elems
<1> SUFFICES ASSUME TypeOK, AtSubscription PROVE sub.pos \in DOMAIN subs.elems
  OBVIOUS
<1>1. subs.elems \in Seq(Filters)
  BY DEF TypeOK, VectorOf
<1>2. sub.pos \in Nat \ {0} /\ sub.end \in Nat
  BY DEF TypeOK, IteratorType
<1>3. sub.pos <= sub.end /\ sub.end <= Len(subs.elems)
  BY DEF TypeOK, AtSubscription, More
<1> QED
  BY <1>1, <1>2, <1>3

\* ... and the subscription it stands at is one of the configured filters.
LEMMA NotifiedTyped == TypeOK /\ AtSubscription => Notified \in Filters /\ slots[Notified] \in VectorOf(Names)
<1> SUFFICES ASSUME TypeOK, AtSubscription PROVE Notified \in Filters /\ slots[Notified] \in VectorOf(Names)
  OBVIOUS
<1>1. subs.elems \in Seq(Filters) /\ slots \in [Filters -> VectorOf(Names)]
  BY DEF TypeOK, VectorOf
<1> QED
  BY <1>1, InRange DEF Notified

\* The initial state is typed ...
LEMMA InitTyped == Init => TypeOK
BY DispatchAssumption, EntriesRange
   DEF Init, TypeOK, VectorOf, IteratorType, Vector, Iterator

\* ... and every step keeps it so.
LEMMA TypeStep == TypeOK /\ [Next]_vars => TypeOK'
<1> SUFFICES ASSUME TypeOK, [Next]_vars PROVE TypeOK'
  OBVIOUS
<1> USE DispatchAssumption, EntriesRange
    DEF TypeOK, Goto, Step, InSetup, Filter, mainVars, workerVars
<1>1. CASE FindSubscription
  BY <1>1 DEF FindSubscription
<1>2. CASE Subscribe
  BY <1>2 DEF Subscribe
<1>3. CASE MoveSubscriptions
  BY <1>3 DEF MoveSubscriptions, VectorOf
<1>4. CASE PushSubscription
  <2>1. subs' \in VectorOf(Filters)
    BY <1>4, PushTyped DEF PushSubscription
  <2>2. sub.end <= Len(subs.elems) => sub.end <= Len(subs'.elems)
    BY <1>4 DEF PushSubscription, Push, VectorOf, IteratorType
  <2> QED
    BY <1>4, <2>1, <2>2 DEF PushSubscription
<1>5. CASE MoveSlots
  BY <1>5 DEF MoveSlots, VectorOf
<1>6. CASE ConnectSlot
  BY <1>6, PushTyped DEF ConnectSlot
<1>7. CASE CreateThrows
  BY <1>7 DEF CreateThrows
<1>8. CASE Emplace
  BY <1>8 DEF Emplace
<1>9. CASE Deliver
  BY <1>9 DEF Deliver
<1>10. CASE WalkSubscriptions
  <2>1. sub' \in IteratorType
    BY <1>10, IteratorTyped DEF WalkSubscriptions
  <2> QED
    BY <1>10, <2>1 DEF WalkSubscriptions
<1>11. CASE SubscriptionsEnd
  <2>1. sub' \in IteratorType
    BY <1>11, IteratorTyped DEF SubscriptionsEnd
  <2>2. sub'.end <= Len(subs.elems)
    BY <1>11 DEF SubscriptionsEnd, End, Advance, IteratorType, VectorOf
  <2> QED
    BY <1>11, <2>1, <2>2 DEF SubscriptionsEnd
<1>12. CASE NoMatch
  <2>1. sub' \in IteratorType
    BY <1>12, IteratorTyped DEF NoMatch
  <2>2. sub'.end <= Len(subs.elems)
    BY <1>12 DEF NoMatch, End, Advance, IteratorType, VectorOf
  <2> QED
    BY <1>12, <2>1, <2>2 DEF NoMatch
<1>13. CASE WalkSlots
  <2>1. slot' \in IteratorType
    BY <1>13, IteratorTyped, NotifiedTyped DEF AtSubscription, WalkSlots
  <2> QED
    BY <1>13, <2>1 DEF WalkSlots, More
<1>14. CASE SlotsEnd
  <2>1. slot' \in IteratorType
    BY <1>14, IteratorTyped, NotifiedTyped DEF AtSubscription, SlotsEnd
  <2> QED
    BY <1>14, <2>1 DEF SlotsEnd
<1>15. CASE CallSlot
  <2>1. slot' \in IteratorType
    BY <1>15, IteratorTyped DEF CallSlot
  <2>2. recorded' \in [Entries -> Nat]
    BY <1>15 DEF CallSlot
  <2> QED
    BY <1>15, <2>1, <2>2 DEF CallSlot
<1>16. CASE SlotsDone
  <2>1. sub' \in IteratorType /\ slot' \in IteratorType
    BY <1>16, IteratorTyped DEF SlotsDone
  <2>2. sub'.end <= Len(subs.elems)
    BY <1>16 DEF SlotsDone, End, Advance, IteratorType, VectorOf
  <2> QED
    BY <1>16, <2>1, <2>2 DEF SlotsDone
<1>17. CASE MessageDone
  <2>1. sub' \in IteratorType
    BY <1>17, IteratorTyped DEF MessageDone
  <2> QED
    BY <1>17, <2>1 DEF MessageDone
<1>18. CASE Return
  BY <1>18 DEF Return
<1>19. CASE UseDangling
  BY <1>19 DEF UseDangling
<1>20. CASE UNCHANGED vars
  BY <1>20 DEF vars
<1>21. CASE MatchThrows
  BY <1>21 DEF MatchThrows
<1> QED
  BY <1>21, <1>1, <1>2, <1>3, <1>4, <1>5, <1>6, <1>7, <1>8, <1>9, <1>10, <1>11, <1>12, <1>13, <1>14, <1>15, <1>16, <1>17, <1>18, <1>19, <1>20 DEF Next, MainNext, WorkerNext

\* Every reachable state is typed, for every configuration.
THEOREM Typing == Spec => []TypeOK
BY InitTyped, TypeStep, PTL DEF Spec

\* No step makes a message that arrived after the set-up meet a moved buffer.
SafeParts == MovesInSetup /\ ReadyMeansDone /\ IteratorsValid /\ SafeOnceSetUp
LEMMA SafeStep == DispatchInv /\ [Next]_vars => SafeParts'
<1> SUFFICES ASSUME TypeOK, SafeParts, [Next]_vars PROVE SafeParts'
  BY DEF DispatchInv, SafeParts
<1> USE DEF SafeParts, MovesInSetup, ReadyMeansDone, IteratorsValid, SafeOnceSetUp, Walking,
        Goto, Step, InSetup, Filter, Notified, mainVars, workerVars
<1>0. sub \in IteratorType /\ slot \in IteratorType
  BY DEF TypeOK
<1>1. CASE FindSubscription
  BY <1>1 DEF FindSubscription
<1>2. CASE Subscribe
  BY <1>2 DEF Subscribe
<1>3. CASE MoveSubscriptions
  BY <1>3 DEF MoveSubscriptions, TypeOK, VectorOf
<1>4. CASE PushSubscription
  BY <1>4 DEF PushSubscription, Push, TypeOK, VectorOf
<1>5. CASE MoveSlots
  BY <1>5 DEF MoveSlots, Filter, TypeOK, VectorOf
<1>6. CASE ConnectSlot
  BY <1>6 DEF ConnectSlot, Push, TypeOK, VectorOf, Filter
<1>7. CASE CreateThrows
  BY <1>7 DEF CreateThrows
<1>8. CASE Emplace
  BY <1>8, EntriesRange DEF Emplace, TypeOK
<1>9. CASE Deliver
  <2>1. entry \in Entries => entry \notin ready'
    BY <1>9, EntriesRange DEF Deliver, TypeOK
  <2> QED
    BY <1>9, <2>1 DEF Deliver
<1>10. CASE WalkSubscriptions
  BY <1>10, <1>0 DEF WalkSubscriptions, Notified, IteratorType, Begin, End, More, Dangling, Advance
<1>11. CASE SubscriptionsEnd
  BY <1>11, <1>0 DEF SubscriptionsEnd, Notified, IteratorType, Begin, End, More, Dangling, Advance
<1>12. CASE NoMatch
  BY <1>12, <1>0 DEF NoMatch, Notified, IteratorType, Begin, End, More, Dangling, Advance
<1>13. CASE WalkSlots
  BY <1>13, <1>0 DEF WalkSlots, Notified, IteratorType, Begin, End, More, Dangling, Advance
<1>14. CASE SlotsEnd
  BY <1>14, <1>0 DEF SlotsEnd, Notified, IteratorType, Begin, End, More, Dangling, Advance
<1>15. CASE CallSlot
  BY <1>15, <1>0 DEF CallSlot, Notified, IteratorType, Begin, End, More, Dangling, Advance
<1>16. CASE SlotsDone
  BY <1>16, <1>0 DEF SlotsDone, Notified, IteratorType, Begin, End, More, Dangling, Advance
<1>17. CASE MessageDone
  BY <1>17, <1>0 DEF MessageDone, Notified, IteratorType, Begin, End, More, Dangling, Advance
<1>18. CASE Return
  BY <1>18, <1>0 DEF Return, Notified, IteratorType, Begin, End, More, Dangling, Advance
<1>19. CASE UseDangling
  BY <1>19, <1>0, NotifiedTyped DEF AtSubscription, UseDangling, Notified, IteratorType, Begin, End, More, Dangling, Advance
<1>20. CASE UNCHANGED vars
  BY <1>20 DEF vars
<1>21. CASE MatchThrows
  BY <1>21 DEF MatchThrows
<1> QED
  BY <1>21, <1>1, <1>2, <1>3, <1>4, <1>5, <1>6, <1>7, <1>8, <1>9, <1>10, <1>11, <1>12, <1>13, <1>14, <1>15, <1>16, <1>17, <1>18, <1>19, <1>20 DEF Next, MainNext, WorkerNext

\* Once every entry is set up, a message never meets a moved buffer: for every
\* configuration, whatever filters and names its entries share.
THEOREM SetupSafety == Spec => []SafeOnceSetUp
<1>1. Init => DispatchInv
  <2> SUFFICES ASSUME Init PROVE DispatchInv
    OBVIOUS
  <2>1. TypeOK
    BY InitTyped
  <2>2. SafeParts
    BY EntriesRange
       DEF Init, SafeParts, MovesInSetup, ReadyMeansDone, IteratorsValid, SafeOnceSetUp, Walking, Vector, Iterator
  <2> QED
    BY <2>1, <2>2 DEF DispatchInv, SafeParts
<1>2. DispatchInv /\ [Next]_vars => DispatchInv'
  BY TypeStep, SafeStep DEF DispatchInv, SafeParts
<1>3. DispatchInv => SafeOnceSetUp
  BY DEF DispatchInv
<1> QED
  BY <1>1, <1>2, <1>3, PTL DEF Spec

-----------------------------------------------------------------------------
(* CountedOnce and MalformedFilterFatal *)

\* Pushing appends: what was there stays where it is.
LEMMA PushAppends ==
  ASSUME NEW S, NEW v \in VectorOf(S), NEW x \in S
  PROVE  /\ Len(v.elems) \in Nat /\ DOMAIN v.elems = 1 .. Len(v.elems)
         /\ DOMAIN Push(v, x).elems = 1 .. Len(v.elems) + 1 /\ Len(Push(v, x).elems) = Len(v.elems) + 1
         /\ \A i \in DOMAIN v.elems : Push(v, x).elems[i] = v.elems[i]
         /\ Push(v, x).elems[Len(v.elems) + 1] = x
BY DEF VectorOf, Push

\* Pushing something new keeps the elements distinct.
LEMMA PushDistinct ==
  ASSUME NEW S, NEW v \in VectorOf(S), NEW x \in S
  PROVE  /\ (\A i \in DOMAIN v.elems : v.elems[i] # x) /\ (\A i, j \in DOMAIN v.elems : v.elems[i] = v.elems[j] => i = j)
              => \A i, j \in DOMAIN Push(v, x).elems : Push(v, x).elems[i] = Push(v, x).elems[j] => i = j
         /\ \A y : (\E i \in DOMAIN Push(v, x).elems : Push(v, x).elems[i] = y) <=> y = x \/ \E i \in DOMAIN v.elems : v.elems[i] = y
<1> DEFINE n == Len(v.elems)
           w == Push(v, x)
<1>1. /\ n \in Nat /\ DOMAIN v.elems = 1 .. n /\ DOMAIN w.elems = 1 .. n + 1
      /\ \A i \in DOMAIN v.elems : w.elems[i] = v.elems[i]
      /\ w.elems[n + 1] = x
  BY PushAppends
<1> HIDE DEF n, w
<1>2. \A i \in DOMAIN w.elems : i \in DOMAIN v.elems \/ i = n + 1
  BY <1>1
<1>3. n + 1 \in DOMAIN w.elems /\ n + 1 \notin DOMAIN v.elems /\ DOMAIN v.elems \subseteq DOMAIN w.elems
  BY <1>1
<1>4. (\A i \in DOMAIN v.elems : v.elems[i] # x) /\ (\A i, j \in DOMAIN v.elems : v.elems[i] = v.elems[j] => i = j)
              => \A i, j \in DOMAIN w.elems : w.elems[i] = w.elems[j] => i = j
  BY <1>1, <1>2
<1>5. \A y : (\E i \in DOMAIN w.elems : w.elems[i] = y) <=> y = x \/ \E i \in DOMAIN v.elems : v.elems[i] = y
  BY <1>1, <1>2, <1>3
<1> QED
  BY <1>4, <1>5 DEF w

\* Main's steps leave the worker alone; they only add to the vectors and to the map,
\* and only the entry they are at.
Longer(v, w) ==
  Len(v.elems) <= Len(w.elems) /\ DOMAIN v.elems \subseteq DOMAIN w.elems /\ \A i \in DOMAIN v.elems : w.elems[i] = v.elems[i]
OnlyAdded ==
  /\ Longer(subs, subs') /\ \A f \in Filters : Longer(slots[f], slots'[f])
  /\ entry <= entry' /\ entry' \in Nat
  /\ \A f \in DOMAIN metrics : f \in DOMAIN metrics' /\ metrics'[f] = metrics[f]
  /\ \A f \in DOMAIN metrics' \ DOMAIN metrics : metrics'[f] = entry
LEMMA MainAdds == TypeOK /\ MainNext => OnlyAdded /\ UNCHANGED workerVars
<1> SUFFICES ASSUME TypeOK, MainNext PROVE OnlyAdded /\ UNCHANGED workerVars
  OBVIOUS
<1> USE EntriesRange DEF TypeOK, Goto, InSetup, Filter, workerVars, OnlyAdded
<1>1. /\ Len(subs.elems) \in Nat /\ DOMAIN subs.elems = 1 .. Len(subs.elems)
      /\ \A f \in Filters : Len(slots[f].elems) \in Nat /\ DOMAIN slots[f].elems = 1 .. Len(slots[f].elems)
  BY DEF VectorOf
<1>2. Longer(subs, subs) /\ \A f \in Filters : Longer(slots[f], slots[f])
  BY <1>1 DEF Longer
<1>3. CASE FindSubscription \/ Subscribe \/ CreateThrows
  BY <1>2, <1>3 DEF FindSubscription, Subscribe, CreateThrows, mainVars
<1>4. CASE MoveSubscriptions
  <2>1. subs'.elems = subs.elems
    BY <1>4 DEF MoveSubscriptions, VectorOf
  <2> QED
    BY <1>2, <1>4, <2>1 DEF MoveSubscriptions, Longer
<1>5. CASE PushSubscription
  <2>1. Longer(subs, subs')
    BY <1>5, PushAppends DEF PushSubscription, Longer
  <2> QED
    BY <1>2, <1>5, <2>1 DEF PushSubscription
<1>6. CASE MoveSlots
  <2>1. \A f \in Filters : slots'[f].elems = slots[f].elems
    BY <1>6 DEF MoveSlots, VectorOf
  <2> QED
    BY <1>2, <1>6, <2>1 DEF MoveSlots, Longer
<1>7. CASE ConnectSlot
  <2>1. slots' = [slots EXCEPT ![Filter] = Push(@, Config[entry].name)]
    BY <1>7 DEF ConnectSlot
  <2>2. Longer(slots[Filter], slots'[Filter])
    BY <1>7, <2>1, PushAppends DEF ConnectSlot, Longer
  <2>3. \A f \in Filters \ {Filter} : slots'[f] = slots[f]
    BY <2>1
  <2>4. \A f \in Filters : Longer(slots[f], slots'[f])
    BY <1>2, <2>2, <2>3
  <2> QED
    BY <1>2, <1>7, <2>4 DEF ConnectSlot
<1>8. CASE Emplace
  BY <1>2, <1>8 DEF Emplace
<1> QED
  BY <1>3, <1>4, <1>5, <1>6, <1>7, <1>8 DEF MainNext

\* ... and the worker's leave main's alone.
LEMMA WorkerAdds == WorkerNext => UNCHANGED mainVars
BY DEF WorkerNext, Deliver, WalkSubscriptions, SubscriptionsEnd, NoMatch, WalkSlots, SlotsEnd, CallSlot,
       SlotsDone, MessageDone, Return, MatchThrows, UseDangling, mainVars

\* Every filter gets one subscription.
LEMMA SubscribedStep == TypeOK /\ SubscribedOnce /\ MainNext => SubscribedOnce'
<1> SUFFICES ASSUME TypeOK, SubscribedOnce, MainNext PROVE SubscribedOnce'
  OBVIOUS
<1> USE EntriesRange DEF TypeOK, Goto, InSetup, Filter, SubscribedOnce, SubscribedTo
<1>1. CASE FindSubscription
  BY <1>1 DEF FindSubscription
<1>2. CASE Subscribe
  BY <1>2 DEF Subscribe
<1>3. CASE MoveSubscriptions
  <2>1. subs'.elems = subs.elems
    BY <1>3 DEF MoveSubscriptions, VectorOf
  <2> QED
    BY <1>3, <2>1 DEF MoveSubscriptions
<1>4. CASE PushSubscription
  <2>1. \A i \in DOMAIN subs.elems : subs.elems[i] # Filter
    BY <1>4 DEF PushSubscription
  <2>2. /\ \A i, j \in DOMAIN subs'.elems : subs'.elems[i] = subs'.elems[j] => i = j
        /\ \A f : SubscribedTo(f)' <=> f = Filter \/ SubscribedTo(f)
    <3>1. subs' = Push(subs, Filter) /\ subs \in VectorOf(Filters) /\ Filter \in Filters
      BY <1>4 DEF PushSubscription
    <3> HIDE DEF TypeOK, SubscribedTo, SubscribedOnce, Filter
    <3>2. \A i, j \in DOMAIN subs.elems : subs.elems[i] = subs.elems[j] => i = j
      BY DEF SubscribedOnce
    <3>3. \A i, j \in DOMAIN subs'.elems : subs'.elems[i] = subs'.elems[j] => i = j
      BY <2>1, <3>1, <3>2, PushDistinct
    <3>4. \A f : (\E i \in DOMAIN subs'.elems : subs'.elems[i] = f) <=> f = Filter \/ \E i \in DOMAIN subs.elems : subs.elems[i] = f
      BY <3>1, PushDistinct
    <3> QED
      BY <3>3, <3>4 DEF SubscribedTo
  <2> QED
    BY <1>4, <2>2 DEF PushSubscription
<1>5. CASE MoveSlots
  BY <1>5 DEF MoveSlots
<1>6. CASE ConnectSlot
  BY <1>6 DEF ConnectSlot
<1>7. CASE CreateThrows
  BY <1>7 DEF CreateThrows, mainVars
<1>8. CASE Emplace
  BY <1>8 DEF Emplace
<1> QED
  BY <1>1, <1>2, <1>3, <1>4, <1>5, <1>6, <1>7, <1>8 DEF MainNext

\* Every connected entry has its slot, and the name of an entry of its own is in one slot.
LEMMA ConnectedStep == TypeOK /\ ConnectedOnce /\ MainNext => ConnectedOnce'
<1> SUFFICES ASSUME TypeOK, ConnectedOnce, MainNext PROVE ConnectedOnce'
  OBVIOUS
<1> USE EntriesRange DEF Goto, InSetup, ConnectedEntry, NameIsUnique
<1>0. entry \in Int /\ \A e \in Entries : e \in Int
  BY DEF TypeOK
<1>1. CASE FindSubscription \/ Subscribe \/ CreateThrows \/ PushSubscription \/ MoveSubscriptions
  <2>1. slots' = slots /\ \A e \in Entries : ConnectedEntry(e)' <=> ConnectedEntry(e)
    BY <1>1 DEF FindSubscription, Subscribe, CreateThrows, PushSubscription, MoveSubscriptions, mainVars
  <2> HIDE DEF ConnectedEntry
  <2> QED
    BY <2>1 DEF ConnectedOnce
<1>2. CASE MoveSlots
  <2>1. \A f \in Filters : slots'[f].elems = slots[f].elems
    BY <1>2 DEF MoveSlots, VectorOf, TypeOK, Filter
  <2> QED
    BY <1>2, <2>1 DEF MoveSlots, ConnectedOnce
<1>3. CASE ConnectSlot
  <2> DEFINE n == Len(slots[Filter].elems)
  <2>1. entry \in Entries /\ Filter \in Filters /\ main = "connect" /\ main' = "create" /\ entry' = entry
    BY <1>3 DEF ConnectSlot, Filter
  <2>2. \A f \in Filters \ {Filter} : slots'[f] = slots[f]
    BY <1>3 DEF ConnectSlot, TypeOK
  <2>3. slots'[Filter] = Push(slots[Filter], Config[entry].name) /\ slots[Filter] \in VectorOf(Names)
    BY <1>3, <2>1 DEF ConnectSlot, TypeOK
  <2>4. /\ n + 1 \notin DOMAIN slots[Filter].elems /\ n + 1 \in DOMAIN slots'[Filter].elems
        /\ slots'[Filter].elems[n + 1] = Config[entry].name
        /\ \A k \in DOMAIN slots'[Filter].elems : k # n + 1 => k \in DOMAIN slots[Filter].elems
        /\ \A k \in DOMAIN slots[Filter].elems : k \in DOMAIN slots'[Filter].elems /\ slots'[Filter].elems[k] = slots[Filter].elems[k]
    <3>1. Config[entry].name \in Names
      BY <2>1
    <3> HIDE DEF Names
    <3>2. /\ n \in Nat /\ DOMAIN slots[Filter].elems = 1 .. n /\ DOMAIN slots'[Filter].elems = 1 .. n + 1
          /\ \A k \in DOMAIN slots[Filter].elems : slots'[Filter].elems[k] = slots[Filter].elems[k]
          /\ slots'[Filter].elems[n + 1] = Config[entry].name
      BY <2>3, <3>1, PushAppends
    <3> HIDE DEF n
    <3> QED
      BY <3>2
  <2> HIDE DEF n
  <2>5. \A f \in Filters : \A k \in DOMAIN slots[f].elems : k \in DOMAIN slots'[f].elems /\ slots'[f].elems[k] = slots[f].elems[k]
    BY <2>2, <2>4
  <2>6. \A f \in Filters : \A k \in DOMAIN slots'[f].elems :
          k \in DOMAIN slots[f].elems \/ (f = Filter /\ k = n + 1)
    BY <2>2, <2>4
  <2>7. \A e \in Entries : ConnectedEntry(e)' <=> ConnectedEntry(e) \/ e = entry
    BY <1>0, <2>1
  <2>8. ASSUME NEW e \in Entries, ConnectedEntry(e)'
        PROVE  \E k \in DOMAIN slots'[Config[e].topic].elems : slots'[Config[e].topic].elems[k] = Config[e].name
    <3>1. CASE e = entry
      BY <2>1, <2>4, <3>1 DEF Filter
    <3>2. CASE ConnectedEntry(e)
      BY <2>5, <3>2 DEF ConnectedOnce
    <3> QED
      BY <2>7, <2>8, <3>1, <3>2
  <2>9. \A f \in Filters : \A k \in DOMAIN slots'[f].elems :
          \E e \in Entries : ConnectedEntry(e)' /\ Config[e].topic = f /\ Config[e].name = slots'[f].elems[k]
    BY <2>1, <2>4, <2>5, <2>6, <2>7 DEF ConnectedOnce, Filter
  <2>10. ASSUME NEW e \in Entries, NameIsUnique(e), NEW f \in Filters, NEW k \in DOMAIN slots[f].elems,
                slots[f].elems[k] = Config[e].name
         PROVE  e # entry
    <3>1. PICK d \in Entries : ConnectedEntry(d) /\ Config[d].name = slots[f].elems[k]
      BY DEF ConnectedOnce
    <3> QED
      BY <1>0, <2>1, <2>10, <3>1
  <2>11. ASSUME NEW e \in Entries, NameIsUnique(e), NEW f \in Filters, NEW g \in Filters,
                NEW k \in DOMAIN slots'[f].elems, NEW j \in DOMAIN slots'[g].elems,
                slots'[f].elems[k] = Config[e].name, slots'[g].elems[j] = Config[e].name
         PROVE  f = g /\ k = j
    <3>1. CASE k \in DOMAIN slots[f].elems /\ j \in DOMAIN slots[g].elems
      BY <2>5, <2>11, <3>1 DEF ConnectedOnce
    <3>2. CASE f = Filter /\ k = n + 1
      <4>1. e = entry
        BY <2>1, <2>4, <2>11, <3>2
      <4> QED
        BY <2>5, <2>6, <2>10, <2>11, <3>2, <4>1
    <3>3. CASE g = Filter /\ j = n + 1
      <4>1. e = entry
        BY <2>1, <2>4, <2>11, <3>3
      <4> QED
        BY <2>5, <2>6, <2>10, <2>11, <3>3, <4>1
    <3> QED
      BY <2>6, <3>1, <3>2, <3>3
  <2> QED
    BY <2>8, <2>9, <2>11 DEF ConnectedOnce
<1>4. CASE Emplace
  <2>1. \A e \in Entries : ConnectedEntry(e)' <=> ConnectedEntry(e)
    BY <1>0, <1>4 DEF Emplace
  <2>2. slots' = slots
    BY <1>4 DEF Emplace
  <2> HIDE DEF ConnectedEntry
  <2> QED
    BY <2>1, <2>2 DEF ConnectedOnce
<1> QED
  BY <1>1, <1>2, <1>3, <1>4 DEF MainNext

\* A family is in the map under the filter of its entry.
LEMMA FiledStep == TypeOK /\ MetricsFiled /\ MainNext => MetricsFiled'
<1> SUFFICES ASSUME TypeOK, MetricsFiled, MainNext PROVE MetricsFiled'
  OBVIOUS
<1> USE EntriesRange DEF MetricsFiled
<1>1. CASE Emplace
  BY <1>1 DEF Emplace, Goto, InSetup, Filter, TypeOK
<1>2. CASE ~Emplace
  BY <1>2 DEF MainNext, FindSubscription, Subscribe, CreateThrows, PushSubscription, MoveSubscriptions, MoveSlots, ConnectSlot, mainVars
<1> QED
  BY <1>1, <1>2

\* The worker changes nothing of what main has set up.
LEMMA SetupStep == TypeOK /\ SetupInv /\ [Next]_vars => SetupInv'
<1>1. CASE MainNext
  BY <1>1, SubscribedStep, ConnectedStep, FiledStep DEF SetupInv
<1>2. ASSUME UNCHANGED mainVars, SetupInv PROVE SetupInv'
  BY <1>2 DEF mainVars, SetupInv, SubscribedOnce, SubscribedTo, ConnectedOnce, ConnectedEntry, NameIsUnique, MetricsFiled, Filter
<1>3. CASE WorkerNext \/ UNCHANGED vars
  BY <1>2, <1>3, WorkerAdds DEF vars
<1> QED
  BY <1>1, <1>3 DEF Next

\* Setting up further entries takes nothing from a message that is being handled.
HandlingInv == WalkInv /\ CountedOnce /\ MalformedFilterFatal
LEMMA ConcernedStays ==
  ASSUME TypeOK, MetricsFiled, OnlyAdded, UNCHANGED workerVars, NEW e \in Entries
  PROVE  /\ Concerned(e) => Concerned(e)'
         /\ Concerned(e)' /\ e < entry => Concerned(e)
BY EntriesRange DEF OnlyAdded, Concerned, Exported, MetricsFiled, TypeOK, workerVars

LEMMA PlacesStay ==
  ASSUME TypeOK, OnlyAdded, UNCHANGED workerVars, NEW e \in Entries
  PROVE  /\ SlotBehind(e) => SlotBehind(e)'
         /\ SlotAhead(e) => SlotAhead(e)'
<1> USE DEF OnlyAdded, workerVars
<1>1. \A i \in DOMAIN subs.elems : subs.elems[i] \in Filters /\ i \in DOMAIN subs'.elems /\ subs'.elems[i] = subs.elems[i]
  BY DEF TypeOK, VectorOf, Longer
<1>2. \A f \in Filters : \A k \in DOMAIN slots[f].elems : k \in DOMAIN slots'[f].elems /\ slots'[f].elems[k] = slots[f].elems[k]
  BY DEF Longer
<1>3. ASSUME SlotBehind(e) PROVE SlotBehind(e)'
  <2>1. PICK i \in DOMAIN subs.elems : \E k \in DOMAIN slots[subs.elems[i]].elems :
          /\ i < sub.pos \/ (worker = "slots" /\ i = sub.pos /\ k < slot.pos)
          /\ slots[subs.elems[i]].elems[k] = Config[e].name
    BY <1>3 DEF SlotBehind
  <2>2. PICK k \in DOMAIN slots[subs.elems[i]].elems :
          /\ i < sub.pos \/ (worker = "slots" /\ i = sub.pos /\ k < slot.pos)
          /\ slots[subs.elems[i]].elems[k] = Config[e].name
    BY <2>1
  <2>3. /\ i \in DOMAIN subs'.elems /\ k \in DOMAIN slots'[subs'.elems[i]].elems
        /\ slots'[subs'.elems[i]].elems[k] = Config[e].name
    BY <1>1, <1>2, <2>1, <2>2
  <2> QED
    BY <2>2, <2>3 DEF SlotBehind
<1>4. worker = "slots" => sub.pos \in DOMAIN subs.elems
  BY InRange DEF AtSubscription
<1>5. ASSUME SlotAhead(e) PROVE SlotAhead(e)'
  <2>1. CASE worker = "slots" /\ Notified = Config[e].topic
    <3>1. Notified \in Filters /\ Notified' = Notified
      BY <1>1, <1>4, <2>1 DEF Notified
    <3> QED
      BY <1>1, <1>2, <1>5, <2>1, <3>1 DEF SlotAhead
  <2>2. CASE ~(worker = "slots" /\ Notified = Config[e].topic)
    BY <1>1, <1>5, <2>2 DEF SlotAhead
  <2> QED
    BY <2>1, <2>2
<1> QED
  BY <1>3, <1>5

LEMMA HandlingKept == TypeOK /\ SetupInv /\ HandlingInv /\ MainNext => HandlingInv'
<1> SUFFICES ASSUME TypeOK, SetupInv, HandlingInv, MainNext PROVE HandlingInv'
  OBVIOUS
<1> USE EntriesRange DEF HandlingInv, WalkInv, SetupInv
<1>1. OnlyAdded /\ UNCHANGED workerVars
  BY MainAdds
<1>2. \A e \in Entries : (Concerned(e) => Concerned(e)') /\ (Concerned(e)' /\ e < entry => Concerned(e))
  BY <1>1, ConcernedStays
<1>3. \A e \in Entries :
        (SlotBehind(e) => SlotBehind(e)') /\ (SlotAhead(e) => SlotAhead(e)')
  BY <1>1, PlacesStay
<1>4. InsideLoops'
  <2>1. worker \in {"notify", "slots"} => sub.pos \in DOMAIN subs.elems /\ Notified \in Filters
    <3>1. worker \in {"notify", "slots"} => sub.pos \in DOMAIN subs.elems
      BY InRange DEF AtSubscription
    <3> QED
      BY <3>1, NotifiedTyped DEF AtSubscription
  <2>2. worker \in {"notify", "slots"} => Notified' = Notified /\ Len(slots[Notified].elems) <= Len(slots'[Notified].elems)
    BY <1>1, <2>1 DEF OnlyAdded, Longer, Notified, workerVars
  <2>3. slot \in IteratorType /\ (worker = "slots" => Len(slots[Notified].elems) \in Nat)
    BY <2>1 DEF TypeOK, VectorOf
  <2> QED
    BY <1>1, <2>2, <2>3 DEF InsideLoops, workerVars, IteratorType
<1>5. NothingRecorded' /\ RecordedBehind'
  BY <1>1, <1>2, <1>3 DEF NothingRecorded, RecordedBehind, InLoops, NameIsUnique, workerVars
<1>6. ReadyAhead'
  <2>1. ready' = ready /\ (InLoops' <=> InLoops) /\ recorded' = recorded /\ \A e \in ready : e \in Entries /\ e \in Int
    BY <1>1 DEF InLoops, TypeOK, workerVars
  <2>2. entry <= entry' /\ entry \in Int /\ entry' \in Int
    BY <1>1 DEF OnlyAdded, TypeOK
  <2> QED
    BY <1>2, <1>3, <2>1, <2>2 DEF ReadyAhead
<1>7. FailingAhead'
  BY <1>1 DEF FailingAhead, InLoops, OnlyAdded, Longer, workerVars
<1>8. CountedOnce'
  BY <1>1, <1>2 DEF CountedOnce, ReadyAhead, NameIsUnique, workerVars
<1>9. MalformedFilterFatal'
  <2>1. process' = process \/ (process' = "aborted" /\ main' = "create" /\ entry' \in MaybeSummary)
    BY DEF MainNext, FindSubscription, Subscribe, CreateThrows, PushSubscription, MoveSubscriptions, MoveSlots, ConnectSlot, Emplace, mainVars
  <2>2. process = "up"
    BY DEF MainNext, FindSubscription, Subscribe, CreateThrows, PushSubscription, MoveSubscriptions, MoveSlots, ConnectSlot, Emplace, InSetup
  <2> QED
    BY <1>1, <2>1, <2>2 DEF MalformedFilterFatal, workerVars
<1> QED
  BY <1>4, <1>5, <1>6, <1>7, <1>8, <1>9

\* The families of a sample are those concerned, set up for the slot's name.
LEMMA Hit ==
  ASSUME TypeOK, MetricsFiled, NEW n, NEW e \in Entries
  PROVE  e \in RecordedBy(n) <=> Concerned(e) /\ Config[e].name = n
BY EntriesRange DEF RecordedBy, Concerned, Exported, MetricsFiled, TypeOK

\* The slot of an entry with a name of its own is called once: the one at hand is not behind.
LEMMA OnlySlot ==
  ASSUME TypeOK, SetupInv, InsideLoops, worker = "slots", More(slot),
         NEW e \in Entries, NameIsUnique(e), slots[Notified].elems[slot.pos] = Config[e].name
  PROVE  ~SlotBehind(e)
<1>1. sub.pos \in DOMAIN subs.elems /\ slot.pos \in DOMAIN slots[Notified].elems /\ Notified = subs.elems[sub.pos]
  <2>1. sub.pos \in DOMAIN subs.elems
    BY InRange DEF AtSubscription
  <2>2. slots[Notified] \in VectorOf(Names)
    BY NotifiedTyped DEF AtSubscription
  <2>3. slot \in IteratorType /\ slot.end <= Len(slots[Notified].elems)
    BY DEF TypeOK, InsideLoops
  <2>4. slot.pos \in DOMAIN slots[Notified].elems
    BY <2>2, <2>3 DEF VectorOf, IteratorType, More
  <2> QED
    BY <2>1, <2>4 DEF Notified
<1>2. \A i \in DOMAIN subs.elems : subs.elems[i] \in Filters
  BY DEF TypeOK, VectorOf
<1>3. SUFFICES ASSUME NEW i \in DOMAIN subs.elems, NEW k \in DOMAIN slots[subs.elems[i]].elems,
                      i < sub.pos \/ (i = sub.pos /\ k < slot.pos), slots[subs.elems[i]].elems[k] = Config[e].name
               PROVE  FALSE
  BY DEF SlotBehind
<1>4. subs.elems[i] = subs.elems[sub.pos] /\ k = slot.pos
  BY <1>1, <1>2, <1>3 DEF SetupInv, ConnectedOnce
<1>5. i = sub.pos
  BY <1>1, <1>4 DEF SetupInv, SubscribedOnce
<1>6. sub.pos \in Int /\ slot.pos \in Int
  BY DEF TypeOK, IteratorType
<1> QED
  BY <1>3, <1>4, <1>5, <1>6

\* What is behind the loops stays behind when they go on.
LEMMA BehindStays ==
  ASSUME UNCHANGED <<subs, slots>>, NEW e \in Entries, SlotBehind(e),
         \A i \in DOMAIN subs.elems : i < sub.pos => i < sub'.pos,
         \A i \in DOMAIN subs.elems : \A k \in DOMAIN slots[subs.elems[i]].elems :
           worker = "slots" /\ i = sub.pos /\ k < slot.pos =>
             i < sub'.pos \/ (worker' = "slots" /\ i = sub'.pos /\ k < slot'.pos)
  PROVE  SlotBehind(e)'
<1>1. PICK i \in DOMAIN subs.elems : \E k \in DOMAIN slots[subs.elems[i]].elems :
        /\ i < sub.pos \/ (worker = "slots" /\ i = sub.pos /\ k < slot.pos)
        /\ slots[subs.elems[i]].elems[k] = Config[e].name
  BY DEF SlotBehind
<1>2. PICK k \in DOMAIN slots[subs.elems[i]].elems :
        /\ i < sub.pos \/ (worker = "slots" /\ i = sub.pos /\ k < slot.pos)
        /\ slots[subs.elems[i]].elems[k] = Config[e].name
  BY <1>1
<1>3. i < sub'.pos \/ (worker' = "slots" /\ i = sub'.pos /\ k < slot'.pos)
  BY <1>2
<1> QED
  BY <1>2, <1>3 DEF SlotBehind

\* Each step of the worker's loops, with what it leaves behind and what is still ahead.
LEMMA WorkerKept == TypeOK /\ SetupInv /\ HandlingInv /\ WorkerNext => HandlingInv'
<1> SUFFICES ASSUME TypeOK, SetupInv, HandlingInv, WorkerNext PROVE HandlingInv'
  OBVIOUS
<1> USE EntriesRange DEF HandlingInv, WalkInv, Step, mainVars
<1>0. /\ sub.pos \in Nat \ {0} /\ sub.end \in Nat /\ slot.pos \in Nat \ {0} /\ slot.end \in Nat
      /\ entry \in Int /\ recorded \in [Entries -> Nat] /\ ready \subseteq Entries
      /\ Len(subs.elems) \in Nat /\ DOMAIN subs.elems = 1 .. Len(subs.elems)
      /\ \A i \in DOMAIN subs.elems : subs.elems[i] \in Filters
  BY DEF TypeOK, IteratorType, VectorOf
<1>1. CASE Deliver
  <2>1. InsideLoops' /\ NothingRecorded' /\ RecordedBehind' /\ FailingAhead'
    BY <1>1 DEF Deliver, InsideLoops, NothingRecorded, RecordedBehind, FailingAhead, InLoops
  <2>2. ReadyAhead'
    BY <1>1, <1>0 DEF Deliver, ReadyAhead, InLoops
  <2>3. CountedOnce' /\ MalformedFilterFatal'
    BY <1>1 DEF Deliver, CountedOnce, MalformedFilterFatal
  <2> QED
    BY <2>1, <2>2, <2>3
<1>2. CASE WalkSubscriptions
  <2>1. InsideLoops'
    BY <1>2 DEF WalkSubscriptions, InsideLoops, Begin
  <2>2. NothingRecorded' /\ RecordedBehind' /\ ReadyAhead' /\ FailingAhead'
    BY <1>2 DEF WalkSubscriptions, NothingRecorded, RecordedBehind, ReadyAhead, FailingAhead, InLoops
  <2>3. CountedOnce' /\ MalformedFilterFatal'
    BY <1>2 DEF WalkSubscriptions, CountedOnce, MalformedFilterFatal
  <2> QED
    BY <2>1, <2>2, <2>3
<1>3. CASE SubscriptionsEnd
  <2>1. sub'.pos = 1 /\ sub'.end = Len(subs.elems) /\ worker' = "subs"
    BY <1>3, <1>0 DEF SubscriptionsEnd, InsideLoops, End, TypeOK, IteratorType
  <2>2. InsideLoops' /\ NothingRecorded' /\ RecordedBehind'
    BY <1>3 DEF SubscriptionsEnd, InsideLoops, NothingRecorded, RecordedBehind, InLoops
  <2>3. \A e \in ready : SlotAhead(e)' /\ \E i \in DOMAIN subs.elems : 1 <= i /\ i <= sub'.end /\ subs.elems[i] = Config[e].topic
    <3> SUFFICES ASSUME NEW e \in ready
                 PROVE  SlotAhead(e)' /\ \E i \in DOMAIN subs.elems : 1 <= i /\ i <= sub'.end /\ subs.elems[i] = Config[e].topic
      OBVIOUS
    <3>1. PICK i \in DOMAIN subs.elems : subs.elems[i] = Config[e].topic
      BY <1>0 DEF ReadyAhead, SetupInv, SubscribedOnce, SubscribedTo
    <3>2. subs' = subs /\ 1 <= i /\ i <= sub'.end /\ (1 < i \/ 1 = i)
      BY <1>0, <1>3, <2>1 DEF SubscriptionsEnd
    <3> QED
      BY <2>1, <3>1, <3>2 DEF SlotAhead
  <2>4. ReadyAhead' /\ FailingAhead'
    BY <1>3, <2>1, <2>3 DEF SubscriptionsEnd, ReadyAhead, FailingAhead
  <2>5. CountedOnce' /\ MalformedFilterFatal'
    BY <1>3 DEF SubscriptionsEnd, CountedOnce, MalformedFilterFatal
  <2> QED
    BY <2>2, <2>4, <2>5
<1>4. CASE NoMatch
  <2>1. worker = "subs" /\ worker' = "subs" /\ sub' = [sub EXCEPT !.pos = sub.pos + 1] /\ UNCHANGED <<process, mainVars, topic, slot, recorded, ready>>
    BY <1>4 DEF NoMatch, Advance
  <2>2. sub'.pos = sub.pos + 1 /\ sub'.end = sub.end
    BY <2>1 DEF TypeOK, IteratorType
  <2>3. InsideLoops' /\ NothingRecorded'
    BY <2>1 DEF InsideLoops, NothingRecorded
  <2>4. \A e \in Entries : (SlotBehind(e) => SlotBehind(e)') /\ (Concerned(e)' <=> Concerned(e))
    <3>1. \A e \in Entries : SlotBehind(e) => SlotBehind(e)'
      BY <1>0, <2>1, <2>2, BehindStays
    <3> QED
      BY <2>1, <3>1 DEF Concerned, Exported
  <2>5. RecordedBehind'
    BY <2>1, <2>4 DEF RecordedBehind, InLoops, NameIsUnique
  <2>6. \A i \in DOMAIN subs.elems : sub.pos <= i /\ i # sub.pos => sub.pos + 1 <= i
    BY <1>0
  <2>7. topic \notin Matching[subs.elems[sub.pos]] /\ topic \notin Failing[subs.elems[sub.pos]]
    BY <1>4 DEF NoMatch, MatchFails, Notified
  <2>8. ReadyAhead'
    <3> SUFFICES ASSUME NEW e \in ready, Concerned(e), recorded[e] = 0 PROVE SlotAhead(e)'
      BY <1>0, <2>1, <2>4 DEF ReadyAhead, InLoops
    <3>1. PICK i \in DOMAIN subs.elems : subs.elems[i] = Config[e].topic /\ i <= sub.end /\ (sub.pos < i \/ sub.pos = i)
      BY <2>1 DEF ReadyAhead, InLoops, SlotAhead
    <3>2. i # sub.pos
      BY <2>7, <3>1 DEF Concerned
    <3>3. sub.pos + 1 < i \/ sub.pos + 1 = i
      BY <1>0, <3>1, <3>2
    <3> QED
      BY <2>1, <2>2, <3>1, <3>3 DEF SlotAhead
  <2>9. FailingAhead'
    <3> SUFFICES ASSUME NEW e \in ready, topic \in Failing[Config[e].topic]
                 PROVE  \E i \in DOMAIN subs.elems : sub.pos + 1 <= i /\ i <= sub.end /\ subs.elems[i] = Config[e].topic
      BY <2>1, <2>2 DEF FailingAhead
    <3>1. PICK i \in DOMAIN subs.elems : sub.pos <= i /\ i <= sub.end /\ subs.elems[i] = Config[e].topic
      BY <2>1 DEF FailingAhead, InLoops
    <3> QED
      BY <2>6, <2>7, <3>1
  <2>10. CountedOnce' /\ MalformedFilterFatal'
    BY <1>4 DEF NoMatch, CountedOnce, MalformedFilterFatal
  <2> QED
    BY <2>3, <2>5, <2>8, <2>9, <2>10
<1>5. CASE WalkSlots
  <2>1. worker = "subs" /\ worker' = "notify" /\ slot'.pos = 1 /\ UNCHANGED <<process, mainVars, topic, sub, recorded, ready>>
    BY <1>5 DEF WalkSlots, Begin
  <2>2. InsideLoops' /\ NothingRecorded'
    BY <1>5, <2>1 DEF WalkSlots, InsideLoops, NothingRecorded, Notified
  <2>3. RecordedBehind' /\ ReadyAhead' /\ FailingAhead'
    BY <2>1 DEF RecordedBehind, ReadyAhead, FailingAhead, InLoops, SlotBehind, SlotAhead, Concerned, Exported, NameIsUnique
  <2>4. CountedOnce' /\ MalformedFilterFatal'
    BY <1>5 DEF WalkSlots, CountedOnce, MalformedFilterFatal
  <2> QED
    BY <2>2, <2>3, <2>4
<1>6. CASE SlotsEnd
  <2>1. /\ worker = "notify" /\ worker' = "slots" /\ UNCHANGED <<process, mainVars, topic, sub, recorded, ready>>
        /\ slot'.pos = 1 /\ slot'.end = Len(slots[Notified].elems) /\ Notified' = Notified
    BY <1>6 DEF SlotsEnd, End, InsideLoops, TypeOK, IteratorType, Notified
  <2>2. InsideLoops' /\ NothingRecorded'
    <3>1. Len(slots[Notified].elems) \in Nat
      BY <2>1, NotifiedTyped DEF AtSubscription, VectorOf
    <3> QED
      BY <2>1, <3>1 DEF InsideLoops, NothingRecorded
  <2>3. RecordedBehind'
    BY <2>1 DEF RecordedBehind, InLoops, SlotBehind, Concerned, Exported, NameIsUnique
  <2>4. ReadyAhead'
    <3> SUFFICES ASSUME NEW e \in ready, Concerned(e), recorded[e] = 0 PROVE SlotAhead(e)'
      BY <2>1 DEF ReadyAhead, Concerned, Exported, InLoops
    <3>1. PICK i \in DOMAIN subs.elems : subs.elems[i] = Config[e].topic /\ i <= sub.end /\ (sub.pos < i \/ sub.pos = i)
      BY <2>1 DEF ReadyAhead, InLoops, SlotAhead
    <3>2. CASE sub.pos < i
      BY <2>1, <3>1, <3>2 DEF SlotAhead
    <3>3. CASE sub.pos = i
      <4>1. Notified = Config[e].topic
        BY <3>1, <3>3 DEF Notified
      <4>2. PICK k \in DOMAIN slots[Config[e].topic].elems : slots[Config[e].topic].elems[k] = Config[e].name
        BY <1>0 DEF ReadyAhead, SetupInv, ConnectedOnce, ConnectedEntry
      <4>3. 1 <= k /\ k <= Len(slots[Notified].elems)
        BY <2>1, <4>1, <4>2, NotifiedTyped DEF AtSubscription, VectorOf
      <4> QED
        BY <2>1, <4>1, <4>2, <4>3 DEF SlotAhead
    <3> QED
      BY <3>1, <3>2, <3>3
  <2>5. FailingAhead'
    BY <2>1 DEF FailingAhead, InLoops
  <2>6. CountedOnce' /\ MalformedFilterFatal'
    BY <1>6 DEF SlotsEnd, CountedOnce, MalformedFilterFatal
  <2> QED
    BY <2>2, <2>3, <2>4, <2>5, <2>6
<1>7. CASE CallSlot
  <2> DEFINE n == slots[Notified].elems[slot.pos]
  <2>1. /\ worker = "slots" /\ worker' = "slots" /\ More(slot) /\ UNCHANGED <<process, mainVars, topic, sub, ready>>
        /\ slot'.pos = slot.pos + 1 /\ slot'.end = slot.end /\ Notified' = Notified
        /\ recorded' = [e \in Entries |-> IF e \in RecordedBy(n) THEN recorded[e] + 1 ELSE recorded[e]]
    BY <1>7 DEF CallSlot, Advance, TypeOK, IteratorType, Notified
  <2>2. \A e \in Entries : e \in RecordedBy(n) <=> Concerned(e) /\ Config[e].name = n
    BY Hit DEF SetupInv
  <2>3. InsideLoops' /\ NothingRecorded'
    BY <2>1 DEF InsideLoops, NothingRecorded
  <2>4. \A e \in Entries : (SlotBehind(e) => SlotBehind(e)') /\ (n = Config[e].name => SlotBehind(e)')
    <3>1. sub.pos \in DOMAIN subs.elems
      BY <2>1, InRange DEF AtSubscription
    <3>2. slot.pos \in DOMAIN slots[subs.elems[sub.pos]].elems
      <4>1. slots[Notified] \in VectorOf(Names)
        BY <2>1, NotifiedTyped DEF AtSubscription
      <4> QED
        BY <1>0, <2>1, <4>1 DEF InsideLoops, More, VectorOf, Notified
    <3>3. ASSUME NEW e \in Entries, SlotBehind(e) PROVE SlotBehind(e)'
      <4>1. slots[Notified] \in VectorOf(Names)
        BY <2>1, NotifiedTyped DEF AtSubscription
      <4>2. \A k \in DOMAIN slots[subs.elems[sub.pos]].elems : k < slot.pos => k < slot'.pos
        <5>1. \A k \in DOMAIN slots[Notified].elems : k \in Int
          BY <4>1 DEF VectorOf
        <5>2. \A k \in Int : k < slot.pos => k < slot'.pos
          BY <1>0, <2>1
        <5> QED
          BY <5>1, <5>2 DEF Notified
      <4>3. worker' = "slots" /\ subs' = subs /\ slots' = slots /\ sub' = sub
        BY <2>1
      <4> QED
        BY <3>3, <4>2, <4>3, BehindStays
    <3>4. ASSUME NEW e \in Entries, n = Config[e].name PROVE SlotBehind(e)'
      <4>1. subs' = subs /\ slots' = slots /\ slot.pos < slot'.pos /\ slots[subs.elems[sub.pos]].elems[slot.pos] = Config[e].name
        BY <1>0, <2>1, <3>4 DEF Notified
      <4> QED
        BY <2>1, <3>1, <3>2, <4>1 DEF SlotBehind
    <3> QED
      BY <3>3, <3>4
  <2>5. RecordedBehind'
    <3> SUFFICES ASSUME NEW e \in Entries, recorded'[e] # 0
                 PROVE  Concerned(e) /\ SlotBehind(e)' /\ (NameIsUnique(e) => recorded'[e] = 1)
      BY <2>1 DEF RecordedBehind, Concerned, Exported, NameIsUnique
    <3>1. CASE e \in RecordedBy(n)
      <4>1. NameIsUnique(e) => recorded[e] = 0
        BY <2>1, <2>2, <3>1, OnlySlot DEF RecordedBehind, InLoops
      <4> QED
        BY <1>0, <2>1, <2>2, <2>4, <3>1, <4>1
    <3>2. CASE e \notin RecordedBy(n)
      BY <2>1, <2>4, <3>2 DEF RecordedBehind, InLoops
    <3> QED
      BY <3>1, <3>2
  <2>6. ReadyAhead'
    <3> SUFFICES ASSUME NEW e \in ready, Concerned(e), recorded'[e] = 0 PROVE SlotAhead(e)'
      BY <2>1 DEF ReadyAhead, Concerned, Exported
    <3>1. Config[e].name # n /\ recorded[e] = 0
      BY <1>0, <2>1, <2>2
    <3>2. SlotAhead(e)
      BY <2>1, <3>1 DEF ReadyAhead, InLoops
    <3>3. \A k \in DOMAIN slots[Notified].elems :
            slot.pos <= k /\ slots[Notified].elems[k] = Config[e].name => slot.pos + 1 <= k
      <4>1. slots[Notified] \in VectorOf(Names)
        BY <2>1, NotifiedTyped DEF AtSubscription
      <4>2. \A k \in DOMAIN slots[Notified].elems : k \in Int
        BY <4>1 DEF VectorOf
      <4> QED
        BY <1>0, <3>1, <4>2
    <3> QED
      BY <2>1, <3>2, <3>3 DEF SlotAhead
  <2>7. FailingAhead'
    BY <2>1 DEF FailingAhead, InLoops
  <2>8. CountedOnce' /\ MalformedFilterFatal'
    BY <1>7 DEF CallSlot, CountedOnce, MalformedFilterFatal
  <2> QED
    BY <2>3, <2>5, <2>6, <2>7, <2>8
<1>8. CASE SlotsDone
  <2>1. /\ worker = "slots" /\ worker' = "subs" /\ slot.end < slot.pos /\ UNCHANGED <<process, mainVars, topic, recorded, ready>>
        /\ sub'.pos = sub.pos + 1 /\ sub'.end = sub.end
    BY <1>0, <1>8 DEF SlotsDone, Advance, More, TypeOK, IteratorType
  <2>2. InsideLoops' /\ NothingRecorded'
    BY <2>1 DEF InsideLoops, NothingRecorded
  <2>3. RecordedBehind'
    <3>1. \A e \in Entries : SlotBehind(e) => SlotBehind(e)'
      BY <1>0, <2>1, BehindStays
    <3>2. \A e \in Entries : Concerned(e)' <=> Concerned(e)
      BY <2>1 DEF Concerned, Exported
    <3> QED
      BY <2>1, <3>1, <3>2 DEF RecordedBehind, InLoops, NameIsUnique
  <2>4. ReadyAhead'
    <3>1. \A k \in DOMAIN slots[Notified].elems : k \in Int
      BY <2>1, NotifiedTyped DEF AtSubscription, VectorOf
    <3>2. \A k \in DOMAIN slots[Notified].elems : ~(slot.pos <= k /\ k <= slot.end)
      BY <1>0, <2>1, <3>1
    <3> QED
      BY <1>0, <2>1, <3>2 DEF ReadyAhead, InLoops, SlotAhead, Concerned, Exported
  <2>5. FailingAhead'
    <3>1. \A f \in Filters : topic \in Matching[f] => topic \notin Failing[f]
      BY DispatchAssumption
    <3>2. topic \notin Failing[subs.elems[sub.pos]]
      BY <2>1, <3>1, NotifiedTyped DEF AtSubscription, InsideLoops, Notified
    <3> SUFFICES ASSUME NEW e \in ready, topic \in Failing[Config[e].topic]
                 PROVE  \E i \in DOMAIN subs.elems : sub.pos + 1 <= i /\ i <= sub.end /\ subs.elems[i] = Config[e].topic
      BY <2>1 DEF FailingAhead
    <3>3. PICK i \in DOMAIN subs.elems : sub.pos <= i /\ i <= sub.end /\ subs.elems[i] = Config[e].topic
      BY <2>1 DEF FailingAhead, InLoops
    <3>4. i # sub.pos
      BY <3>2, <3>3
    <3> QED
      BY <1>0, <3>3, <3>4
  <2>6. CountedOnce' /\ MalformedFilterFatal'
    BY <1>8 DEF SlotsDone, CountedOnce, MalformedFilterFatal
  <2> QED
    BY <2>2, <2>3, <2>4, <2>5, <2>6
<1>9. CASE MessageDone
  <2>1. worker = "subs" /\ worker' = "done" /\ sub.end < sub.pos /\ UNCHANGED <<process, mainVars, topic, recorded, ready>>
    BY <1>0, <1>9 DEF MessageDone, More
  <2>2. InsideLoops' /\ NothingRecorded' /\ RecordedBehind' /\ ReadyAhead' /\ FailingAhead'
    BY <2>1 DEF InsideLoops, NothingRecorded, RecordedBehind, ReadyAhead, FailingAhead, InLoops
  <2>3. \A e \in ready : ~SlotAhead(e) /\ topic \notin Failing[Config[e].topic]
    BY <1>0, <2>1 DEF SlotAhead, FailingAhead, InLoops
  <2>4. CountedOnce'
    BY <1>0, <2>1, <2>3 DEF CountedOnce, RecordedBehind, ReadyAhead, InLoops, Concerned, Exported, NameIsUnique
  <2>5. MalformedFilterFatal'
    BY <2>1, <2>3, <1>9 DEF MessageDone, MalformedFilterFatal
  <2> QED
    BY <2>2, <2>4, <2>5
<1>10. CASE Return
  <2>1. ready' = {} /\ worker' = "idle" /\ process' = "up"
    BY <1>10 DEF Return
  <2> QED
    BY <2>1 DEF InsideLoops, NothingRecorded, RecordedBehind, ReadyAhead, FailingAhead, InLoops, CountedOnce, MalformedFilterFatal
<1>11. CASE MatchThrows \/ UseDangling
  <2>1. UNCHANGED <<mainVars, workerVars>>
    BY <1>11 DEF MatchThrows, UseDangling
  <2>2. WalkInv' /\ CountedOnce'
    BY <2>1 DEF workerVars, InsideLoops, NothingRecorded, RecordedBehind, ReadyAhead, FailingAhead, InLoops, SlotBehind, SlotAhead,
                CountedOnce, Concerned, Exported, NameIsUnique, Notified
  <2>3. MatchThrows => \E i \in DOMAIN subs.elems : topic \in Failing[subs.elems[i]]
    <3>1. CASE worker = "subs" /\ More(sub) /\ MatchFails(Notified)
      <4>1. sub.pos \in DOMAIN subs.elems
        BY <3>1, InRange DEF AtSubscription
      <4> QED
        BY <3>1, <4>1 DEF MatchFails, Notified
    <3>2. ASSUME NEW f \in DOMAIN metrics, MatchFails(f) PROVE \E i \in DOMAIN subs.elems : topic \in Failing[subs.elems[i]]
      <4>1. metrics[f] \in Entries /\ metrics[f] < entry /\ Config[metrics[f]].topic = f
        BY DEF TypeOK, SetupInv, MetricsFiled
      <4> QED
        BY <3>2, <4>1 DEF SetupInv, SubscribedOnce, SubscribedTo, MatchFails
    <3> QED
      BY <3>1, <3>2 DEF MatchThrows
  <2>4. MalformedFilterFatal'
    BY <1>11, <2>1, <2>3 DEF MatchThrows, UseDangling, MalformedFilterFatal, workerVars
  <2> QED
    BY <2>2, <2>4
<1> QED
  BY <1>1, <1>2, <1>3, <1>4, <1>5, <1>6, <1>7, <1>8, <1>9, <1>10, <1>11 DEF WorkerNext

\* CountingInv holds in every reachable state.
THEOREM Counting == Spec => []CountingInv
<1>1. Init => CountingInv
  <2> SUFFICES ASSUME Init PROVE CountingInv
    OBVIOUS
  <2>1. SetupInv
    BY EntriesRange DEF Init, SetupInv, SubscribedOnce, ConnectedOnce, ConnectedEntry, MetricsFiled, Vector
  <2>2. WalkInv /\ CountedOnce /\ MalformedFilterFatal
    BY DEF Init, WalkInv, InsideLoops, NothingRecorded, RecordedBehind, ReadyAhead, FailingAhead, InLoops, CountedOnce, MalformedFilterFatal
  <2> QED
    BY <2>1, <2>2, InitTyped DEF CountingInv
<1>2. CountingInv /\ [Next]_vars => CountingInv'
  <2> SUFFICES ASSUME CountingInv, [Next]_vars PROVE CountingInv'
    OBVIOUS
  <2>1. TypeOK' /\ SetupInv'
    BY TypeStep, SetupStep DEF CountingInv
  <2>2. ASSUME UNCHANGED vars PROVE HandlingInv'
    <3>1. UNCHANGED <<process, mainVars, workerVars>>
      BY <2>2 DEF vars
    <3>2. WalkInv'
      BY <3>1 DEF CountingInv, mainVars, workerVars, WalkInv, InsideLoops, NothingRecorded, RecordedBehind, ReadyAhead, FailingAhead,
                  InLoops, SlotBehind, SlotAhead, Concerned, Exported, NameIsUnique, Notified
    <3>3. CountedOnce' /\ MalformedFilterFatal'
      BY <3>1 DEF CountingInv, mainVars, workerVars, CountedOnce, Concerned, Exported, NameIsUnique, MalformedFilterFatal
    <3> QED
      BY <3>2, <3>3 DEF HandlingInv
  <2>3. HandlingInv'
    BY HandlingKept, WorkerKept, <2>2 DEF CountingInv, HandlingInv, Next
  <2> QED
    BY <2>1, <2>3 DEF CountingInv, HandlingInv
<1> QED
  BY <1>1, <1>2, PTL DEF Spec

\* Every message that is handled to the end is counted exactly once by each family
\* that was set up before it arrived: for every configuration, however filters overlap.
THEOREM CountedExactlyOnce == Spec => []CountedOnce
<1>1. CountingInv => CountedOnce
  BY DEF CountingInv
<1> QED
  BY Counting, <1>1, PTL

\* A message for which a filter is malformed is not handled to the end, and nothing
\* else but a type without a class ends the process: for every configuration.
THEOREM MalformedFatal == Spec => []MalformedFilterFatal
<1>1. CountingInv => MalformedFilterFatal
  BY DEF CountingInv
<1> QED
  BY Counting, <1>1, PTL
=============================================================================
