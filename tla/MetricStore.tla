---------------------------- MODULE MetricStore ----------------------------
(***************************************************************************)
(* The store of metric families once App::App has returned: the map        *)
(* App::_metrics behind its shared_mutex, the items of every family behind *)
(* the family's own mutex, and the three kinds of thread that meet there.  *)
(*                                                                         *)
(*   Worker    the mosquitto thread, running App::messageArrived           *)
(*   Routine   App::_routineThread, purging items older than maxAge        *)
(*   Scrapers  the HTTP threads, running MetricsHandler::handleGet         *)
(*                                                                         *)
(* A critical section is several steps: taking the lock, the accesses made *)
(* under it, releasing it.  Values of metrics are left out: an item is the *)
(* timestamp of its last sample.  A local variable is reset where its      *)
(* scope ends.  lastSample, atStart and alone are history variables: no    *)
(* step's enabling condition reads them.                                   *)
(***************************************************************************)
EXTENDS Integers, Sequences

CONSTANTS
  Families,      \* families in App::_metrics; the map is fixed once App::App has returned
  Throwing,      \* families whose parse, parsePayload or metric constructor can throw
  Labels,        \* label sets a sample can be filed under
  Worker, Routine, Scrapers,  \* the threads
  Free,          \* "no thread", "no family", "no label"
  MaxAge,        \* IMetricFamily::Configuration::maxAge, in ticks
  MaxTime,       \* bound: ticks of the clock
  MaxMessages    \* bound: messages dispatched to messageArrived

Threads == {Worker, Routine} \cup Scrapers

ASSUME StoreAssumption ==
  /\ Throwing \subseteq Families
  /\ Worker # Routine /\ Worker \notin Scrapers /\ Routine \notin Scrapers
  /\ Free \notin Threads /\ Free \notin Families /\ Free \notin Labels /\ Free \notin Families \X Labels
  /\ MaxAge \in Nat /\ MaxTime \in Nat /\ MaxMessages \in Nat

Absent == -1   \* no item under this label set
Never  == -1   \* no sample recorded so far

\* Pieces of the response text: a family's section, the end marker, a torn text.
Section == Families \X SUBSET Labels
EOF     == <<"# EOF">>
Garbled == <<"garbled">>

VARIABLES
  process,   \* "up", or "aborted" once an exception has left a thread
  clock,     \* std::chrono::system_clock, which nobody sets back here
  mapOwner,  \* thread holding App::_metrics exclusively, or Free
  mapReaders,\* threads holding it shared
  mutex,     \* MetricFamily::_mutex: its holder, or Free
  items,     \* MetricFamily::_metrics: family -> label set -> timestamp or Absent
  pc, todo, cur,   \* per thread: position, families left to visit, family visited
  label,     \* Worker: key of the item `item` refers to
  now, scan, \* Routine: `now` of this sweep, items its iterator has yet to pass
  section,   \* Scrapers: labels of the family being rendered (MetricFamily::begin)
  output,    \* MetricsHandler::_output, one buffer for all HTTP threads
  sent,      \* number of messages dispatched, at most MaxMessages
  lastSample,\* history: time of the last completed newSample per item key
  atStart,   \* history: lastSample when the scrape began
  alone      \* history: running scrapes that no other scrape has overlapped

workerVars  == <<label, sent, lastSample>>
routineVars == <<now, scan>>
scrapeVars  == <<section, output, atStart, alone>>
lockVars    == <<mapOwner, mapReaders, mutex>>
vars == <<process, clock, items, pc, todo, cur, lockVars, workerVars, routineVars, scrapeVars>>

Unsampled == [f \in Families |-> [l \in Labels |-> Never]]

Init ==
  /\ process = "up" /\ clock = 0 /\ sent = 0
  /\ mapOwner = Free /\ mapReaders = {}
  /\ mutex = [f \in Families |-> Free]
  /\ items = [f \in Families |-> [l \in Labels |-> Absent]]
  /\ pc = [t \in Threads |-> "idle"]
  /\ todo = [t \in Threads |-> {}]
  /\ cur = [t \in Threads |-> Free]
  /\ label = Free /\ now = 0 /\ scan = {}
  /\ section = [s \in Scrapers |-> {}] /\ output = <<>>
  /\ lastSample = Unsampled
  /\ atStart = [s \in Scrapers |-> Unsampled]
  /\ alone = {}

Goto(t, from, to) == pc[t] = from /\ pc' = [pc EXCEPT ![t] = to]

LockShared(t)   == mapOwner = Free /\ mapReaders' = mapReaders \cup {t} /\ UNCHANGED <<mapOwner, mutex>>
UnlockShared(t) == mapReaders' = mapReaders \ {t} /\ UNCHANGED <<mapOwner, mutex>>

LockFamily(t, f) == mutex[f] = Free /\ mutex' = [mutex EXCEPT ![f] = t] /\ UNCHANGED <<mapOwner, mapReaders>>
UnlockFamily(t)  == mutex' = [mutex EXCEPT ![cur[t]] = Free] /\ UNCHANGED <<mapOwner, mapReaders>>

Visit(t, f) == f \in todo[t] /\ cur' = [cur EXCEPT ![t] = f]
Leave(t)    == todo' = [todo EXCEPT ![t] = @ \ {cur[t]}] /\ cur' = [cur EXCEPT ![t] = Free]

-----------------------------------------------------------------------------
(* Worker: App::messageArrived *)

\* std::shared_lock lock(*_metrics)
CollectLock ==
  /\ sent < MaxMessages /\ sent' = sent + 1
  /\ Goto(Worker, "idle", "collect")
  /\ LockShared(Worker)
  /\ UNCHANGED <<process, clock, items, todo, cur, label, lastSample, routineVars, scrapeVars>>

\* The families whose topic filter and base name match, copied out of the map.
Collect ==
  /\ Goto(Worker, "collect", "next")
  /\ UnlockShared(Worker)
  /\ \E matching \in SUBSET Families : todo' = [todo EXCEPT ![Worker] = matching]
  /\ UNCHANGED <<process, clock, items, cur, workerVars, routineVars, scrapeVars>>

\* Mutant: the label set of the previous scope is kept.
ParseSample_NoLabels ==
  /\ Goto(Worker, "next", "parsed")
  /\ \E f \in Families : Visit(Worker, f)
  /\ UNCHANGED <<process, clock, items, todo, lockVars, workerVars, routineVars, scrapeVars>>

\* parse and replace give the label set, parsePayload the value.
ParseSample ==
  /\ Goto(Worker, "next", "parsed")
  /\ \E f \in Families : Visit(Worker, f)
  /\ \E l \in Labels : label' = l
  /\ UNCHANGED <<process, clock, items, todo, lockVars, sent, lastSample, routineVars, scrapeVars>>

\* std::regex, json::parse or json::at throws before the lock is taken, or the
\* constructor of the metric throws under it; nothing up to the thread's entry catches.
SampleThrows ==
  /\ \/ pc[Worker] = "next" /\ todo[Worker] \cap Throwing # {}
     \/ pc[Worker] = "lookup" /\ cur[Worker] \in Throwing
  /\ process' = "aborted"
  /\ UNCHANGED <<clock, items, pc, todo, cur, lockVars, workerVars, routineVars, scrapeVars>>

\* MetricFamily::newSample: std::scoped_lock lock{_mutex}
NewSampleLock ==
  /\ Goto(Worker, "parsed", "lookup")
  /\ LockFamily(Worker, cur[Worker])
  /\ UNCHANGED <<process, clock, items, todo, cur, workerVars, routineVars, scrapeVars>>

\* auto& item = _metrics[labels]: a missing item is created with timestamp {}.
NewSampleLookup ==
  /\ Goto(Worker, "lookup", "sample")
  /\ items' = [items EXCEPT ![cur[Worker]][label] = IF @ = Absent THEN 0 ELSE @]
  /\ UNCHANGED <<process, clock, todo, cur, lockVars, workerVars, routineVars, scrapeVars>>

\* Mutant: the loop does not move to the next family.
NewSampleRecord_NoAdvance ==
  /\ Goto(Worker, "sample", "next")
  /\ items' = [items EXCEPT ![cur[Worker]][label] = clock]
  /\ lastSample' = [lastSample EXCEPT ![cur[Worker]][label] = clock]
  /\ cur' = [cur EXCEPT ![Worker] = Free] /\ label' = Free
  /\ UnlockFamily(Worker)
  /\ UNCHANGED <<process, clock, todo, sent, routineVars, scrapeVars>>

\* item.timestamp = Clock::now(); item.metric->newSample(payload); unlock
NewSampleRecord ==
  /\ Goto(Worker, "sample", "next")
  /\ items' = [items EXCEPT ![cur[Worker]][label] = clock]
  /\ lastSample' = [lastSample EXCEPT ![cur[Worker]][label] = clock]
  /\ Leave(Worker) /\ label' = Free
  /\ UnlockFamily(Worker)
  /\ UNCHANGED <<process, clock, sent, routineVars, scrapeVars>>

MessageDone ==
  /\ todo[Worker] = {}
  /\ Goto(Worker, "next", "idle")
  /\ UNCHANGED <<process, clock, items, todo, cur, lockVars, workerVars, routineVars, scrapeVars>>

WorkerNext ==
  /\ process = "up"
  /\ \/ CollectLock \/ Collect \/ ParseSample \/ SampleThrows
     \/ NewSampleLock \/ NewSampleLookup \/ NewSampleRecord \/ MessageDone

-----------------------------------------------------------------------------
(* Routine: one round of App::_routineThread and MetricFamily::routine *)

\* std::scoped_lock lock{*_metrics}, held for the whole round
RoundStart ==
  /\ mapOwner = Free /\ mapReaders = {} /\ mapOwner' = Routine
  /\ Goto(Routine, "idle", "round")
  /\ todo' = [todo EXCEPT ![Routine] = Families]
  /\ UNCHANGED <<process, clock, items, cur, mapReaders, mutex, workerVars, routineVars, scrapeVars>>

\* Mutant: the sweep does not lock the family.
SweepStart_NoLock ==
  /\ Goto(Routine, "round", "sweep")
  /\ \E f \in Families : Visit(Routine, f)
  /\ now' = clock /\ scan' = Labels
  /\ UNCHANGED <<process, clock, items, todo, lockVars, workerVars, scrapeVars>>

\* std::scoped_lock lock{_mutex}; auto now = Clock::now(); it = _metrics.begin()
SweepStart ==
  /\ Goto(Routine, "round", "sweep")
  /\ \E f \in Families : Visit(Routine, f) /\ LockFamily(Routine, f)
  /\ now' = clock /\ scan' = Labels
  /\ UNCHANGED <<process, clock, items, todo, workerVars, scrapeVars>>

\* Mutants: >= for >, operands swapped.
Expired_Inclusive(stamp) == now - stamp >= MaxAge
Expired_Swapped(stamp)   == stamp - now > MaxAge
Expired(stamp) == now - stamp > MaxAge

\* One iteration of the loop: erase the item or step over it.
SweepItem ==
  /\ pc[Routine] = "sweep"
  /\ \E l \in scan :
       /\ scan' = scan \ {l}
       /\ items' = [items EXCEPT ![cur[Routine]][l] =
                      IF @ # Absent /\ Expired(@) THEN Absent ELSE @]
  /\ UNCHANGED <<process, clock, pc, todo, cur, lockVars, now, workerVars, scrapeVars>>

\* Mutant: the iterator over the families is not advanced.
SweepEnd_NoAdvance ==
  /\ scan = {}
  /\ Goto(Routine, "sweep", "round")
  /\ cur' = [cur EXCEPT ![Routine] = Free] /\ now' = 0
  /\ UnlockFamily(Routine)
  /\ UNCHANGED <<process, clock, items, todo, scan, workerVars, scrapeVars>>

SweepEnd ==
  /\ scan = {}
  /\ Goto(Routine, "sweep", "round")
  /\ Leave(Routine) /\ now' = 0
  /\ UnlockFamily(Routine)
  /\ UNCHANGED <<process, clock, items, scan, workerVars, scrapeVars>>

\* The lock's scope ends, then sleep_for(1s).
RoundEnd ==
  /\ todo[Routine] = {} /\ mapOwner' = Free
  /\ Goto(Routine, "round", "idle")
  /\ UNCHANGED <<process, clock, items, todo, cur, mapReaders, mutex, workerVars, routineVars, scrapeVars>>

RoutineNext ==
  /\ process = "up"
  /\ RoundStart \/ SweepStart \/ SweepItem \/ SweepEnd \/ RoundEnd

-----------------------------------------------------------------------------
(* Scrapers: MetricsHandler::handleGet, IMetricFamily::stringify *)

Overlapping(s) == {r \in Scrapers \ {s} : pc[r] # "idle"}

\* _output is a plain std::string: when two HTTP threads touch it in the same
\* window the build leaves either thread's update or a torn text.  It never
\* reallocates (4 MiB are reserved), so the process itself survives.
Write(s, text) ==
  output' \in {text} \cup (IF Overlapping(s) = {} THEN {} ELSE {<<Garbled>>})

\* Mutant: the buffer is not cleared.
ScrapeStart_NoClear(s) ==
  /\ Goto(s, "idle", "asked")
  /\ Write(s, output)
  /\ atStart' = [atStart EXCEPT ![s] = lastSample]
  /\ alone' = IF Overlapping(s) = {} THEN {s} ELSE {}
  /\ UNCHANGED <<process, clock, items, todo, cur, lockVars, workerVars, routineVars, section>>

\* Response headers, then _output.clear().
ScrapeStart(s) ==
  /\ Goto(s, "idle", "asked")
  /\ Write(s, <<>>)
  /\ atStart' = [atStart EXCEPT ![s] = lastSample]
  /\ alone' = IF Overlapping(s) = {} THEN {s} ELSE {}
  /\ UNCHANGED <<process, clock, items, todo, cur, lockVars, workerVars, routineVars, section>>

\* std::shared_lock lock(*_metrics)
ScrapeLock(s) ==
  /\ Goto(s, "asked", "copy")
  /\ LockShared(s)
  /\ UNCHANGED <<process, clock, items, todo, cur, workerVars, routineVars, scrapeVars>>

\* metrics = *_metrics
ScrapeCopy(s) ==
  /\ Goto(s, "copy", "render")
  /\ UnlockShared(s)
  /\ todo' = [todo EXCEPT ![s] = Families]
  /\ UNCHANGED <<process, clock, items, cur, workerVars, routineVars, scrapeVars>>

\* Mutant: begin() copies without the mutex.
BeginLock_NoLock(s) ==
  /\ Goto(s, "render", "begin")
  /\ \E f \in Families : Visit(s, f)
  /\ UNCHANGED <<process, clock, items, todo, lockVars, workerVars, routineVars, scrapeVars>>

\* stringify, begin(): lock ...
BeginLock(s) ==
  /\ Goto(s, "render", "begin")
  /\ \E f \in Families : Visit(s, f) /\ LockFamily(s, f)
  /\ UNCHANGED <<process, clock, items, todo, workerVars, routineVars, scrapeVars>>

\* ... copy the pointers to the metrics, unlock
BeginCopy(s) ==
  /\ Goto(s, "begin", "end")
  /\ section' = [section EXCEPT ![s] = {l \in Labels : items[cur[s]][l] # Absent}]
  /\ UnlockFamily(s)
  /\ UNCHANGED <<process, clock, items, todo, cur, workerVars, routineVars, output, atStart, alone>>

\* end() takes the mutex too; its own copy only serves as a past-the-end mark.
EndCopy(s) ==
  /\ Goto(s, "end", "append")
  /\ mutex[cur[s]] = Free
  /\ UNCHANGED <<process, clock, items, todo, cur, lockVars, workerVars, routineVars, scrapeVars>>

\* _output += metric->stringify()
AppendSection(s) ==
  /\ Goto(s, "append", "render")
  /\ Write(s, Append(output, <<cur[s], section[s]>>))
  /\ Leave(s) /\ section' = [section EXCEPT ![s] = {}]
  /\ UNCHANGED <<process, clock, items, lockVars, workerVars, routineVars, atStart, alone>>

AppendEof(s) ==
  /\ todo[s] = {}
  /\ Goto(s, "render", "write")
  /\ Write(s, Append(output, EOF))
  /\ UNCHANGED <<process, clock, items, todo, cur, lockVars, workerVars, routineVars, section, atStart, alone>>

\* mg_write(conn, _output.data(), _output.size())
WriteResponse(s) ==
  /\ Goto(s, "write", "idle")
  /\ atStart' = [atStart EXCEPT ![s] = Unsampled] /\ alone' = alone \ {s}
  /\ UNCHANGED <<process, clock, items, todo, cur, lockVars, workerVars, routineVars, section, output>>

ScrapeNext(s) ==
  /\ process = "up"
  /\ \/ ScrapeStart(s) \/ ScrapeLock(s) \/ ScrapeCopy(s) \/ BeginLock(s) \/ BeginCopy(s)
     \/ EndCopy(s) \/ AppendSection(s) \/ AppendEof(s) \/ WriteResponse(s)

-----------------------------------------------------------------------------
Tick ==
  /\ process = "up" /\ clock < MaxTime
  /\ clock' = clock + 1
  /\ UNCHANGED <<process, items, pc, todo, cur, lockVars, workerVars, routineVars, scrapeVars>>

\* std::terminate has run: no thread moves any more.
Aborted == process = "aborted" /\ UNCHANGED vars

Next == WorkerNext \/ RoutineNext \/ (\E s \in Scrapers : ScrapeNext(s)) \/ Tick \/ Aborted

Spec == Init /\ [][Next]_vars

(***************************************************************************)
(* Fairness.  Every thread keeps running while the process is up.  No      *)
(* mutex here queues its waiters, so a thread that waits for a lock is     *)
(* only known to get it because the others release it again and again and  *)
(* sleep outside it (10 ms in the worker, 1 s in the routine, between      *)
(* requests in a scraper): strong fairness of a thread's next step, which  *)
(* is weak fairness wherever that step takes no lock.  Nobody is obliged   *)
(* to publish a message or to ask for a scrape, and time may stop at       *)
(* MaxTime.                                                                *)
(***************************************************************************)
WorkerFairness ==
  SF_vars(process = "up" /\ (Collect \/ ParseSample \/ NewSampleLock \/ NewSampleLookup \/ NewSampleRecord \/ MessageDone))

RoutineFairness == SF_vars(RoutineNext)

ScrapeFairness(s) ==
  SF_vars(process = "up" /\ (ScrapeLock(s) \/ ScrapeCopy(s) \/ BeginLock(s) \/ BeginCopy(s)
                             \/ EndCopy(s) \/ AppendSection(s) \/ AppendEof(s) \/ WriteResponse(s)))

FairSpec == Spec /\ WorkerFairness /\ RoutineFairness /\ \A s \in Scrapers : ScrapeFairness(s)
-----------------------------------------------------------------------------
(* Properties *)

Stamps == Absent .. MaxTime
WorkerPlaces  == {"idle", "collect", "next", "parsed", "lookup", "sample"}
RoutinePlaces == {"idle", "round", "sweep"}
ScrapePlaces  == {"idle", "asked", "copy", "render", "begin", "end", "append", "write"}
Visiting == {"parsed", "lookup", "sample", "sweep", "begin", "end", "append"}

\* The store, its locks and the response buffer.
DataTyped ==
  /\ process \in {"up", "aborted"} /\ clock \in 0..MaxTime /\ sent \in 0..MaxMessages
  /\ mapOwner \in {Routine, Free} /\ mapReaders \subseteq Threads
  /\ mutex \in [Families -> Threads \cup {Free}]
  /\ items \in [Families -> [Labels -> Stamps]]
  /\ lastSample \in [Families -> [Labels -> Stamps]]
  /\ atStart \in [Scrapers -> [Families -> [Labels -> Stamps]]]
  /\ now \in 0..MaxTime /\ scan \subseteq Labels
  /\ section \in [Scrapers -> SUBSET Labels]
  /\ output \in Seq(Section \cup {EOF, Garbled})
  /\ alone \subseteq Scrapers

\* The threads: where each kind can be, and which of its locals are defined there.
ControlTyped ==
  /\ pc \in [Threads -> WorkerPlaces \cup RoutinePlaces \cup ScrapePlaces]
  /\ todo \in [Threads -> SUBSET Families]
  /\ cur \in [Threads -> Families \cup {Free}]
  /\ label \in Labels \cup {Free}
  /\ pc[Worker] \in WorkerPlaces /\ pc[Routine] \in RoutinePlaces
  /\ \A s \in Scrapers : pc[s] \in ScrapePlaces
  /\ \A t \in Threads : pc[t] \in Visiting => cur[t] \in Families
  /\ pc[Worker] \in {"parsed", "lookup", "sample"} => label \in Labels

\* Type invariant.
TypeOK == DataTyped /\ ControlTyped

\* newSample keeps `auto& item = _metrics[labels]` while it stamps the item and
\* updates the metric.  MetricFamily::routine erases items of the same map from
\* another thread; it never erases the one the reference points to.
ItemReferenceValid ==
  pc[Worker] = "sample" => items[cur[Worker]][label] # Absent

\* A time series whose last sample is at most maxAge old is in its family's map:
\* neither the sweep of another thread nor the re-creation of an expired item
\* can make the exporter lose it.
Fresh(stamps, f, l) == stamps[f][l] # Never /\ clock - stamps[f][l] <= MaxAge
FreshKept ==
  \A f \in Families, l \in Labels : Fresh(lastSample, f, l) => items[f][l] # Absent

\* A response written by a scrape that no other scrape overlapped is a whole
\* exposition: one section per family and then "# EOF", and a series sampled
\* before the request that is still fresh when the response is written is in it,
\* whatever the worker and the sweep did meanwhile.
CompleteExposition ==
  \A s \in alone : pc[s] = "write" =>
    /\ \A f \in Families : \E i \in DOMAIN output :
         /\ output[i] \in Section /\ output[i][1] = f
         /\ \A l \in Labels : Fresh(atStart[s], f, l) => l \in output[i][2]
         /\ \A j \in DOMAIN output : output[j] \in Section /\ output[j][1] = f => j = i
    /\ output[Len(output)] = EOF
    /\ \A i \in 1 .. Len(output) - 1 : output[i] \in Section

\* Series that are no longer sampled leave the exposition: at any time some later
\* state has the item erased or sampled within maxAge (routine thread, every 1 s).
\* Only readers that hold the shared lock one after the other without a gap keep the
\* sweep out: std::shared_mutex does not say that a waiting writer goes first.
StaleItemsPurged ==
  []<>(mapReaders = {}) =>
    \A f \in Families, l \in Labels :
      []<>(items[f][l] = Absent \/ clock - items[f][l] <= MaxAge \/ process = "aborted")

\* Every request is answered and every dispatched message is worked off: the
\* shared map lock and the family mutexes never hold a thread up for ever.
ScrapesAnswered ==
  \A s \in Scrapers : pc[s] # "idle" ~> (pc[s] = "idle" \/ process = "aborted")
MessagesHandled ==
  pc[Worker] # "idle" ~> (pc[Worker] = "idle" \/ process = "aborted")
=============================================================================
