# A verification of mqtt-exporter

mqtt-exporter subscribes to MQTT topics, keeps a time series per metric and label set, and
serves them to Prometheus on `/metrics`. This directory holds TLA+ models of it, the TLC
configurations that check them on small instances, and TLAPS proofs about them for every
instance. Paths below are relative to the repository; `PROJECT.json` maps each definition to
the lines it models and lists the runs, the hazards and the theorems.

The program is small and sequential in each of its parts. What is hard in it is that four kinds
of thread meet: the main thread (`App::App`, `App::~App`), the *mosquitto thread* or *worker*
(`MosquittoClient::_worker`, which runs all of libmosquitto's callbacks and so
`App::messageArrived`), the *routine thread* (`App::_routineThread`) and CivetWeb's two HTTP
threads (`MetricsHandler::handleGet`).

## Inventory

| Component | State | Operations | Module |
|---|---|---|---|
| Metric store: `MetricFamily`, `Lockable` | `App::_metrics` under a `shared_mutex`; per family `_metrics` (label set -> metric, timestamp) under `_mutex` | `newSample`, `routine`, `begin`, `end` | `MetricStore`, `Exposition` |
| Message handling: `App::messageArrived` | the families collected | collect, parse, replace, `newSample` | `MetricStore`, `Dispatch`, `Labels` |
| Metrics handler | `_output`, one buffer for all HTTP threads | `handleGet` | `MetricStore` |
| Routine thread | stop token | one sweep a second | `MetricStore`, `Lifecycle` |
| Set-up in `App::App` | `_subscriptions`, `_metrics` | `subscribe`, `connect`, `create`, `emplace` per entry | `Dispatch` |
| Message dispatch: `MosquittoClient::onMessage` | vectors of subscriptions and slots | walk both, `matchTopic`, call the slots | `Dispatch` |
| `Zeeno::Signal` | `m_functions`, cache, dirty flag, three kinds of mutex | `connect`, `operator()`, two `disconnect`, block | `Dispatch` (no mutex), `Signal` (with one) |
| MQTT connection | tickets, worker, the library's socket | `connect`, `disconnect`, callbacks, destructor | `Lifecycle` |
| Publishing | `_messageTickets` | `publish`, `onPublished` | `Publish` |
| Metric classes, rendering | values of the points | constructors, `newSample`, `stringify`, `VectorIterator` | `Render` |
| Process life cycle: `main`, `~App` | `shouldTerminate` | signal, exceptions, shutdown | `Lifecycle` |
| Label templates: `parse`, `replace`, `Label` | none | regular expressions, `${name}`, `to_string` | `Labels` |
| Logger: `Channel`, `LogEntry`, `Logger`, `Sink` | routers, sinks and their mutexes, the C library's `tm`, the standard streams | entries of each level, `log`, `route`, `write` | `Logger` |
| Configuration, exceptions, `Mosquitto` | none | declarative bindings, text | not modelled |

**How they interact.** `onMessage` (worker) walks `_subscriptions`, notifies every signal whose
filter matches, and each slot calls `messageArrived` with the name of its entry. That copies the
matching families out of the shared map (shared lock), and calls `newSample` on each (family
mutex). The routine thread takes the map exclusively and every family's mutex in turn. A scrape
copies the map (shared lock), then per family copies the pointers (family mutex, twice) and reads
the values with no lock at all. Start and stop go through tickets: a promise that a callback of
the worker fulfils and the main thread waits for, with a time limit.

**What is hard, and what makes each part correct.**

- *Store*: the reference into the map that `newSample` holds against the sweep; a series that is
  fresh never disappears, a stale one does; a scrape has everything sampled before it began;
  nobody waits for ever for a lock; an exception in the worker.
- *Set-up and dispatch*: messages arrive while the entries are being set up, over vectors without
  a lock; filters overlap and repeat; each sample is counted once by each family it concerns.
- *Signal*: called from a copy that may be stale; locks taken in two orders, slots called under one.
- *Connection and life cycle*: CONNACK against the 5 s limit, DISCONNECT against two destructors,
  a ticket replaced under the callback that triggers it, exceptions leaving destructors, threads
  that must be gone before what they use.
- *Publishing*: the acknowledgement overtaking the registration; ids of 16 bits coming round.
- *Rendering*: values read without the lock, `begin()` and `end()` from different copies, buckets
  updated one by one, values that were never initialised.
- *Labels*: values are substituted one variable at a time, in the order of an `unordered_map`, and
  written without escaping; series and buckets must still be told apart.
- *Logger*: several threads format with one static `tm`; one stream has two mutexes, and a signal handler
  that takes neither; an exception in it would leave a destructor.

`PROJECT.json` lists these under "hazards", at their lines, with the properties that would catch
them. Two have no property and say why: nobody reconnects after a loss, and the wall clock may be set.

## Modules

Every module states its abstraction at its head. Definitions keep the names of the source; a
definition with a suffix (`Expired_Inclusive`, `Connect_NotDirty`) is a plausible bug in the one it
is named after, with which the property it is paired with in `PROJECT.json` must fail.

**MetricStore** (`MetricFamily.hpp`, `App.cpp` 17-49, 87-98, 113-137). One `pc` per thread. Taking a
lock, what is done under it and releasing it are separate steps where others could interfere.
An item is the time of its last sample, in ticks. `ParseSample` stands for `parse`, `replace` and
`parsePayload`, whose result is any label set; families in `Throwing` may throw instead, which ends
the process with whatever locks are held (`SampleThrows`). `Write` is the unsynchronised access to
`_output`: if another scrape is running it may leave a garbled text. That buffer has 4 MiB reserved
and is assumed not to outgrow them.

**Dispatch** (`App.cpp` 69-79, `MosquittoClient.cpp` 115-133 and 169-202, `Signal.hpp` 195-207).
A `std::vector` is its elements, how often its buffer has moved, and whether it is moving now; an
iterator remembers the buffer it points into. Using one that dangles makes the process "corrupt".
`mosquitto_topic_matches_sub` is the constant relation `Matching`; a malformed filter also has topics it is rejected
for (`Failing`), with which `matchTopic` throws, on a thread where nothing catches (`MatchThrows`). An entry in `MaybeSummary` may turn out to be
of a type without a class when `create` looks at it, which throws and ends the process.

**Signal** (`Signal.hpp` 43-168). `SignalWithMutex` with a real mutex, which the program offers and
does not instantiate. `disconnectAll` and `isConnected` compile for no mutex and are left out. A slot is any callback:
while its emission waits for it (`InSlot`), its thread may call whatever it may call from its own code, `connect`, `isValid`, the
two `disconnect` and the emission included. To lock a `std::mutex` twice is undefined; here the thread waits for ever, as with
glibc. `m_block` is a plain `bool`; it is read and written at once.

**Lifecycle** (`main.cpp`, `App.cpp` 61-67 and 81-111, `MosquittoClient.cpp` 11-93 and 135-147).
`link` is the library's socket, external: only the worker's `mosquitto_loop` reads and closes it. A
`wait_for` may time out whenever its ticket is not triggered. `faults` records what went wrong.
What the threads do with the metrics is left to the other modules: this one says only when they live.

**Publish** (`MosquittoClient.cpp` 95-114 and 149-167). The library hands out the ids 1 .. `MaxMid` in
a circle; every call of `publish` is a thread of its own.

**Render** (`Histogram`, `Counter`, `Gauge`, `MatchGauge`, `VectorIterator.hpp`, `IMetricFamily.cpp`
43-66). Metric objects have identity, so a scrape can hold one that was erased and made anew. When
the sweep erases is MetricStore's subject; here it may erase any metric at any time the mutex
is free. A payload is the number `from_chars` makes of it, NaN, or no number. The text is the list
of (metric, point, value); names, labels and number formats are left out.

**Exposition** is no part of the code: it is what the store promises a client, without threads, maps or
locks. A sample is recorded in two steps, a series leaves only when it is too old, and a request is
shown every family once, each as it was at one moment; its own property `FreshShown` says that a series sampled before the
request and still fresh is shown. **StoreExposition** maps MetricStore to it: the items to the set of series, `alone` to
the requests that promise something, the text in `_output` and the copy about to be appended to what was shown.

**Labels** (`App.cpp` 128-182, `IMetricFamily.cpp` 37-41, `Label.cpp`, `Histogram.hpp` 15-18). A text is a sequence of
tokens, so that references can arise where pieces meet. `std::regex_search` is a constant function. The order in which
the `unordered_map` yields the variables is any, and fixed for a run: it depends on their names only. The order of
label keys is a constant, that of `std::map`; `ParametersOK` says that the keys differ, that `le` is one of them, and that what an expression
matches is made of the text it was applied to. Templates without a
`$` are skipped by `getVariableLabels`, and `getConstantLabels` has no caller: such labels are never exported.
The bucket of the bound `+Inf` is left out, whose text is that of no other.

**Logger** (`src/logger`, `main.cpp` 14-22). `localtime` fills its `tm` under a lock of the C library and the formatter
reads it afterwards, date before time. A line is written as head and tail. `sync_with_stdio(false)` makes `std::cerr` and
`std::clog` two names of one unsynchronised buffer (libstdc++): when two writers are in it, a piece may come out as written or garbled.
`main` logs errors in its catch clauses only, when the App and with it every other thread is gone (`Joined`).

`MCMetricStore` (of StoreExposition), `MCDispatch`, `MCPublish`, `MCRender`, `MCSignal`, `MCLabels` and `MCLogger` instantiate the modules for TLC;
`Lifecycle`, with one numeric constant, is run as it is. The modules fit together at their edges:
Dispatch counts the calls of `newSample` that MetricStore's worker carries out; MetricStore decides which
items exist and Render what they are worth; Lifecycle decides when any of it runs.

## Runs

| Run | Checks | Instance |
|---|---|---|
| store | `TypeOK`, `ItemReferenceValid`, `FreshKept`, `ImplementsExposition` | 2 families, 1 label set, 1 scraper, maxAge 1, 2 ticks, 2 messages |
| store_overlap | `CompleteExposition`, `StaleItemsPurged`, `ScrapesAnswered`, `MessagesHandled` | 1 family, 2 scrapers, maxAge 0, 1 tick, 1 message |
| dispatch | `TypeOK`, `CountedOnce`, `SafeOnceSetUp`, `MalformedFilterFatal` | 5 entries, any of them of type `summary`, 4 filters of which one malformed, 3 topics, 2 messages |
| lifecycle | `TypeOK`, `NoThreadOutlivesApp`, `GracefulWithoutFaults`, `ExitDisconnects`, `SignalStops` | 2 requests |
| publish | `TypeOK`, `TicketMissedOnlyIfEarly`, `TriggeredByOwnAck`, `DuplicateExplained` | 4 messages, 2 ids |
| render | `TypeOK`, `NeverPastTheEnd`, `WholeSection`, `ValuesExpected`, `TornByAtMostDuring`, `GarbageOnlyUnparsed` | all 4 kinds of metric, bounds 1, 3 and +Inf, 2 label sets, 4 payloads, 3 samples |
| signal | `TypeOK`, `NoCallAfterDisconnect`, `CallsEveryConnected`, `DeadlockExplained` | 3 threads, 2 slots that do anything |
| labels | `TypeOK`, `LabelsAsConfigured`, `SeriesDistinct`, `BucketsDistinct` | 5 configurations, 4 topics, 6 payloads, 5 bounds, 2 messages |
| logger | `TypeOK`, `WholeLines`, `WrongTimeOnlyIfOverlapped`, `WrittenOnce`, `EntriesWritten` | 2 threads, 2 entries, 1 signal |

What they show:

- *Store.* The sweep never erases the item `newSample` refers to. An item is kept while it is at most
  `maxAge` old, also when it expires and comes back. Everything the store does is something Exposition
  allows: no half sample, no family twice, no answer without one. A scrape that
  no other overlaps writes one section per family and then `# EOF`, with every series that was sampled
  before the request and is still fresh. Two overlapping scrapes may spoil each other's text; the
  next one alone is whole again. Scrapes and messages are worked off, or the process has aborted. What is stale is
  purged, but only if the shared map is again and again free of readers: two scrapes that overlap for ever, each
  starting before the other lets go, keep the routine thread out of the `shared_mutex`, and that behaviour
  violates `StaleItemsPurged` without its premise.
- *Dispatch.* A message is counted exactly once by each family it concerns that was set up before it
  arrived, at most once by one being set up meanwhile (if its name is unique), and never by another.
  Overlapping subscriptions each call their own slots only; entries on one filter share a
  subscription. A message that arrives after the set-up never meets a moving vector; one that arrives
  during it may, and the model has that undefined behaviour. A malformed filter passes the set-up unnoticed and ends the process
  at the first message it is rejected for, whichever metric that message is for; nothing else but an unknown type does.
- *Life cycle.* When `main` returns no thread is left. Without a network fault, timeout or failed
  set-up the process only ends by returning, having told the broker. SIGTERM ends it in any case.
- *Publish.* A PUBACK triggers the ticket of the message it acknowledges. It can trigger that of another one in two cases, and both
  happen: the other's own PUBACK overtook its registration, so that its entry stays in the map until its id comes round, or
  an id was given out twice. A ticket misses its own acknowledgement for the same two reasons only. "Generated a duplicate
  messageId that is currently on-the-fly" means just that, or an id whose PUBACK came so early.
- *Render.* `stringify` never uses an iterator past its end, although `begin()` and `end()` copy the map
  separately, and writes each metric `begin()` saw once, whole. Values are what the payloads
  define, in the order of buckets the constructor makes of an unordered configuration. A scrape may see
  a bucket exceed a wider one, by no more than the samples recorded since it began. A gauge shows
  a value never written only if it was never given a number. A histogram's `_sum` is never written, so every
  scrape shows what the memory held, and its `_count` stays zero whatever its buckets say: the code counts in the
  buckets only (`Histogram.cpp:19`), and the two properties of values state it as it is.
- *Signal.* The unlocked read of `m_dirty` is sound: an emission calls no slot that was disconnected
  before it and every slot that was connected before it. There are exactly three ways to deadlock,
  and all can happen: `SignalWithMutex::disconnect` against `Connection::disconnect` of the same slot; a
  slot that connects, disconnects, emits or asks `isValid` while another thread reloads the cache, which the slot's emission
  holds; a slot that emits, alone. Without slots that take locks only the first is left.
- *Labels.* A message's labels are the configured ones with a `$`; of a key given twice the first of these counts, and
  a label without a `$` is dropped. They are what their templates say with all references replaced at once, in any order of
  the `unordered_map`, unless a value holds a `$` or a template nests references. Different series are written
  differently unless a value holds a quote; the buckets of one, unless a label `le` is configured or two
  bounds agree in six decimals. Each of these conditions is needed: without it TLC finds a counterexample.
- *Logger.* Every entry is written once, errors to `cerr` and the rest to `clog`, and no entry ends the process. A line shows
  another entry's time only if two threads formatted at once. Lines are torn by the signal handler only:
  what keeps errors and other entries apart in their common buffer is the order of the shutdown, not the sinks' mutexes.

**Violations.** Three runs check one statement of the repository each, and it does not hold:

- *shipped_config*, `EveryEntryExported`: `mqtt-exporter.yml` has two entries on `FVE_Telc/+/Total`. The map of
  families is keyed by the filter, so the second is dropped (`App.cpp:77`) and `total_power` never exported.
- *connect_fails*, `ConnectFailureHandled`: `main` catches `Exception`, but if `mosquitto_connect_async` fails,
  `~MosquittoClient` calls `disconnect()`, which throws as well, out of a destructor during unwinding.
- *refused*, `SetUpOnceConnected`: `onConnected` ignores the return code, so a refusal passes for a connection.

**Bounds.** Clocks, messages, requests and samples are bounded in the guards (`MaxTime`, `MaxMessages`,
`MaxRequests`, `MaxSamples`, `MaxEntries`, `MaxSignals`); TLC exhausts each instance. They are chosen so that the cases above happen:
two ticks with `maxAge` 1 let an item expire, be swept and return; two messages reach an
item both new and old, and a name met twice; two families let the sweep be in one and the worker or scrape
in the other. Five entries on four filters move the vector of subscriptions three times, and one of slots twice. Two ids and four
messages let the ids come round twice. Two label sets let a metric vanish before, at and after the one being
rendered. Three threads make cycles of three locks possible. Label sets do not interact in MetricStore, so
one is enough there; the theorems cover any number. Overlapping scrapes need two
scrapers, and with `maxAge` 0 one tick makes an item stale. Two configured messages give a family two series, which is what telling them apart
needs; two log entries overlap, share a stream or follow each other.
Symmetry is used for interchangeable threads, slots and messages only, and in no run with a liveness property.
Deadlock is checked in the runs of MetricStore. It is not in the others: set-up, publishing, a bounded number of
samples or log entries and the process itself come to an end, and in Signal a deadlock is what a property speaks about.

**Fairness.** *store_overlap*: each thread's next step is strongly fair, once it has begun a message, a round or a request. A
running thread runs on, and one that waits for a mutex gets it if it is free again and again: no mutex here
queues its waiters, but every other thread sleeps or returns outside its locks (10 ms of `mosquitto_loop`, 1 s of the
routine, between requests). That does not help against readers of the `shared_mutex` that overlap, hence the premise of
`StaleItemsPurged`. No message or scrape need come, and time need not pass. *logger*: the same for a thread that has begun
an entry, and the handler runs on; nobody need log or signal. *lifecycle*: every thread runs, every `wait_for` returns, a
request being served ends; nobody need send a signal, and the network owes nothing.

## Proofs

Proved with TLAPS for every value of the constants that meets the module's named assumption. In brackets
the property of the runs that the theorem states; every safety property of a passing run has one.

| Module | Theorems |
|---|---|
| `MetricStore_proofs` | `StoreInvariant`, `Typing` (`TypeOK`), `ReferenceSafety` (`ItemReferenceValid`), `FreshSeriesKept` (`FreshKept`), `Implementation` (`ImplementsExposition`), `Promise` (`FreshShown`, of the abstract service), `WholeResponses` (`CompleteExposition`) |
| `Dispatch_proofs` | `Typing` (`TypeOK`), `SetupSafety` (`SafeOnceSetUp`), `Counting`, `CountedExactlyOnce` (`CountedOnce`), `MalformedFatal` (`MalformedFilterFatal`) |
| `Lifecycle_proofs` | `LifecycleInvariant`, `Typing` (`TypeOK`), `ThreadsEnded` (`NoThreadOutlivesApp`), `Graceful` (`GracefulWithoutFaults`), `Disconnects` (`ExitDisconnects`) |
| `Publish_proofs` | `PublishInvariant`, `TypeCorrect` (`TypeOK`), `TicketSafety` (`TriggeredByOwnAck`), `TicketMissed` (`TicketMissedOnlyIfEarly`), `Duplicates` (`DuplicateExplained`) |
| `Render_proofs` | `RangeSafety` (`NeverPastTheEnd`), `RenderInvariant`, `Typing` (`TypeOK`), `Sections` (`WholeSection`), `Values` (`ValuesExpected`), `TornLittle` (`TornByAtMostDuring`), `GarbageUnparsed` (`GarbageOnlyUnparsed`) |
| `Signal_proofs` | `SignalInvariant`, `Typing` (`TypeOK`), `NoLateCall` (`NoCallAfterDisconnect`), `NoLostCall` (`CallsEveryConnected`), `DeadlockFreedom` (`DeadlockExplained`) |
| `Logger_proofs` | `LoggerInvariant`, `Typing` (`TypeOK`), `LinesWhole` (`WholeLines`), `OwnTimes` (`WrongTimeOnlyIfOverlapped`), `Written` (`WrittenOnce`) |
| `Labels_proofs` | `Typed` (`TypeOK`), `Configured` (`LabelsAsConfigured`), `Distinct` (`SeriesDistinct`), `BucketsApart` (`BucketsDistinct`) |

The inductive invariants are defined at the head of the proof modules (that of Labels after the lemmas on texts, that of Exposition
in its own module), as conjunctions of named parts; each was checked with TLC on the instance of the module's run before it was proved. A proof has one
lemma per part of the invariant, with a case per action.

- *Store*: any families, labels, scrapers, `maxAge`. `FreshKept` is not inductive: `StoreInv` adds that a family's
  mutex is held exactly at the places `Holding` (`MutexHeld`), that the sweep's `now` is not ahead of the clock, and
  that an item's timestamp is the time of its last sample except between lookup and stamp, where
  the worker holds the mutex and the sweep is elsewhere (`StampsMatch`). So what the sweep takes for expired is.
- *Refinement*: Exposition's initial state is MetricStore's, and each step of the store maps to one of
  Exposition's or to a stutter (`StepRefines`, one case per action): lookup to `Record`, stamp to `Stamp`, the erasure of an item to
  `Expire`, the copy of a family to `Show`. It needs `StoreInv` (what is erased is stale and not being sampled)
  and that a scrape alone has written just the families it no longer has to visit (`AloneInv`, `WrittenInv`).
  Exposition's own `Promise` is proved from the invariant that a family, once shown, holds whatever was fresh when the request came.
  It is stated of Exposition as the store instantiates it, but its proof unfolds nothing of the store: it takes what a client
  sees (`ServiceOf`, `FamiliesOf`, `ShownTo`) as it would take variables.
- *Whole responses* come from both: that nothing fresh is missing is `Promise`, which the store inherits through the
  refinement; that the text is one section per family and the end marker is an invariant of the text as it grows, section
  by section.
- *Set-up and dispatch*: any configuration, relation and number of messages. `DispatchInv` adds that a vector moves only
  while main is at the push of an entry (`MovesInSetup`), that a message which finds every entry ready arrived after
  the last push (`ReadyMeansDone`), and hence that its iterators point into buffers that stay (`IteratorsValid`).
  For the counting, `SetupInv` says what main has built so far: one subscription per filter, one slot per connected entry.
  `WalkInv` says where the worker's two nested loops are: what has been recorded belongs to a slot behind them, and an entry that was
  ready when the message came is recorded or has its slot ahead. A slot has one place, so nothing is recorded twice;
  at the end nothing is ahead, so nothing is missed. Vectors may grow under the loops: the range is the one read at the start.
- *Life cycle*: any number of requests. `LifecycleInv` says where main may be in which destructor, how many tickets that took (three at
  most), where main is while each thread lives (each is joined before what it uses goes), and, as long as there
  is no fault, that the socket is there until DISCONNECT is sent, once, and that the worker holds no ticket but the one main has kept.
- *Publish*: any messages and width of ids. `PublishInv` adds that an entry is filed under its message's id, that ids
  on the wire differ until one is reused, that an unacknowledged ticket is in the map, that an entry's message is on
  its way or was acknowledged too early (`EntriesLive`), and that no message is both on its way and acknowledged too early (`NotBoth`).
  So when a PUBACK finds an entry of another message, that entry is a stale one or the id was given out twice.
- *Signal*: any threads and slots. `SignalInv` says that each mutex is held at its places only, that a cache which is not
  marked dirty equals the functions (`CleanMeansCurrent`), and what an emission knows: from what was connected and disconnected
  when it began to what it will still call. That covers the unlocked read of `m_dirty`: if it misses a later change, the emission
  began before it. `DeadlockFreedom` follows each thread of a set that waits for one another to the holder of the mutex it waits for:
  who holds the signal's or a connection's waits in `disconnect` or in a reload, and who holds the cache's is in a slot.
- *Render*: any labels, kinds, bounds and samples. `RangeInv` adds that what `end()` returned is not a valid position;
  `operator==` takes all invalid iterators for equal, so one that differs from it is in range. `RecordInv`: each point is worth what its
  kind's definition says of the payloads recorded, those of a sample in progress up to the bucket it has reached. That
  the loop may stop at the first bucket that is too small needs the order of the buckets; that the constructor can sort any
  configuration is proved by insertion, as an induction by smallest counterexample. `ShownInv`: a line shows what
  its point was worth at some moment since `begin()`, and `RestInv` that nothing ever writes a histogram's `_count` and `_sum`, nor
  what a line shows of them. Counts only grow, so the buckets of one line
  set differ by what came in between (`TornByAtMostDuring`). `SectionInv`: the text is whole up to the position of the iterators.
- *Logger*: any threads, entries and signals. `EntriesInv`: entries in the making differ, and one of an error is the only one, because
  every other thread is gone; hence one writer at a time in the buffer of `cerr` and `clog` although two mutexes stand
  before it (`LocksInv`), and, but for the handler, one line at most that lacks its tail, the last (`LinesInv`). `TimesInv`: an entry that has
  not overlapped another has the `tm` to itself. `WrittenInv`: an entry has one tail exactly from its writing on.
- *Labels*: any configuration, texts, expressions and order of the `unordered_map`. `replaceAll`, `Substituted` and `to_string`
  put pieces together with `FlattenSeq`, of which first is proved where each piece lies in the result (`Offsets`, `Pieces`).
  `Stage(text, D, value)` is the text with the references to the names in `D` replaced at once; `ReplaceNext` is the heart of
  it: replacing one name more in a stage gives the next stage. A reference in the stage can only be one that the template
  had there, since every `$` of the result was a `$` of the template, and the three tokens after it are copied along
  with it. So `StageInv`: the labels are the stage of the names passed in `order`, which at the end are all of them. For `Distinct`, two sets
  with the same keys that are written alike are compared key by key: the pieces before are equal, so the values begin at the same place, and
  a value without a quote ends at the first one. For `BucketsApart` the pieces have the same lengths (`EqualOffsets`), so the
  tokens of `le` lie at the same place.

The assumptions are the named `ASSUME`s of the modules, all evaluated by TLC on every run: the
threads differ, the markers are no members of the sets, the bounds are natural numbers. The bounds on messages, samples, requests and the
like are constants of the models, so the theorems hold for each of them.

Four definitions are written so that they can be reasoned about: `Buckets` in Render is a sorting order of the bounds and
not the result of a sorting operator, `Routers` in Logger are inserted at a position computed by a maximum, the invariant behind `CompleteExposition`
describes the text by positions and not by folding it, and `Joined` in Labels goes over all keys in the order of the map, with an empty
piece where the set has none.

*Only model-checked*: liveness, that is `StaleItemsPurged`, `ScrapesAnswered`, `MessagesHandled`, `SignalStops` and
`EntriesWritten`. Fairness and ENABLED are beyond the prover. Where a proof needs induction over data (the order of
Render's buckets, the places of the pieces in a text) it goes by the smallest counterexample, with the well-foundedness of
the natural numbers or a set of positions that contains 0 and successors (`Reaches`).

## Not modelled

libmosquitto, CivetWeb, the standard library and the parsers (external, modelled only by how they are used);
the layout of log lines, exception text, names, units and help lines, number formatting; reading the YAML file (declarative
bindings); the parts of Signal and of the logger that nothing calls (`disconnectAll`, `setFormatter`, `clearRouters`).

## Plan

Written, from the most important behaviour outwards: MetricStore, Dispatch, Lifecycle, Publish, Render, Signal, Exposition and
the refinement, Labels, Logger; then the proofs of each of them. Worth adding next: action properties that say more than the
invariants do, such as that the counts a scrape shows never fall from one scrape to the next.
