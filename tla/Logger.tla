------------------------------- MODULE Logger -------------------------------
(***************************************************************************)
(* The logger library (src/logger): entries made by several threads, the   *)
(* routers that choose a sink, the formatter with the static tm that       *)
(* std::localtime returns, and the streams behind the sinks' mutexes.      *)
(* main's signal handler writes to std::clog beside all that.  main calls  *)
(* sync_with_stdio(false): std::clog and std::cerr are then two names of   *)
(* one unsynchronised buffer, written under two different mutexes.         *)
(*                                                                         *)
(* A line's text is its head and its tail; an entry's timestamp is its     *)
(* number, so that no two are equal; of a printed time the date fields and *)
(* the time fields are told apart.                                         *)
(***************************************************************************)
EXTENDS Integers, Sequences

CONSTANTS
  Threads,     \* threads that log
  Main,        \* the one of them that runs main
  LevelsOf,    \* thread -> levels it uses
  Free,        \* "no thread"
  MaxEntries,  \* bound: entries created
  MaxSignals   \* bound: signals delivered

Levels == {"trace", "debug", "info", "warn", "error", "fatal"}

ASSUME LoggerAssumption ==
  /\ LevelsOf \in [Threads -> SUBSET Levels] /\ Main \in Threads /\ Free \notin Threads
  /\ MaxEntries \in Nat /\ MaxSignals \in Nat

-----------------------------------------------------------------------------
(* Logger::Logger, addRouter and route *)

Sinks == {"@cout", "@clog", "@cerr"}
\* The buffer a sink's std:: stream writes to (main.cpp's sync_with_stdio(false)).
Stream(s) == IF s = "@cout" THEN "stdout" ELSE "stderr"
Streams == {Stream(s) : s \in Sinks}
Errors == {"fatal", "error"}

\* Mutant: the new router goes last.
AddRouter_Append(routers, r) == Append(routers, r)
\* std::multimap<int, Router>::emplace: by order, and after those of the same order.
AddRouter(routers, r) ==
  LET before == {i \in 0 .. Len(routers) : \A k \in 1 .. i : routers[k].order <= r.order}
      place  == CHOOSE i \in before : \A k \in before : k <= i
  IN [i \in 1 .. Len(routers) + 1 |-> IF i <= place THEN routers[i] ELSE IF i = place + 1 THEN r ELSE routers[i - 1]]

DefaultRouter == [order |-> 100, levels |-> Levels, sink |-> "@clog"]
ErrorRouter == [order |-> 10, levels |-> Errors, sink |-> "@cerr"]

\* Mutant: nothing takes the entries without a rule.
Routers_NoDefault == AddRouter(<<>>, ErrorRouter)
Routers == AddRouter(AddRouter(<<>>, DefaultRouter), ErrorRouter)

\* The first router with an answer; "" when none has one.
Route(level) ==
  LET answers == {i \in DOMAIN Routers : level \in Routers[i].levels} IN
  IF answers = {} THEN "" ELSE Routers[CHOOSE i \in answers : \A k \in answers : i <= k].sink

-----------------------------------------------------------------------------
VARIABLES
  pc, entry,  \* per thread: position in the life of a LogEntry, and the entry
  created,    \* number of entries created, at most MaxEntries
  tm, tzLock, \* the static tm of std::localtime, and the C library's lock around it
  owner,      \* sink -> thread holding its mutex, or Free
  text,       \* stream -> the pieces written to it
  handler,    \* sigHandle: the thread it interrupts, or Free, and its position
  signals,    \* number of signals delivered, at most MaxSignals
  clashed     \* history: two have written to one stream at the same time

handlerVars == <<handler, signals>>
streamVars  == <<owner, text, clashed>>
timeVars    == <<tm, tzLock>>
vars == <<pc, entry, created, timeVars, streamVars, handlerVars>>

NoEntry == [n |-> 0, level |-> "info", date |-> 0, time |-> 0, overlapped |-> FALSE]
Piece(e, part) == [entry |-> e, part |-> part]
Garbled == Piece(NoEntry, "garbled")

Init ==
  /\ pc = [t \in Threads |-> "idle"] /\ entry = [t \in Threads |-> NoEntry] /\ created = 0
  /\ tm = [date |-> 0, time |-> 0] /\ tzLock = Free
  /\ owner = [s \in Sinks |-> Free] /\ text = [s \in Streams |-> <<>>]
  /\ handler = [on |-> Free, at |-> "idle"] /\ signals = 0 /\ clashed = FALSE

\* A thread goes on unless the signal handler is running on it.
Step(t, from, to) == handler.on # t /\ pc[t] = from /\ pc' = [pc EXCEPT ![t] = to]

Begin(t, level) ==
  /\ created < MaxEntries /\ created' = created + 1
  /\ Step(t, "idle", "log")
  /\ entry' = [entry EXCEPT ![t] = [NoEntry EXCEPT !.n = created', !.level = level]]
  /\ UNCHANGED <<timeVars, streamVars, handlerVars>>

\* Mutant: an error is logged while the App still runs.
NewEntry_Early(t) == \E level \in LevelsOf[t] : Begin(t, level)
\* Channel::trace, debug, info, warn, error, fatal: the entry takes its timestamp
\* here; the message is streamed into it afterwards.  Errors are logged in main's
\* catch clauses only, when the App and its threads are gone.
NewEntry(t) ==
  \E level \in LevelsOf[t] :
    /\ level \in Errors => \A u \in Threads \ {t} : pc[u] = "gone"
    /\ Begin(t, level)

\* The App's destructor, or the unwinding of its constructor, joins the thread.
Joined(t) ==
  /\ t # Main /\ Step(t, "idle", "gone")
  /\ UNCHANGED <<entry, created, timeVars, streamVars, handlerVars>>

Formatting == {"localtime", "convert", "date", "time"}

\* ~LogEntry calls Logger::log, which throws when there is no such sink: out of a
\* destructor, so the process ends.  Otherwise Sink::write calls the formatter.
Log(t) ==
  LET others == {u \in Threads \ {t} : pc[u] \in Formatting} IN
  /\ Step(t, "log", IF Route(entry[t].level) \in Sinks THEN "localtime" ELSE "terminated")
  /\ entry' = [u \in Threads |-> [entry[u] EXCEPT !.overlapped = @ \/ u \in others \/ (u = t /\ others # {})]]
  /\ UNCHANGED <<created, timeVars, streamVars, handlerVars>>

\* Mutant: the date is taken to be that of the last entry.
Localtime_SameDay(t) ==
  /\ Step(t, "localtime", "convert")
  /\ tzLock = Free /\ tzLock' = t
  /\ UNCHANGED <<entry, created, tm, streamVars, handlerVars>>

\* std::localtime(&t) fills the one static tm, under a lock of the C library's ...
Localtime(t) ==
  /\ Step(t, "localtime", "convert")
  /\ tzLock = Free /\ tzLock' = t
  /\ tm' = [tm EXCEPT !.date = entry[t].n]
  /\ UNCHANGED <<entry, created, streamVars, handlerVars>>
Converted(t) ==
  /\ Step(t, "convert", "date")
  /\ tm' = [tm EXCEPT !.time = entry[t].n] /\ tzLock' = Free
  /\ UNCHANGED <<entry, created, streamVars, handlerVars>>

\* ... and the formatter reads its fields through the pointer afterwards.
ReadDate(t) ==
  /\ Step(t, "date", "time")
  /\ entry' = [entry EXCEPT ![t].date = tm.date]
  /\ UNCHANGED <<created, timeVars, streamVars, handlerVars>>
ReadTime(t) ==
  /\ Step(t, "time", "lock")
  /\ entry' = [entry EXCEPT ![t].time = tm.time]
  /\ UNCHANGED <<created, timeVars, streamVars, handlerVars>>

SinkOf(t) == Route(entry[t].level)

\* ClogSink::write, CoutSink::write, CerrSink::write: std::scoped_lock lock{_mutex} ...
LockSink(t) ==
  /\ Step(t, "lock", "head")
  /\ owner[SinkOf(t)] = Free /\ owner' = [owner EXCEPT ![SinkOf(t)] = t]
  /\ UNCHANGED <<entry, created, timeVars, text, clashed, handlerVars>>

\* A stream is not thread-safe: when two are inside it, either's text or a torn one
\* is what the buffer ends up with.
Writing == {"head", "tail", "flush"}
Writers(stream) == {t \in Threads : pc[t] \in Writing /\ Stream(SinkOf(t)) = stream}
HandlerWrites(stream) == stream = "stderr" /\ handler.at # "idle"
Put(stream, piece, clash) ==
  /\ clashed' = (clashed \/ clash)
  /\ \/ text' = [text EXCEPT ![stream] = Append(@, piece)]
     \/ clash /\ text' = [text EXCEPT ![stream] = Append(@, Garbled)]
PutPart(t, part) ==
  LET stream == Stream(SinkOf(t)) IN
  /\ Put(stream, Piece(entry[t], part), HandlerWrites(stream) \/ Writers(stream) # {t})
  /\ UNCHANGED <<entry, created, timeVars, owner, handlerVars>>

\* ... the stream takes the line, is flushed, and the mutex is released.
PutHead(t) == Step(t, "head", "tail") /\ PutPart(t, "head")
PutTail(t) == Step(t, "tail", "flush") /\ PutPart(t, "tail")

\* Mutant: the mutex is not released.
UnlockSink_Kept(t) ==
  /\ Step(t, "flush", "idle")
  /\ entry' = [entry EXCEPT ![t] = NoEntry]
  /\ UNCHANGED <<created, timeVars, streamVars, handlerVars>>
UnlockSink(t) ==
  /\ Step(t, "flush", "idle")
  /\ owner' = [owner EXCEPT ![SinkOf(t)] = Free]
  /\ entry' = [entry EXCEPT ![t] = NoEntry]
  /\ UNCHANGED <<created, timeVars, text, clashed, handlerVars>>

ThreadNext(t) ==
  \/ NewEntry(t) \/ Joined(t) \/ Log(t) \/ Localtime(t) \/ Converted(t) \/ ReadDate(t) \/ ReadTime(t)
  \/ LockSink(t) \/ PutHead(t) \/ PutTail(t) \/ UnlockSink(t)

-----------------------------------------------------------------------------
(* main.cpp: sigHandle runs on whichever thread the signal is delivered to *)

Interrupt(t) ==
  /\ handler.on = Free /\ pc[t] # "gone" /\ signals < MaxSignals /\ signals' = signals + 1
  /\ handler' = [on |-> t, at |-> "head"]
  /\ UNCHANGED <<pc, entry, created, timeVars, streamVars>>

SignalLine == [NoEntry EXCEPT !.n = -1]

\* std::clog << "Received " << ... << std::endl, without the sink's mutex.
HandlerHead ==
  /\ handler.at = "head" /\ handler' = [handler EXCEPT !.at = "tail"]
  /\ Put("stderr", Piece(SignalLine, "head"), Writers("stderr") # {})
  /\ UNCHANGED <<pc, entry, created, timeVars, owner, signals>>
HandlerTail ==
  /\ handler.at = "tail" /\ handler' = [on |-> Free, at |-> "idle"]
  /\ Put("stderr", Piece(SignalLine, "tail"), Writers("stderr") # {})
  /\ UNCHANGED <<pc, entry, created, timeVars, owner, signals>>

HandlerNext == (\E t \in Threads : Interrupt(t)) \/ HandlerHead \/ HandlerTail

Next == (\E t \in Threads : ThreadNext(t)) \/ HandlerNext

Spec == Init /\ [][Next]_vars

\* A thread that has begun an entry goes on (it asks for a lock again and again: the
\* mutexes do not queue), and so does the handler.  Nobody has to log or to signal.
Fairness ==
  /\ \A t \in Threads : SF_vars(pc[t] # "idle" /\ ThreadNext(t))
  /\ WF_vars(HandlerHead \/ HandlerTail)
FairSpec == Spec /\ Fairness
-----------------------------------------------------------------------------
(* Properties *)

Entries == [n : -1 .. MaxEntries, level : Levels, date : 0 .. MaxEntries, time : 0 .. MaxEntries, overlapped : BOOLEAN]

\* Type invariant; no entry ends the process for want of a sink.
TypeOK ==
  /\ pc \in [Threads -> {"idle", "log", "lock", "gone"} \cup Formatting \cup Writing]
  /\ entry \in [Threads -> Entries] /\ created \in 0 .. MaxEntries
  /\ tm \in [date : 0 .. MaxEntries, time : 0 .. MaxEntries] /\ tzLock \in Threads \cup {Free}
  /\ owner \in [Sinks -> Threads \cup {Free}]
  /\ text \in [Streams -> Seq([entry : Entries, part : {"head", "tail", "garbled"}])]
  /\ handler \in [on : Threads \cup {Free}, at : {"idle", "head", "tail"}]
  /\ signals \in 0 .. MaxSignals /\ clashed \in BOOLEAN

\* Lines of different threads never mix: a piece is followed by the rest of its own
\* line, and only the signal handler, which writes to std::clog without the sink's
\* mutex (main.cpp:15), can tear one.  The two mutexes in front of stderr do not see
\* to that (Sink.hpp:42, 76): errors do not overlap the entries of other threads.
WholeLines ==
  /\ clashed => signals > 0
  /\ ~clashed => \A s \in Streams : \A i \in DOMAIN text[s] :
       IF i % 2 = 1 THEN text[s][i].part = "head"
       ELSE text[s][i] = Piece(text[s][i - 1].entry, "tail")

\* The formatter reads the static tm after std::localtime has returned
\* (LogEntry.cpp:30-37): a line bears another entry's date or time only if the two
\* were formatted at the same time by different threads.
WrongTimeOnlyIfOverlapped ==
  \A s \in Streams : \A i \in DOMAIN text[s] :
    LET e == text[s][i].entry IN
    text[s][i].part # "garbled" /\ e.n > 0 /\ ~e.overlapped => e.date = e.n /\ e.time = e.n

\* Errors go to cerr and all others to clog, although the router for errors was
\* added after the one that takes everything (Logger.cpp:11-23), and every entry
\* whose thread is done with it has been written, once.
Done == 1 .. created \ {entry[t].n : t \in Threads}
TailsOf(n) == {i \in DOMAIN text["stderr"] : text["stderr"][i].entry.n = n /\ text["stderr"][i].part = "tail"}
WrittenOnce ==
  /\ \A s \in Sinks : owner[s] # Free => (s = "@cerr") = (entry[owner[s]].level \in Errors)
  /\ ~clashed => \A n \in Done : \E i \in TailsOf(n) : TailsOf(n) = {i}

\* An entry that has been begun is written: neither the sinks' mutexes nor the
\* handler hold a thread up for ever.
EntriesWritten == \A t \in Threads : pc[t] = "log" ~> pc[t] = "idle"
=============================================================================
