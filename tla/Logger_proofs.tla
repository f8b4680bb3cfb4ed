--------------------------- MODULE Logger_proofs ---------------------------
(* Proofs about Logger, for any number of threads, entries and signals. *)
EXTENDS Logger, TLAPS

-----------------------------------------------------------------------------
(* The inductive invariant *)

\* Entries in the making differ, and one of an error is the only one.
Active(t) == pc[t] \notin {"idle", "gone"}
EntriesInv ==
  \A t \in Threads :
    /\ ~Active(t) => entry[t] = NoEntry
    /\ Active(t) =>
         /\ entry[t].n \in 1 .. created
         /\ \A u \in Threads \ {t} :
              (Active(u) => entry[u].n # entry[t].n) /\ (entry[t].level \in Errors => pc[u] = "gone")

\* A sink's mutex is held by the thread that writes to it; the handler holds none.
LocksInv ==
  /\ \A t \in Threads : pc[t] \in Writing => owner[SinkOf(t)] = t
  /\ \A s \in Sinks : owner[s] # Free => pc[owner[s]] \in Writing /\ SinkOf(owner[s]) = s
HandlerInv ==
  /\ handler.on = Free <=> handler.at = "idle"
  /\ handler.at # "idle" \/ clashed => signals > 0

\* While it is formatted, an entry that has not overlapped another has the tm to itself.
TimesInv ==
  \A t \in Threads :
    /\ pc[t] \in Formatting => \A u \in Threads \ {t} : pc[u] \in Formatting => entry[t].overlapped
    /\ ~entry[t].overlapped =>
         /\ pc[t] \in {"convert", "date"} => tm.date = entry[t].n
         /\ pc[t] \in {"date", "time"} => tm.time = entry[t].n
         /\ pc[t] \in {"time", "lock"} \cup Writing => entry[t].date = entry[t].n
         /\ pc[t] \in {"lock"} \cup Writing => entry[t].time = entry[t].n

\* The heads of the lines that are half written: at most one, the last piece there is.
OpenLines ==
  {Piece(entry[t], "head") : t \in {u \in Threads : pc[u] = "tail"}}
  \cup (IF handler.at = "tail" THEN {Piece(SignalLine, "head")} ELSE {})
LinesInv ==
  /\ text["stdout"] = <<>>
  /\ ~clashed =>
       /\ IF OpenLines = {} THEN Len(text["stderr"]) % 2 = 0
          ELSE Len(text["stderr"]) % 2 = 1 /\ OpenLines = {text["stderr"][Len(text["stderr"])]}
       /\ \A i \in DOMAIN text["stderr"] :
            IF i % 2 = 1 THEN text["stderr"][i].part = "head"
            ELSE text["stderr"][i] = Piece(text["stderr"][i - 1].entry, "tail")

\* The entries that have been written to the end: not those still to be flushed only.
Ended == 1 .. created \ {entry[t].n : t \in {u \in Threads : pc[u] # "flush"}}
WrittenInv ==
  ~clashed => \A n \in 1 .. MaxEntries :
    IF n \in Ended THEN \E i \in TailsOf(n) : TailsOf(n) = {i} ELSE TailsOf(n) = {}

LoggerInv ==
  TypeOK /\ EntriesInv /\ LocksInv /\ HandlerInv /\ TimesInv /\ LinesInv /\ WrittenInv /\ WrongTimeOnlyIfOverlapped

-----------------------------------------------------------------------------
(* Routes, entries and numbers *)

\* The router for errors comes first, although it was added last.
LEMMA RoutersAre == DOMAIN Routers = {1, 2} /\ Routers[1] = ErrorRouter /\ Routers[2] = DefaultRouter
<1> DEFINE Before(routers, r) == {i \in 0 .. Len(routers) : \A k \in 1 .. i : routers[k].order <= r.order}
           Place(routers, r) == CHOOSE i \in Before(routers, r) : \A k \in Before(routers, r) : k <= i
<1>1. \A routers, r : AddRouter(routers, r) =
        [i \in 1 .. Len(routers) + 1 |->
          IF i <= Place(routers, r) THEN routers[i] ELSE IF i = Place(routers, r) + 1 THEN r ELSE routers[i - 1]]
  BY DEF AddRouter
<1> DEFINE one == AddRouter(<<>>, DefaultRouter)
<1>2. Place(<<>>, DefaultRouter) = 0
  <2>1. Before(<<>>, DefaultRouter) = {0}
    OBVIOUS
  <2> HIDE DEF Before
  <2> QED BY <2>1
<1>3. one = [i \in 1 .. 1 |-> DefaultRouter]
  <2> HIDE DEF Place
  <2>1. one = [i \in 1 .. Len(<<>>) + 1 |->
                IF i <= 0 THEN <<>>[i] ELSE IF i = 0 + 1 THEN DefaultRouter ELSE <<>>[i - 1]]
    BY <1>1, <1>2
  <2> QED BY <2>1
<1> HIDE DEF one
<1>4. Len(one) = 1 /\ one[1] = DefaultRouter
  BY <1>3
<1>5. Place(one, ErrorRouter) = 0
  <2>1. Before(one, ErrorRouter) = {0}
    BY <1>4 DEF DefaultRouter, ErrorRouter
  <2> HIDE DEF Before
  <2> QED BY <2>1
<1>6. AddRouter(one, ErrorRouter) = [i \in 1 .. 2 |-> IF i = 1 THEN ErrorRouter ELSE one[i - 1]]
  <2> HIDE DEF Place
  <2>1. AddRouter(one, ErrorRouter) =
          [i \in 1 .. Len(one) + 1 |-> IF i <= 0 THEN one[i] ELSE IF i = 0 + 1 THEN ErrorRouter ELSE one[i - 1]]
    BY <1>1, <1>5
  <2> QED BY <1>4, <2>1
<1> QED BY <1>4, <1>6 DEF Routers, one

LEMMA Routing ==
  /\ \A level \in Errors : Route(level) = "@cerr"
  /\ \A level \in Levels \ Errors : Route(level) = "@clog"
<1> DEFINE Answers(level) == {i \in DOMAIN Routers : level \in Routers[i].levels}
           first(S) == CHOOSE i \in S : \A k \in S : i <= k
<1>1. \A level : Route(level) = IF Answers(level) = {} THEN "" ELSE Routers[first(Answers(level))].sink
  BY DEF Route
<1>2. /\ DOMAIN Routers = {1, 2} /\ Routers[1].levels = Errors /\ Routers[2].levels = Levels
      /\ Routers[1].sink = "@cerr" /\ Routers[2].sink = "@clog"
  BY RoutersAre DEF ErrorRouter, DefaultRouter
<1>3. ASSUME NEW level \in Errors PROVE Route(level) = "@cerr"
  <2>1. 1 \in Answers(level) /\ \A i \in Answers(level) : i = 1 \/ i = 2
    BY <1>2
  <2> HIDE DEF Answers
  <2>2. first(Answers(level)) = 1
    BY <2>1
  <2> QED BY <1>1, <1>2, <2>1, <2>2
<1>4. ASSUME NEW level \in Levels \ Errors PROVE Route(level) = "@clog"
  <2>1. Answers(level) = {2}
    BY <1>2
  <2> HIDE DEF Answers
  <2>2. first(Answers(level)) = 2
    BY <2>1
  <2> QED BY <1>1, <1>2, <2>1, <2>2
<1> QED BY <1>3, <1>4

LEMMA Names ==
  /\ Streams = {"stdout", "stderr"} /\ Stream("@clog") = "stderr" /\ Stream("@cerr") = "stderr" /\ Errors \subseteq Levels
  /\ Free \notin Threads
BY LoggerAssumption DEF Streams, Sinks, Stream, Errors, Levels

\* Every entry has a sink, and it writes to stderr.
LEMMA SinkKnown ==
  ASSUME TypeOK, NEW t \in Threads
  PROVE  /\ SinkOf(t) \in {"@clog", "@cerr"} /\ SinkOf(t) \in Sinks /\ Stream(SinkOf(t)) = "stderr"
         /\ SinkOf(t) = "@cerr" <=> entry[t].level \in Errors
<1>1. entry[t].level \in Levels
  BY DEF TypeOK, Entries
<1> QED BY <1>1, Routing, Names DEF SinkOf, Sinks

LEMMA Typed == NoEntry \in Entries /\ SignalLine \in Entries /\ SignalLine.n = -1 /\ NoEntry.n = 0
<1>1. NoEntry \in Entries /\ NoEntry.n = 0
  BY LoggerAssumption DEF NoEntry, Entries, Levels
<1>2. \A e \in Entries : [e EXCEPT !.n = -1] \in Entries /\ [e EXCEPT !.n = -1].n = -1
  BY LoggerAssumption DEF Entries
<1> QED BY <1>1, <1>2 DEF SignalLine

\* Odd and even places.
LEMMA Parity == \A n \in Nat : n % 2 \in {0, 1} /\ (n % 2 = 0 <=> (n + 1) % 2 = 1)
OBVIOUS

\* Nobody else writes to stderr beside a thread that does.
LEMMA AloneInside ==
  ASSUME TypeOK, EntriesInv, LocksInv, NEW t \in Threads, pc[t] \in Writing
  PROVE  Writers("stderr") = {t} /\ \A u \in Threads \ {t} : pc[u] \notin Writing
<1>1. ASSUME NEW u \in Threads \ {t}, pc[u] \in Writing PROVE FALSE
  <2>1. Active(t) /\ Active(u) /\ pc[u] # "gone" /\ pc[t] # "gone"
    BY <1>1 DEF Active, Writing
  <2>2. entry[t].level \notin Errors /\ entry[u].level \notin Errors
    BY <1>1, <2>1 DEF EntriesInv
  <2>3. SinkOf(t) = "@clog" /\ SinkOf(u) = "@clog"
    BY <1>1, <2>2, SinkKnown
  <2> QED BY <1>1, <2>3 DEF LocksInv
<1>2. Stream(SinkOf(t)) = "stderr"
  BY SinkKnown
<1> QED BY <1>1, <1>2 DEF Writers

-----------------------------------------------------------------------------
(* What the steps change *)

Pieces == [entry : Entries, part : {"head", "tail", "garbled"}]

\* Logger::log notes which entries are being formatted at the same time.
LEMMA LogChanges ==
  ASSUME TypeOK, NEW t \in Threads, Log(t)
  PROVE  /\ pc' = [pc EXCEPT ![t] = "localtime"] /\ UNCHANGED <<created, timeVars, streamVars, handlerVars>>
         /\ entry' \in [Threads -> Entries]
         /\ \A u \in Threads :
              /\ UNCHANGED <<entry[u].n, entry[u].level, entry[u].date, entry[u].time>>
              /\ entry[u].overlapped => entry'[u].overlapped
              /\ u # t /\ pc[u] \notin Formatting => entry'[u] = entry[u]
              /\ u # t /\ pc[u] \in Formatting => entry'[u].overlapped /\ entry'[t].overlapped
<1> DEFINE others == {u \in Threads \ {t} : pc[u] \in Formatting}
           After(u) == [entry[u] EXCEPT !.overlapped = @ \/ u \in others \/ (u = t /\ others # {})]
<1>1. pc' = [pc EXCEPT ![t] = "localtime"]
  BY SinkKnown DEF Log, Step, SinkOf
<1>2. UNCHANGED <<created, timeVars, streamVars, handlerVars>> /\ entry' = [u \in Threads |-> After(u)]
  BY DEF Log
<1>3. ASSUME NEW e \in Entries, NEW b \in BOOLEAN
      PROVE  LET f == [e EXCEPT !.overlapped = @ \/ b] IN
             /\ f \in Entries /\ f.n = e.n /\ f.level = e.level /\ f.date = e.date /\ f.time = e.time
             /\ (e.overlapped => f.overlapped) /\ (b => f.overlapped) /\ (~b => f = e)
  BY DEF Entries
<1>4. ASSUME NEW u \in Threads
      PROVE  /\ After(u) \in Entries /\ After(u).n = entry[u].n /\ After(u).level = entry[u].level
             /\ After(u).date = entry[u].date /\ After(u).time = entry[u].time
             /\ (entry[u].overlapped => After(u).overlapped)
             /\ (u \in others \/ (u = t /\ others # {}) => After(u).overlapped)
             /\ (~(u \in others \/ (u = t /\ others # {})) => After(u) = entry[u])
  <2> DEFINE b == u \in others \/ (u = t /\ others # {})
  <2>1. entry[u] \in Entries /\ b \in BOOLEAN
    BY DEF TypeOK
  <2>2. After(u) = [entry[u] EXCEPT !.overlapped = @ \/ b]
    OBVIOUS
  <2> HIDE DEF b, After
  <2>3. /\ After(u) \in Entries /\ After(u).n = entry[u].n /\ After(u).level = entry[u].level
        /\ After(u).date = entry[u].date /\ After(u).time = entry[u].time
        /\ (entry[u].overlapped => After(u).overlapped) /\ (b => After(u).overlapped) /\ (~b => After(u) = entry[u])
    BY <1>3, <2>1, <2>2
  <2> QED BY <2>3 DEF b
<1>5. \A u \in Threads : u \in others => others # {}
  OBVIOUS
<1>6. \A u \in Threads : u \in others <=> u # t /\ pc[u] \in Formatting
  OBVIOUS
<1> HIDE DEF others, After
<1> QED BY <1>1, <1>2, <1>4, <1>5, <1>6

\* One more piece in stderr: the one written, or a torn one if somebody else is inside.
LEMMA Appended ==
  ASSUME TypeOK, NEW piece \in Pieces, NEW clash \in BOOLEAN, Put("stderr", piece, clash)
  PROVE  /\ clashed' = (clashed \/ clash) /\ text' \in [Streams -> Seq(Pieces)] /\ text'["stdout"] = text["stdout"]
         /\ Len(text["stderr"]) \in Nat /\ Len(text'["stderr"]) = Len(text["stderr"]) + 1
         /\ \A i \in DOMAIN text["stderr"] : text'["stderr"][i] = text["stderr"][i]
         /\ text'["stderr"][Len(text["stderr"]) + 1] \in {piece, Garbled}
         /\ ~clash => text'["stderr"][Len(text["stderr"]) + 1] = piece
<1>1. text \in [Streams -> Seq(Pieces)]
  BY DEF TypeOK, Pieces
<1>2. Garbled \in Pieces
  BY Typed DEF Garbled, Piece, Pieces
<1>3. PICK q \in {piece, Garbled} : (~clash => q = piece) /\ text' = [text EXCEPT !["stderr"] = Append(@, q)]
  BY DEF Put
<1>4. q \in Pieces /\ text["stderr"] \in Seq(Pieces) /\ "stderr" \in Streams /\ "stdout" \in Streams
  BY <1>1, <1>2, <1>3, Names
<1>5. text'["stderr"] = Append(text["stderr"], q) /\ text'["stdout"] = text["stdout"]
  BY <1>1, <1>3, <1>4
<1> HIDE DEF Pieces
<1>6. /\ Append(text["stderr"], q) \in Seq(Pieces) /\ Len(text["stderr"]) \in Nat
      /\ Len(Append(text["stderr"], q)) = Len(text["stderr"]) + 1
      /\ \A i \in DOMAIN text["stderr"] : Append(text["stderr"], q)[i] = text["stderr"][i]
      /\ Append(text["stderr"], q)[Len(text["stderr"]) + 1] = q
  BY <1>4
<1>7. text' \in [Streams -> Seq(Pieces)]
  BY <1>1, <1>3, <1>6
<1> QED BY <1>3, <1>5, <1>6, <1>7 DEF Put

\* A thread writes a part of its line; only the handler can be beside it.
LEMMA PartWritten ==
  ASSUME TypeOK, EntriesInv, LocksInv, NEW t \in Threads, NEW part \in {"head", "tail"},
         pc[t] \in Writing, PutPart(t, part)
  PROVE  /\ Piece(entry[t], part) \in Pieces
         /\ Put("stderr", Piece(entry[t], part), handler.at # "idle")
         /\ UNCHANGED <<entry, created, timeVars, owner, handlerVars>>
<1>1. Stream(SinkOf(t)) = "stderr" /\ Writers("stderr") = {t}
  BY SinkKnown, AloneInside
<1>2. (HandlerWrites("stderr") \/ Writers("stderr") # {t}) = (handler.at # "idle")
  BY <1>1 DEF HandlerWrites
<1>3. entry[t] \in Entries
  BY DEF TypeOK
<1> QED BY <1>1, <1>2, <1>3 DEF PutPart, Piece, Pieces

\* So does the handler, beside whoever is inside.
LEMMA SignalWritten ==
  /\ Piece(SignalLine, "head") \in Pieces /\ Piece(SignalLine, "tail") \in Pieces
  /\ (Writers("stderr") # {}) \in BOOLEAN
BY Typed DEF Piece, Pieces

-----------------------------------------------------------------------------
(* Types, entries, locks and the handler *)

\* Every variable keeps its type.
LEMMA TypeStep == TypeOK /\ EntriesInv /\ LocksInv /\ [Next]_vars => TypeOK'
<1> SUFFICES ASSUME TypeOK, EntriesInv, LocksInv, [Next]_vars PROVE TypeOK'
  OBVIOUS
<1>0. created \in Nat /\ created \in 0 .. MaxEntries /\ MaxEntries \in Nat /\ MaxSignals \in Nat
      /\ entry \in [Threads -> Entries] /\ text \in [Streams -> Seq(Pieces)]
  <2>1. created \in 0 .. MaxEntries /\ MaxEntries \in Nat /\ MaxSignals \in Nat
    BY LoggerAssumption DEF TypeOK
  <2>2. entry \in [Threads -> Entries] /\ text \in [Streams -> Seq(Pieces)]
    BY DEF TypeOK, Pieces
  <2> QED BY <2>1, <2>2
<1>1. ASSUME NEW t \in Threads, NewEntry(t) PROVE TypeOK'
  <2>1. PICK level \in LevelsOf[t] : Begin(t, level)
    BY <1>1 DEF NewEntry
  <2>2. level \in Levels
    BY LoggerAssumption
  <2>3. created' = created + 1 /\ created' \in 0 .. MaxEntries /\ pc' = [pc EXCEPT ![t] = "log"]
        /\ entry' = [entry EXCEPT ![t] = [NoEntry EXCEPT !.n = created', !.level = level]]
        /\ UNCHANGED <<timeVars, streamVars, handlerVars>>
    BY <1>0, <2>1 DEF Begin, Step
  <2>4. [NoEntry EXCEPT !.n = created', !.level = level] \in Entries
    <3>1. \A e \in Entries, n \in -1 .. MaxEntries, v \in Levels : [e EXCEPT !.n = n, !.level = v] \in Entries
      BY DEF Entries
    <3>2. created' \in -1 .. MaxEntries
      BY <1>0, <2>3
    <3> QED BY <2>2, <3>1, <3>2, Typed
  <2> QED BY <1>0, <2>3, <2>4 DEF TypeOK, Pieces, timeVars, streamVars, handlerVars
<1>2. ASSUME NEW t \in Threads, Joined(t) PROVE TypeOK'
  BY <1>2 DEF Joined, Step, TypeOK, timeVars, streamVars, handlerVars
<1>3. ASSUME NEW t \in Threads, Log(t) PROVE TypeOK'
  BY <1>3, LogChanges DEF TypeOK, Formatting, timeVars, streamVars, handlerVars
<1>4. ASSUME NEW t \in Threads, Localtime(t) \/ Converted(t) PROVE TypeOK'
  <2>1. entry[t].n \in 0 .. MaxEntries
    <3>1. Active(t)
      BY <1>4 DEF Localtime, Converted, Step, Active
    <3> QED BY <1>0, <3>1 DEF EntriesInv
  <2> QED BY <1>4, <2>1 DEF Localtime, Converted, Step, TypeOK, Formatting, streamVars, handlerVars
<1>5. ASSUME NEW t \in Threads, ReadDate(t) \/ ReadTime(t) PROVE TypeOK'
  <2>1. entry' \in [Threads -> Entries]
    <3>1. entry[t] \in Entries /\ tm.date \in 0 .. MaxEntries /\ tm.time \in 0 .. MaxEntries
      BY DEF TypeOK
    <3>2. [entry[t] EXCEPT !.date = tm.date] \in Entries /\ [entry[t] EXCEPT !.time = tm.time] \in Entries
      BY <3>1 DEF Entries
    <3> QED BY <1>0, <1>5, <3>2 DEF ReadDate, ReadTime
  <2> QED BY <1>5, <2>1 DEF ReadDate, ReadTime, Step, TypeOK, Formatting, timeVars, streamVars, handlerVars
<1>6. ASSUME NEW t \in Threads, LockSink(t) PROVE TypeOK'
  BY <1>6 DEF LockSink, Step, TypeOK, Writing, timeVars, handlerVars
<1>7. ASSUME NEW t \in Threads, PutHead(t) \/ PutTail(t) PROVE TypeOK'
  <2>1. PICK part \in {"head", "tail"} : PutPart(t, part) /\ pc[t] \in Writing /\ pc' \in [Threads -> {"idle", "log", "lock", "gone"} \cup Formatting \cup Writing]
    BY <1>7 DEF PutHead, PutTail, Step, TypeOK, Writing
  <2>2. /\ Put("stderr", Piece(entry[t], part), handler.at # "idle") /\ Piece(entry[t], part) \in Pieces
        /\ UNCHANGED <<entry, created, timeVars, owner, handlerVars>>
    BY <2>1, PartWritten
  <2>3. text' \in [Streams -> Seq(Pieces)] /\ clashed' \in BOOLEAN
    BY <2>2, Appended
  <2> QED BY <2>1, <2>2, <2>3 DEF TypeOK, Pieces, timeVars, handlerVars
<1>8. ASSUME NEW t \in Threads, UnlockSink(t) PROVE TypeOK'
  BY <1>0, <1>8, Typed DEF UnlockSink, Step, TypeOK, timeVars, handlerVars
<1>9. ASSUME NEW t \in Threads, Interrupt(t) PROVE TypeOK'
  <2>1. UNCHANGED <<pc, entry, created, tm, tzLock, owner, text, clashed>>
    BY <1>9 DEF Interrupt, timeVars, streamVars
  <2>2. signals' \in 0 .. MaxSignals
    BY <1>0, <1>9 DEF Interrupt, TypeOK
  <2>3. handler' \in [on : Threads \cup {Free}, at : {"idle", "head", "tail"}]
    BY <1>9 DEF Interrupt
  <2> QED BY <2>1, <2>2, <2>3 DEF TypeOK
<1>10. CASE HandlerHead \/ HandlerTail
  <2>1. PICK part \in {"head", "tail"} : Put("stderr", Piece(SignalLine, part), Writers("stderr") # {})
    BY <1>10 DEF HandlerHead, HandlerTail
  <2>2. text' \in [Streams -> Seq(Pieces)] /\ clashed' \in BOOLEAN
    BY <2>1, SignalWritten, Appended
  <2>3. handler' \in [on : Threads \cup {Free}, at : {"idle", "head", "tail"}]
    BY <1>10 DEF HandlerHead, HandlerTail, TypeOK
  <2> QED BY <1>10, <2>2, <2>3 DEF HandlerHead, HandlerTail, TypeOK, Pieces, timeVars
<1>11. CASE UNCHANGED vars
  BY <1>11 DEF TypeOK, vars, timeVars, streamVars, handlerVars
<1> QED
  BY <1>1, <1>2, <1>3, <1>4, <1>5, <1>6, <1>7, <1>8, <1>9, <1>10, <1>11 DEF Next, ThreadNext, HandlerNext

\* An entry keeps its number and level until it is flushed; one of an error is alone.
LEMMA EntriesStep == TypeOK /\ EntriesInv /\ LocksInv /\ [Next]_vars => EntriesInv'
<1> SUFFICES ASSUME TypeOK, EntriesInv, LocksInv, [Next]_vars PROVE EntriesInv'
  OBVIOUS
<1> USE DEF Active
<1>0. /\ created \in Nat /\ entry \in [Threads -> Entries] /\ DOMAIN pc = Threads
      /\ \A t \in Threads : (pc[t] \in {"idle", "gone"} => entry[t] = NoEntry) /\ entry[t].n \in 0 .. created
  <2>1. \A t \in Threads : pc[t] \in {"idle", "gone"} => entry[t] = NoEntry
    BY DEF EntriesInv
  <2>2. created \in Nat
    BY DEF TypeOK
  <2> QED BY <2>1, <2>2, Typed DEF TypeOK, EntriesInv
<1>1. ASSUME NEW t \in Threads, NewEntry(t) PROVE EntriesInv'
  <2>1. PICK level \in LevelsOf[t] : Begin(t, level) /\ (level \in Errors => \A u \in Threads \ {t} : pc[u] = "gone")
    BY <1>1 DEF NewEntry
  <2> DEFINE new == [NoEntry EXCEPT !.n = created', !.level = level]
  <2>2. created' = created + 1 /\ pc[t] = "idle" /\ pc' = [pc EXCEPT ![t] = "log"] /\ entry' = [entry EXCEPT ![t] = new]
    BY <2>1 DEF Begin, Step
  <2>3. new.n = created + 1 /\ new.level = level
    BY <2>2 DEF NoEntry
  <2> HIDE DEF new
  <2>4. entry'[t] = new /\ pc'[t] = "log" /\ \A u \in Threads \ {t} : entry'[u] = entry[u] /\ pc'[u] = pc[u]
    BY <1>0, <2>2
  <2>5. \A u \in Threads \ {t} : pc[u] \notin {"idle", "gone"} => entry[u].level \notin Errors
    <3>1. pc[t] # "gone"
      BY <2>2
    <3> QED BY <3>1 DEF EntriesInv
  <2>6. created' \in Nat /\ created' = created + 1 /\ \A u \in Threads : entry[u].n \in 0 .. created /\ entry[u].n # created'
    BY <1>0, <2>2
  <2> QED BY <1>0, <2>1, <2>3, <2>4, <2>5, <2>6 DEF EntriesInv
<1>2. ASSUME NEW t \in Threads, pc[t] = "idle", pc' = [pc EXCEPT ![t] = "gone"], UNCHANGED <<entry, created>>
      PROVE  EntriesInv'
  BY <1>0, <1>2 DEF EntriesInv
<1>3. ASSUME NEW t \in Threads, NEW at, pc[t] \notin {"idle", "gone"}, at \notin {"idle", "gone"},
             pc' = [pc EXCEPT ![t] = at], created' = created,
             \A u \in Threads : UNCHANGED <<entry[u].n, entry[u].level>>,
             \A u \in Threads : pc[u] \in {"idle", "gone"} => entry'[u] = entry[u]
      PROVE  EntriesInv'
  <2>1. \A u \in Threads : (pc'[u] = "gone" <=> pc[u] = "gone") /\ (pc'[u] \in {"idle", "gone"} <=> pc[u] \in {"idle", "gone"})
    BY <1>0, <1>3
  <2> QED BY <1>0, <1>3, <2>1 DEF EntriesInv
<1>4. ASSUME NEW t \in Threads, Log(t) PROVE EntriesInv'
  <2>1. \A u \in Threads : pc[u] \in {"idle", "gone"} => entry'[u] = entry[u]
    <3>1. pc[t] = "log"
      BY <1>4 DEF Log, Step
    <3> QED BY <1>4, <3>1, LogChanges DEF Formatting
  <2>2. pc[t] = "log" /\ created' = created
    BY <1>4 DEF Log, Step
  <2>3. pc' = [pc EXCEPT ![t] = "localtime"] /\ \A u \in Threads : UNCHANGED <<entry[u].n, entry[u].level>>
    BY <1>4, LogChanges
  <2> QED BY <1>3, <2>1, <2>2, <2>3
<1>5. ASSUME NEW t \in Threads, ReadDate(t) \/ ReadTime(t) PROVE EntriesInv'
  <2>1. \A u \in Threads : UNCHANGED <<entry[u].n, entry[u].level>> /\ (u # t => entry'[u] = entry[u])
    <3>1. entry[t] \in Entries
      BY <1>0
    <3>2. CASE ReadDate(t)
      BY <1>0, <3>1, <3>2 DEF ReadDate, Entries
    <3>3. CASE ReadTime(t)
      BY <1>0, <3>1, <3>3 DEF ReadTime, Entries
    <3> QED BY <1>5, <3>2, <3>3
  <2>2. created' = created /\ ((pc[t] = "date" /\ pc' = [pc EXCEPT ![t] = "time"]) \/ (pc[t] = "time" /\ pc' = [pc EXCEPT ![t] = "lock"]))
    BY <1>5 DEF ReadDate, ReadTime, Step
  <2> QED BY <1>3, <2>1, <2>2
<1>6. ASSUME NEW t \in Threads, Localtime(t) \/ Converted(t) \/ LockSink(t) \/ PutHead(t) \/ PutTail(t) PROVE EntriesInv'
  <2>1. UNCHANGED <<entry, created>>
    BY <1>6 DEF Localtime, Converted, LockSink, PutHead, PutTail, PutPart
  <2>2. \E at : pc' = [pc EXCEPT ![t] = at] /\ pc[t] \notin {"idle", "gone"} /\ at \notin {"idle", "gone"}
    BY <1>6 DEF Localtime, Converted, LockSink, PutHead, PutTail, Step
  <2> QED BY <1>3, <2>1, <2>2
<1>7. ASSUME NEW t \in Threads, UnlockSink(t) PROVE EntriesInv'
  <2>1. pc[t] = "flush" /\ pc' = [pc EXCEPT ![t] = "idle"] /\ entry' = [entry EXCEPT ![t] = NoEntry] /\ created' = created
    BY <1>7 DEF UnlockSink, Step
  <2>2. \A u \in Threads \ {t} : pc[u] \notin {"idle", "gone"} => entry[u].level \notin Errors
    <3>1. pc[t] # "gone"
      BY <2>1
    <3> QED BY <3>1 DEF EntriesInv
  <2> QED BY <1>0, <2>1, <2>2 DEF EntriesInv
<1>8. CASE UNCHANGED <<pc, entry, created>>
  BY <1>8 DEF EntriesInv
<1>9. ASSUME NEW t \in Threads, NewEntry(t) \/ Joined(t) \/ UnlockSink(t) PROVE EntriesInv'
  BY <1>1, <1>2, <1>7, <1>9 DEF Joined, Step
<1>10. CASE HandlerNext \/ UNCHANGED vars
  BY <1>8, <1>10 DEF HandlerNext, Interrupt, HandlerHead, HandlerTail, vars
<1> QED BY <1>4, <1>5, <1>6, <1>9, <1>10 DEF Next, ThreadNext

\* Only the writer of a sink holds its mutex.
LEMMA LocksStep == TypeOK /\ EntriesInv /\ LocksInv /\ [Next]_vars => LocksInv'
<1> SUFFICES ASSUME TypeOK, EntriesInv, LocksInv, [Next]_vars PROVE LocksInv'
  OBVIOUS
<1>0. /\ DOMAIN pc = Threads /\ owner \in [Sinks -> Threads \cup {Free}] /\ Free \notin Threads
      /\ \A t \in Threads : SinkOf(t) \in Sinks
  BY Names, SinkKnown DEF TypeOK
<1>1. ASSUME NEW t \in Threads, NEW at, pc[t] \notin Writing, at \notin Writing, pc' = [pc EXCEPT ![t] = at],
             owner' = owner, \A u \in Threads \ {t} : entry'[u].level = entry[u].level
      PROVE  LocksInv'
  <2>1. \A u \in Threads : (pc'[u] \in Writing <=> pc[u] \in Writing) /\ (pc[u] \in Writing => SinkOf(u)' = SinkOf(u))
    BY <1>0, <1>1 DEF SinkOf
  <2> QED BY <1>0, <1>1, <2>1 DEF LocksInv
<1>2. ASSUME NEW t \in Threads, NewEntry(t) \/ Joined(t) \/ Localtime(t) \/ Converted(t) PROVE LocksInv'
  <2>1. \E at : pc' = [pc EXCEPT ![t] = at] /\ pc[t] \notin Writing /\ at \notin Writing
    <3>1. CASE NewEntry(t) \/ Joined(t)
      <4>1. pc[t] = "idle" /\ (pc' = [pc EXCEPT ![t] = "log"] \/ pc' = [pc EXCEPT ![t] = "gone"])
        BY <3>1 DEF NewEntry, Begin, Joined, Step
      <4> QED BY <4>1 DEF Writing
    <3>2. CASE Localtime(t) \/ Converted(t)
      BY <3>2 DEF Localtime, Converted, Step, Writing
    <3> QED BY <1>2, <3>1, <3>2
  <2>2. owner' = owner /\ \A u \in Threads \ {t} : entry'[u] = entry[u]
    BY <1>2 DEF NewEntry, Begin, Joined, Localtime, Converted, TypeOK, streamVars
  <2> QED BY <1>1, <2>1, <2>2
<1>3. ASSUME NEW t \in Threads, ReadDate(t) \/ ReadTime(t) PROVE LocksInv'
  <2>1. \E at : pc' = [pc EXCEPT ![t] = at] /\ pc[t] \notin Writing /\ at \notin Writing
    BY <1>3 DEF ReadDate, ReadTime, Step, Writing
  <2>2. owner' = owner /\ \A u \in Threads \ {t} : entry'[u] = entry[u]
    BY <1>3 DEF ReadDate, ReadTime, TypeOK, streamVars
  <2> QED BY <1>1, <2>1, <2>2
<1>4. ASSUME NEW t \in Threads, Log(t) PROVE LocksInv'
  <2>1. /\ pc' = [pc EXCEPT ![t] = "localtime"] /\ pc[t] = "log" /\ owner' = owner
        /\ \A u \in Threads : entry'[u].level = entry[u].level
    BY <1>4, LogChanges DEF Log, Step, streamVars
  <2> QED BY <1>1, <2>1 DEF Writing
<1>5. ASSUME NEW t \in Threads, LockSink(t) PROVE LocksInv'
  <2>1. /\ pc[t] = "lock" /\ pc' = [pc EXCEPT ![t] = "head"] /\ entry' = entry
        /\ owner[SinkOf(t)] = Free /\ owner' = [owner EXCEPT ![SinkOf(t)] = t]
    BY <1>5 DEF LockSink, Step
  <2>2. \A u \in Threads : SinkOf(u)' = SinkOf(u)
    BY <2>1 DEF SinkOf
  <2> QED BY <1>0, <2>1, <2>2 DEF LocksInv, Writing
<1>6. ASSUME NEW t \in Threads, PutHead(t) \/ PutTail(t) PROVE LocksInv'
  <2>1. UNCHANGED <<entry, owner>> /\ \E at : pc' = [pc EXCEPT ![t] = at] /\ pc[t] \in Writing /\ at \in Writing
    BY <1>6 DEF PutHead, PutTail, PutPart, Step, Writing
  <2>2. \A u \in Threads : SinkOf(u)' = SinkOf(u) /\ (pc'[u] \in Writing <=> pc[u] \in Writing)
    BY <1>0, <2>1 DEF SinkOf
  <2> QED BY <1>0, <2>1, <2>2 DEF LocksInv
<1>7. ASSUME NEW t \in Threads, UnlockSink(t) PROVE LocksInv'
  <2>1. /\ pc[t] = "flush" /\ pc' = [pc EXCEPT ![t] = "idle"] /\ entry' = [entry EXCEPT ![t] = NoEntry]
        /\ owner' = [owner EXCEPT ![SinkOf(t)] = Free]
    BY <1>7 DEF UnlockSink, Step
  <2>2. \A u \in Threads \ {t} : SinkOf(u)' = SinkOf(u) /\ pc'[u] = pc[u] /\ (pc[u] \in Writing => SinkOf(u) # SinkOf(t))
    BY <1>0, <2>1 DEF SinkOf, LocksInv, TypeOK, Writing
  <2> QED BY <1>0, <2>1, <2>2 DEF LocksInv, Writing
<1>8. CASE HandlerNext \/ UNCHANGED vars
  <2>1. UNCHANGED <<pc, entry, owner>>
    BY <1>8 DEF HandlerNext, Interrupt, HandlerHead, HandlerTail, vars, streamVars
  <2> QED BY <2>1 DEF LocksInv, SinkOf
<1> QED BY <1>2, <1>3, <1>4, <1>5, <1>6, <1>7, <1>8 DEF Next, ThreadNext

\* Without a signal, nobody writes to stderr beside another.
LEMMA HandlerStep == TypeOK /\ EntriesInv /\ LocksInv /\ HandlerInv /\ [Next]_vars => HandlerInv'
<1> SUFFICES ASSUME TypeOK, EntriesInv, LocksInv, HandlerInv, [Next]_vars PROVE HandlerInv'
  OBVIOUS
<1>0. signals \in Nat /\ Free \notin Threads /\ clashed \in BOOLEAN
  BY Names DEF TypeOK
<1> USE DEF HandlerInv
<1>1. ASSUME NEW t \in Threads, PutHead(t) \/ PutTail(t) PROVE HandlerInv'
  <2>1. PICK part \in {"head", "tail"} : PutPart(t, part) /\ pc[t] \in Writing
    BY <1>1 DEF PutHead, PutTail, Step, Writing
  <2>2. Put("stderr", Piece(entry[t], part), handler.at # "idle") /\ UNCHANGED handlerVars
    BY <2>1, PartWritten
  <2> QED BY <1>0, <2>2 DEF Put, handlerVars
<1>2. CASE HandlerHead \/ HandlerTail
  BY <1>0, <1>2 DEF HandlerHead, HandlerTail, Put, TypeOK
<1>3. ASSUME NEW t \in Threads, Interrupt(t) PROVE HandlerInv'
  BY <1>0, <1>3 DEF Interrupt, streamVars
<1>4. CASE UNCHANGED <<clashed, handlerVars>>
  BY <1>4 DEF handlerVars
<1>5. ASSUME NEW t \in Threads, ThreadNext(t), ~PutHead(t), ~PutTail(t) PROVE UNCHANGED <<clashed, handlerVars>>
  BY <1>5 DEF ThreadNext, NewEntry, Begin, Joined, Log, Localtime, Converted, ReadDate, ReadTime, LockSink, UnlockSink,
              streamVars
<1> QED BY <1>1, <1>2, <1>3, <1>4, <1>5 DEF Next, HandlerNext, vars, streamVars

-----------------------------------------------------------------------------
(* Times *)

\* An entry that overlapped no other reads its own time.
LEMMA TimesStep == TypeOK /\ EntriesInv /\ TimesInv /\ [Next]_vars => TimesInv'
<1> SUFFICES ASSUME TypeOK, EntriesInv, TimesInv, [Next]_vars PROVE TimesInv'
  OBVIOUS
<1>0. DOMAIN pc = Threads /\ entry \in [Threads -> Entries] /\ DOMAIN entry = Threads /\ \A t \in Threads : pc[t] # "terminated"
  BY DEF TypeOK, Formatting, Writing
<1> USE DEF Formatting, Writing
<1>1. ASSUME NEW t \in Threads, NewEntry(t) \/ Joined(t) \/ UnlockSink(t) PROVE TimesInv'
  <2>1. /\ tm' = tm /\ \A u \in Threads \ {t} : entry'[u] = entry[u] /\ pc'[u] = pc[u]
        /\ pc'[t] \in {"idle", "log", "gone"}
    BY <1>0, <1>1 DEF NewEntry, Begin, Joined, UnlockSink, Step, timeVars
  <2> QED BY <2>1 DEF TimesInv
<1>2. ASSUME NEW t \in Threads, Log(t) PROVE TimesInv'
  <2>1. /\ tm' = tm /\ pc[t] = "log" /\ pc' = [pc EXCEPT ![t] = "localtime"]
        /\ \A u \in Threads :
             /\ UNCHANGED <<entry[u].n, entry[u].date, entry[u].time>>
             /\ entry[u].overlapped => entry'[u].overlapped
             /\ u # t /\ pc[u] \in Formatting => entry'[u].overlapped /\ entry'[t].overlapped
    BY <1>2, LogChanges DEF Log, Step, timeVars
  <2>2. pc'[t] = "localtime" /\ \A u \in Threads \ {t} : pc'[u] = pc[u]
    BY <1>0, <2>1
  <2> QED BY <2>1, <2>2 DEF TimesInv
<1>3. ASSUME NEW t \in Threads, Localtime(t) \/ Converted(t) PROVE TimesInv'
  <2>1. \A u \in Threads \ {t} : pc'[u] = pc[u] /\ (pc[u] \in Formatting => entry[u].overlapped /\ entry[t].overlapped)
    BY <1>0, <1>3 DEF Localtime, Converted, Step, TimesInv
  <2>2. CASE Localtime(t)
    <3>1. pc[t] = "localtime" /\ pc'[t] = "convert" /\ entry' = entry /\ tm'.date = entry[t].n
      BY <1>0, <2>2 DEF Localtime, Step, TypeOK
    <3> QED BY <2>1, <3>1 DEF TimesInv
  <2>3. CASE Converted(t)
    <3>1. pc[t] = "convert" /\ pc'[t] = "date" /\ entry' = entry /\ tm'.date = tm.date /\ tm'.time = entry[t].n
      BY <1>0, <2>3 DEF Converted, Step, TypeOK
    <3> QED BY <2>1, <3>1 DEF TimesInv
  <2> QED BY <1>3, <2>2, <2>3
<1>4. ASSUME NEW t \in Threads, ReadDate(t) \/ ReadTime(t) PROVE TimesInv'
  <2>1. tm' = tm /\ \A u \in Threads \ {t} : pc'[u] = pc[u] /\ entry'[u] = entry[u]
    BY <1>0, <1>4 DEF ReadDate, ReadTime, Step, timeVars
  <2>2. CASE ReadDate(t)
    <3>1. pc[t] = "date" /\ pc'[t] = "time" /\ entry' = [entry EXCEPT ![t] = [entry[t] EXCEPT !.date = tm.date]]
      BY <1>0, <2>2 DEF ReadDate, Step
    <3>2. entry[t] \in Entries
      BY <1>0
    <3>3. /\ entry'[t].n = entry[t].n /\ entry'[t].overlapped = entry[t].overlapped
          /\ entry'[t].date = tm.date /\ entry'[t].time = entry[t].time
      BY <1>0, <3>1, <3>2 DEF Entries
    <3> QED BY <2>1, <3>1, <3>3 DEF TimesInv
  <2>3. CASE ReadTime(t)
    <3>1. pc[t] = "time" /\ pc'[t] = "lock" /\ entry' = [entry EXCEPT ![t] = [entry[t] EXCEPT !.time = tm.time]]
      BY <1>0, <2>3 DEF ReadTime, Step
    <3>2. entry[t] \in Entries
      BY <1>0
    <3>3. /\ entry'[t].n = entry[t].n /\ entry'[t].overlapped = entry[t].overlapped
          /\ entry'[t].date = entry[t].date /\ entry'[t].time = tm.time
      BY <1>0, <3>1, <3>2 DEF Entries
    <3> QED BY <2>1, <3>1, <3>3 DEF TimesInv
  <2> QED BY <1>4, <2>2, <2>3
<1>5. ASSUME NEW t \in Threads, LockSink(t) \/ PutHead(t) \/ PutTail(t) PROVE TimesInv'
  <2>1. /\ tm' = tm /\ entry' = entry /\ \A u \in Threads \ {t} : pc'[u] = pc[u]
        /\ pc[t] \in {"lock"} \cup Writing /\ pc'[t] \in Writing
    BY <1>0, <1>5 DEF LockSink, PutHead, PutTail, PutPart, Step, timeVars
  <2> QED BY <2>1 DEF TimesInv
<1>6. CASE HandlerNext \/ UNCHANGED vars
  <2>1. UNCHANGED <<pc, entry, tm>>
    BY <1>6 DEF HandlerNext, Interrupt, HandlerHead, HandlerTail, vars, timeVars
  <2> QED BY <2>1 DEF TimesInv
<1> QED BY <1>1, <1>2, <1>3, <1>4, <1>5, <1>6 DEF Next, ThreadNext

\* Steps that write nothing, and those that do.
LEMMA Quiet ==
  ASSUME [Next]_vars, ~(\E t \in Threads : PutHead(t) \/ PutTail(t)), ~HandlerHead, ~HandlerTail
  PROVE  UNCHANGED <<text, clashed>>
BY DEF Next, ThreadNext, HandlerNext, NewEntry, Begin, Joined, Log, Localtime, Converted, ReadDate, ReadTime, LockSink,
       UnlockSink, Interrupt, streamVars, vars

\* No line ever bears another entry's time unless the two overlapped.
LEMMA WrongTimeStep ==
  TypeOK /\ EntriesInv /\ LocksInv /\ TimesInv /\ WrongTimeOnlyIfOverlapped /\ [Next]_vars => WrongTimeOnlyIfOverlapped'
<1> SUFFICES ASSUME TypeOK, EntriesInv, LocksInv, TimesInv, WrongTimeOnlyIfOverlapped, [Next]_vars
             PROVE  WrongTimeOnlyIfOverlapped'
  OBVIOUS
<1> DEFINE Timed(p) == p.part # "garbled" /\ p.entry.n > 0 /\ ~p.entry.overlapped =>
                         p.entry.date = p.entry.n /\ p.entry.time = p.entry.n
<1>1. \A s \in Streams : \A i \in DOMAIN text[s] : Timed(text[s][i])
  BY DEF WrongTimeOnlyIfOverlapped
<1>2. SUFFICES \A s \in Streams : \A i \in DOMAIN text'[s] : Timed(text'[s][i])
  BY DEF WrongTimeOnlyIfOverlapped
<1>3. Timed(Garbled)
  BY DEF Garbled, Piece
<1>4. ASSUME NEW piece \in Pieces, NEW clash \in BOOLEAN, Put("stderr", piece, clash), Timed(piece)
      PROVE  \A s \in Streams : \A i \in DOMAIN text'[s] : Timed(text'[s][i])
  <2> HIDE DEF Timed
  <2>1. /\ text' \in [Streams -> Seq(Pieces)] /\ text'["stdout"] = text["stdout"] /\ text["stderr"] \in Seq(Pieces)
        /\ Len(text["stderr"]) \in Nat /\ Len(text'["stderr"]) = Len(text["stderr"]) + 1
        /\ \A i \in DOMAIN text["stderr"] : text'["stderr"][i] = text["stderr"][i]
        /\ text'["stderr"][Len(text["stderr"]) + 1] \in {piece, Garbled}
    <3>1. text["stderr"] \in Seq(Pieces)
      BY Names DEF TypeOK, Pieces
    <3> QED BY <1>4, <3>1, Appended
  <2>2. text'["stderr"] \in Seq(Pieces)
    BY <2>1, Names
  <2>3. \A i \in DOMAIN text'["stderr"] : i \in DOMAIN text["stderr"] \/ i = Len(text["stderr"]) + 1
    BY <2>1, <2>2
  <2> QED BY <1>1, <1>3, <1>4, <2>1, <2>3, Names
<1>5. ASSUME NEW t \in Threads, PutHead(t) \/ PutTail(t)
      PROVE  \A s \in Streams : \A i \in DOMAIN text'[s] : Timed(text'[s][i])
  <2>1. PICK part \in {"head", "tail"} : PutPart(t, part) /\ pc[t] \in Writing
    BY <1>5 DEF PutHead, PutTail, Step, Writing
  <2>2. Put("stderr", Piece(entry[t], part), handler.at # "idle") /\ Piece(entry[t], part) \in Pieces
    BY <2>1, PartWritten
  <2>3. Timed(Piece(entry[t], part))
    BY <2>1 DEF TimesInv, Piece
  <2> HIDE DEF Timed
  <2> QED BY <1>4, <2>2, <2>3
<1>6. CASE HandlerHead \/ HandlerTail
  <2>1. PICK part \in {"head", "tail"} : Put("stderr", Piece(SignalLine, part), Writers("stderr") # {})
    BY <1>6 DEF HandlerHead, HandlerTail
  <2>2. Timed(Piece(SignalLine, part))
    BY Typed DEF Piece
  <2> HIDE DEF Timed
  <2> QED BY <1>4, <2>1, <2>2, SignalWritten
<1>7. CASE UNCHANGED text
  BY <1>1, <1>7
<1> QED BY <1>5, <1>6, <1>7, Quiet

-----------------------------------------------------------------------------
(* Lines *)

\* The lines half written are those of the threads and the handler amid one.
LEMMA OpenAre ==
  /\ \A p : p \in OpenLines <=>
       \/ \E t \in Threads : pc[t] = "tail" /\ p = Piece(entry[t], "head")
       \/ handler.at = "tail" /\ p = Piece(SignalLine, "head")
BY DEF OpenLines

LEMMA OpenAreNext ==
  /\ \A p : p \in OpenLines' <=>
       \/ \E t \in Threads : pc'[t] = "tail" /\ p = Piece(entry'[t], "head")
       \/ handler'.at = "tail" /\ p = Piece(SignalLine, "head")
BY DEF OpenLines

\* The text of stderr, as long as nobody has been inside beside another.
Whole(t, open) ==
  /\ IF open = {} THEN Len(t) % 2 = 0 ELSE Len(t) % 2 = 1 /\ open = {t[Len(t)]}
  /\ \A i \in DOMAIN t : IF i % 2 = 1 THEN t[i].part = "head" ELSE t[i] = Piece(t[i - 1].entry, "tail")

\* A head after a whole line opens the next one ...
LEMMA HeadAfterWhole ==
  ASSUME NEW a \in Seq(Pieces), NEW b \in Seq(Pieces), NEW e, Whole(a, {}), Len(b) = Len(a) + 1,
         \A i \in DOMAIN a : b[i] = a[i], b[Len(a) + 1] = Piece(e, "head")
  PROVE  Whole(b, {Piece(e, "head")})
<1>1. Len(a) \in Nat /\ Len(a) % 2 = 0 /\ Len(b) % 2 = 1 /\ DOMAIN a = 1 .. Len(a) /\ DOMAIN b = 1 .. Len(a) + 1
  BY Parity DEF Whole
<1>2. ASSUME NEW i \in DOMAIN b
      PROVE  IF i % 2 = 1 THEN b[i].part = "head" ELSE b[i] = Piece(b[i - 1].entry, "tail")
  <2>1. CASE i = Len(a) + 1
    BY <1>1, <2>1 DEF Piece
  <2>2. CASE i \in DOMAIN a
    <3>1. i % 2 \in {0, 1} /\ (i % 2 = 0 => i - 1 \in DOMAIN a)
      BY <1>1, <2>2
    <3>2. b[i] = a[i] /\ (i % 2 = 0 => b[i - 1] = a[i - 1])
      BY <2>2, <3>1
    <3> QED BY <2>2, <3>1, <3>2 DEF Whole
  <2> QED BY <1>1, <2>1, <2>2
<1> QED BY <1>1, <1>2 DEF Whole

\* ... and the tail of the same entry completes it.
LEMMA TailAfterHead ==
  ASSUME NEW a \in Seq(Pieces), NEW b \in Seq(Pieces), NEW e, Whole(a, {Piece(e, "head")}), Len(b) = Len(a) + 1,
         \A i \in DOMAIN a : b[i] = a[i], b[Len(a) + 1] = Piece(e, "tail")
  PROVE  Whole(b, {})
<1>1. Len(a) \in Nat /\ Len(a) % 2 = 1 /\ a[Len(a)] = Piece(e, "head") /\ DOMAIN a = 1 .. Len(a) /\ DOMAIN b = 1 .. Len(a) + 1
  BY DEF Whole
<1>2. Len(b) % 2 = 0 /\ Len(a) \in DOMAIN a
  BY <1>1
<1>3. ASSUME NEW i \in DOMAIN b
      PROVE  IF i % 2 = 1 THEN b[i].part = "head" ELSE b[i] = Piece(b[i - 1].entry, "tail")
  <2>1. CASE i = Len(a) + 1
    <3>1. b[i - 1] = Piece(e, "head") /\ b[i] = Piece(e, "tail") /\ i % 2 = 0
      BY <1>1, <1>2, <2>1
    <3>2. b[i - 1].entry = e
      BY <3>1 DEF Piece
    <3> QED BY <3>1, <3>2
  <2>2. CASE i \in DOMAIN a
    <3>1. i % 2 \in {0, 1} /\ (i % 2 = 0 => i - 1 \in DOMAIN a)
      BY <1>1, <2>2
    <3>2. b[i] = a[i] /\ (i % 2 = 0 => b[i - 1] = a[i - 1])
      BY <2>2, <3>1
    <3> QED BY <2>2, <3>1, <3>2 DEF Whole
  <2> QED BY <1>1, <2>1, <2>2
<1> QED BY <1>2, <1>3 DEF Whole

\* Lines stay whole: nobody else writes between the head and the tail of one.
LEMMA LinesStep ==
  TypeOK /\ EntriesInv /\ LocksInv /\ HandlerInv /\ LinesInv /\ [Next]_vars => LinesInv'
<1> SUFFICES ASSUME TypeOK, EntriesInv, LocksInv, HandlerInv, LinesInv, [Next]_vars PROVE LinesInv'
  OBVIOUS
<1> DEFINE old == text["stderr"]
           new == text'["stderr"]
<1>0. /\ text["stdout"] = <<>> /\ (~clashed => Whole(old, OpenLines)) /\ old \in Seq(Pieces) /\ clashed \in BOOLEAN
      /\ DOMAIN pc = Threads /\ DOMAIN entry = Threads
  <2>1. old \in Seq(Pieces)
    BY Names DEF TypeOK, Pieces
  <2> QED BY <2>1 DEF LinesInv, Whole, TypeOK
<1>1. SUFFICES text'["stdout"] = <<>> /\ (~clashed' => Whole(new, OpenLines'))
  BY DEF LinesInv, Whole
<1>2. ASSUME NEW t \in Threads, pc[t] \in Writing PROVE \A u \in Threads : pc[u] = "tail" => u = t
  BY <1>2, AloneInside DEF Writing
<1>3. ASSUME NEW t \in Threads, PutHead(t) \/ PutTail(t)
      PROVE  text'["stdout"] = <<>> /\ (~clashed' => Whole(new, OpenLines'))
  <2>1. PICK part \in {"head", "tail"} :
          /\ PutPart(t, part) /\ pc[t] \in Writing /\ pc[t] = part
          /\ pc' = [pc EXCEPT ![t] = IF part = "head" THEN "tail" ELSE "flush"]
    <3>1. CASE PutHead(t)
      BY <3>1 DEF PutHead, Step, Writing
    <3>2. CASE PutTail(t)
      BY <3>2 DEF PutTail, Step, Writing
    <3> QED BY <1>3, <3>1, <3>2
  <2>2. /\ Piece(entry[t], part) \in Pieces /\ Put("stderr", Piece(entry[t], part), handler.at # "idle")
        /\ entry' = entry /\ handler' = handler
    BY <2>1, PartWritten DEF handlerVars
  <2>3. /\ clashed' = (clashed \/ handler.at # "idle") /\ text'["stdout"] = text["stdout"] /\ new \in Seq(Pieces)
        /\ Len(new) = Len(old) + 1 /\ \A i \in DOMAIN old : new[i] = old[i]
        /\ handler.at = "idle" => new[Len(old) + 1] = Piece(entry[t], part)
    BY <2>2, Appended, Names
  <2>4. ASSUME ~clashed' PROVE Whole(new, OpenLines')
    <3>1. ~clashed /\ handler.at = "idle" /\ new[Len(old) + 1] = Piece(entry[t], part) /\ Whole(old, OpenLines)
      BY <1>0, <2>3, <2>4
    <3>2. CASE part = "head"
      <4>1. OpenLines = {} /\ OpenLines' = {Piece(entry[t], "head")}
        <5>1. \A u \in Threads : pc[u] # "tail" /\ (pc'[u] = "tail" <=> u = t)
          BY <1>0, <1>2, <2>1, <3>2
        <5> QED BY <2>2, <3>1, <5>1, OpenAre, OpenAreNext
      <4> HIDE DEF old, new
      <4> QED BY <1>0, <2>3, <3>1, <3>2, <4>1, HeadAfterWhole
    <3>3. CASE part = "tail"
      <4>1. OpenLines = {Piece(entry[t], "head")} /\ OpenLines' = {}
        <5>1. \A u \in Threads : (pc[u] = "tail" <=> u = t) /\ pc'[u] # "tail"
          BY <1>0, <1>2, <2>1, <3>3
        <5> QED BY <2>2, <3>1, <5>1, OpenAre, OpenAreNext
      <4> HIDE DEF old, new
      <4> QED BY <1>0, <2>3, <3>1, <3>3, <4>1, TailAfterHead
    <3> QED BY <3>2, <3>3
  <2> QED BY <1>0, <2>3, <2>4
<1>4. CASE HandlerHead \/ HandlerTail
  <2>1. PICK part \in {"head", "tail"} :
          /\ Put("stderr", Piece(SignalLine, part), Writers("stderr") # {}) /\ handler.at = part
          /\ pc' = pc /\ entry' = entry /\ (handler'.at = "tail" <=> part = "head")
    <3>1. CASE HandlerHead
      <4>1. handler'.at = "tail"
        BY <3>1 DEF HandlerHead, TypeOK
      <4> QED BY <3>1, <4>1 DEF HandlerHead
    <3>2. CASE HandlerTail
      <4>1. handler'.at = "idle"
        BY <3>2 DEF HandlerTail
      <4> QED BY <3>2, <4>1 DEF HandlerTail
    <3> QED BY <1>4, <3>1, <3>2
  <2>2. /\ clashed' = (clashed \/ Writers("stderr") # {}) /\ text'["stdout"] = text["stdout"] /\ new \in Seq(Pieces)
        /\ Len(new) = Len(old) + 1 /\ \A i \in DOMAIN old : new[i] = old[i]
        /\ ~(Writers("stderr") # {}) => new[Len(old) + 1] = Piece(SignalLine, part)
    BY <2>1, SignalWritten, Appended, Names
  <2>3. ASSUME ~clashed' PROVE Whole(new, OpenLines')
    <3>1. ~clashed /\ Writers("stderr") = {} /\ new[Len(old) + 1] = Piece(SignalLine, part) /\ Whole(old, OpenLines)
      BY <1>0, <2>2, <2>3
    <3>2. \A u \in Threads : pc[u] # "tail"
      BY <3>1, SinkKnown DEF Writers, Writing
    <3>3. CASE part = "head"
      <4>1. OpenLines = {} /\ OpenLines' = {Piece(SignalLine, "head")}
        BY <2>1, <3>2, <3>3, OpenAre, OpenAreNext
      <4> HIDE DEF old, new
      <4> QED BY <1>0, <2>2, <3>1, <3>3, <4>1, HeadAfterWhole
    <3>4. CASE part = "tail"
      <4>1. OpenLines = {Piece(SignalLine, "head")} /\ OpenLines' = {}
        BY <2>1, <3>2, <3>4, OpenAre, OpenAreNext
      <4> HIDE DEF old, new
      <4> QED BY <1>0, <2>2, <3>1, <3>4, <4>1, TailAfterHead
    <3> QED BY <3>3, <3>4
  <2> QED BY <1>0, <2>2, <2>3
<1>5. ASSUME UNCHANGED <<text, clashed>>, handler'.at = "tail" <=> handler.at = "tail",
             \A u \in Threads : (pc'[u] = "tail" <=> pc[u] = "tail") /\ (pc[u] = "tail" => entry'[u] = entry[u])
      PROVE  text'["stdout"] = <<>> /\ (~clashed' => Whole(new, OpenLines'))
  <2>1. \A p : p \in OpenLines' <=> p \in OpenLines
    BY <1>5, OpenAre, OpenAreNext
  <2>2. OpenLines' = OpenLines
    BY <2>1
  <2> QED BY <1>0, <1>5, <2>2
<1>6. ASSUME NEW t \in Threads, ThreadNext(t), ~PutHead(t), ~PutTail(t)
      PROVE  \A u \in Threads : (pc'[u] = "tail" <=> pc[u] = "tail") /\ (pc[u] = "tail" => entry'[u] = entry[u])
  <2>1. CASE Log(t)
    <3>1. pc[t] = "log" /\ pc' = [pc EXCEPT ![t] = "localtime"]
      BY <2>1, LogChanges DEF Log, Step
    <3>2. \A u \in Threads : u # t /\ pc[u] \notin Formatting => entry'[u] = entry[u]
      BY <2>1, LogChanges
    <3> QED BY <1>0, <3>1, <3>2 DEF Formatting
  <2>2. CASE NewEntry(t) \/ Joined(t) \/ UnlockSink(t)
    <3>1. /\ pc[t] # "tail" /\ pc'[t] # "tail" /\ \A u \in Threads \ {t} : pc'[u] = pc[u] /\ entry'[u] = entry[u]
      BY <1>0, <2>2 DEF NewEntry, Begin, Joined, UnlockSink, Step
    <3> QED BY <3>1
  <2>3. CASE Localtime(t) \/ Converted(t) \/ ReadDate(t) \/ ReadTime(t) \/ LockSink(t)
    <3>1. /\ pc[t] # "tail" /\ pc'[t] # "tail" /\ \A u \in Threads \ {t} : pc'[u] = pc[u] /\ entry'[u] = entry[u]
      BY <1>0, <2>3 DEF Localtime, Converted, ReadDate, ReadTime, LockSink, Step
    <3> QED BY <3>1
  <2> QED BY <1>6, <2>1, <2>2, <2>3 DEF ThreadNext
<1>7. ASSUME NEW t \in Threads, ThreadNext(t), ~PutHead(t), ~PutTail(t) PROVE UNCHANGED <<text, clashed, handler>>
  BY <1>7 DEF ThreadNext, NewEntry, Begin, Joined, Log, Localtime, Converted, ReadDate, ReadTime, LockSink, UnlockSink,
              streamVars, handlerVars
<1>8. CASE (\E t \in Threads : Interrupt(t)) \/ UNCHANGED vars
  <2>1. UNCHANGED <<text, clashed, pc, entry>> /\ (handler'.at = "tail" <=> handler.at = "tail")
    BY <1>8 DEF Interrupt, HandlerInv, vars, streamVars, handlerVars
  <2> HIDE DEF new
  <2> QED BY <1>5, <2>1
<1> HIDE DEF new, old
<1> QED BY <1>3, <1>4, <1>5, <1>6, <1>7, <1>8 DEF Next, HandlerNext

-----------------------------------------------------------------------------
(* What is written *)

LEMMA EndedAre ==
  \A n : n \in Ended <=> n \in 1 .. created /\ \A u \in Threads : pc[u] # "flush" => entry[u].n # n
BY DEF Ended

LEMMA EndedAreNext ==
  \A n : n \in Ended' <=> n \in 1 .. created' /\ \A u \in Threads : pc'[u] # "flush" => entry'[u].n # n
BY DEF Ended

\* One more piece at the end of a text: one more tail, or none.
LEMMA TailsAppended ==
  ASSUME NEW n, text["stderr"] \in Seq(Pieces), text'["stderr"] \in Seq(Pieces),
         Len(text'["stderr"]) = Len(text["stderr"]) + 1,
         \A i \in DOMAIN text["stderr"] : text'["stderr"][i] = text["stderr"][i]
  PROVE  LET k == Len(text["stderr"]) + 1
             q == text'["stderr"][k]
         IN /\ k \notin TailsOf(n)
            /\ (q.entry.n = n /\ q.part = "tail") => TailsOf(n)' = TailsOf(n) \cup {k}
            /\ ~(q.entry.n = n /\ q.part = "tail") => TailsOf(n)' = TailsOf(n)
<1> DEFINE k == Len(text["stderr"]) + 1
<1>1. /\ DOMAIN text["stderr"] = 1 .. Len(text["stderr"]) /\ DOMAIN text'["stderr"] = 1 .. k
      /\ Len(text["stderr"]) \in Nat
  OBVIOUS
<1>2. k \notin DOMAIN text["stderr"] /\ \A i : i \in DOMAIN text'["stderr"] <=> i = k \/ i \in DOMAIN text["stderr"]
  BY <1>1
<1> HIDE DEF k
<1>3. /\ k \notin TailsOf(n)
      /\ \A i : i \in TailsOf(n)' <=>
           i \in TailsOf(n) \/ (i = k /\ text'["stderr"][k].entry.n = n /\ text'["stderr"][k].part = "tail")
  BY <1>2 DEF TailsOf
<1> QED BY <1>3 DEF k

LEMMA PieceIs == \A e, p : Piece(e, p).entry = e /\ Piece(e, p).part = p
BY DEF Piece

\* Every entry that is done with has one tail, and no other has any.
LEMMA WrittenStep ==
  TypeOK /\ EntriesInv /\ LocksInv /\ WrittenInv /\ [Next]_vars => WrittenInv'
<1> SUFFICES ASSUME TypeOK, EntriesInv, LocksInv, WrittenInv, [Next]_vars PROVE WrittenInv'
  OBVIOUS
<1> DEFINE once(n) == IF n \in Ended THEN \E i \in TailsOf(n) : TailsOf(n) = {i} ELSE TailsOf(n) = {}
           onceNext(n) == IF n \in Ended' THEN \E i \in TailsOf(n)' : TailsOf(n)' = {i} ELSE TailsOf(n)' = {}
<1>0. /\ DOMAIN pc = Threads /\ DOMAIN entry = Threads /\ text["stderr"] \in Seq(Pieces) /\ clashed \in BOOLEAN
      /\ created \in Nat
  <2>1. text["stderr"] \in Seq(Pieces)
    BY Names DEF TypeOK, Pieces
  <2> QED BY <2>1 DEF TypeOK
<1>1. ~clashed => \A n \in 1 .. MaxEntries : once(n)
  BY DEF WrittenInv
<1>2. SUFFICES ASSUME ~clashed' PROVE \A n \in 1 .. MaxEntries : onceNext(n)
  BY DEF WrittenInv
<1>3. ASSUME ~clashed, Ended' = Ended, \A n \in 1 .. MaxEntries : TailsOf(n)' = TailsOf(n)
      PROVE  \A n \in 1 .. MaxEntries : onceNext(n)
  BY <1>1, <1>3
<1>4. ASSUME created' = created, \A u \in Threads : entry'[u].n = entry[u].n /\ (pc'[u] = "flush" <=> pc[u] = "flush")
      PROVE  Ended' = Ended
  <2>1. \A n : n \in Ended' <=> n \in Ended
    BY <1>4, EndedAre, EndedAreNext
  <2> QED BY <2>1
<1>5. ASSUME UNCHANGED text PROVE \A n : TailsOf(n)' = TailsOf(n)
  BY <1>5 DEF TailsOf
<1>6. ASSUME NEW t \in Threads, PutHead(t) PROVE \A n \in 1 .. MaxEntries : onceNext(n)
  <2>1. PutPart(t, "head") /\ pc[t] = "head" /\ pc' = [pc EXCEPT ![t] = "tail"]
    BY <1>6 DEF PutHead, Step
  <2>2. /\ Piece(entry[t], "head") \in Pieces /\ Put("stderr", Piece(entry[t], "head"), handler.at # "idle")
        /\ entry' = entry /\ created' = created
    BY <2>1, PartWritten DEF Writing
  <2>3. /\ clashed' = (clashed \/ handler.at # "idle") /\ text' \in [Streams -> Seq(Pieces)]
        /\ Len(text'["stderr"]) = Len(text["stderr"]) + 1
        /\ \A i \in DOMAIN text["stderr"] : text'["stderr"][i] = text["stderr"][i]
        /\ handler.at = "idle" => text'["stderr"][Len(text["stderr"]) + 1] = Piece(entry[t], "head")
    BY <2>2, Appended
  <2>4. ~clashed /\ text'["stderr"][Len(text["stderr"]) + 1].part = "head" /\ text'["stderr"] \in Seq(Pieces)
    <3>1. text'["stderr"] \in Seq(Pieces)
      BY <2>3, Names
    <3>2. ~clashed /\ text'["stderr"][Len(text["stderr"]) + 1] = Piece(entry[t], "head")
      BY <1>0, <1>2, <2>3
    <3> QED BY <3>1, <3>2, PieceIs
  <2>5. \A n \in 1 .. MaxEntries : TailsOf(n)' = TailsOf(n)
    BY <1>0, <2>3, <2>4, TailsAppended
  <2>6. Ended' = Ended
    BY <1>0, <1>4, <2>1, <2>2
  <2> HIDE DEF onceNext
  <2> QED BY <1>3, <2>4, <2>5, <2>6
<1>7. ASSUME NEW t \in Threads, PutTail(t) PROVE \A n \in 1 .. MaxEntries : onceNext(n)
  <2>1. PutPart(t, "tail") /\ pc[t] = "tail" /\ pc' = [pc EXCEPT ![t] = "flush"]
    BY <1>7 DEF PutTail, Step
  <2>2. /\ Piece(entry[t], "tail") \in Pieces /\ Put("stderr", Piece(entry[t], "tail"), handler.at # "idle")
        /\ entry' = entry /\ created' = created
    BY <2>1, PartWritten DEF Writing
  <2>3. /\ clashed' = (clashed \/ handler.at # "idle") /\ text' \in [Streams -> Seq(Pieces)]
        /\ Len(text'["stderr"]) = Len(text["stderr"]) + 1
        /\ \A i \in DOMAIN text["stderr"] : text'["stderr"][i] = text["stderr"][i]
        /\ handler.at = "idle" => text'["stderr"][Len(text["stderr"]) + 1] = Piece(entry[t], "tail")
    BY <2>2, Appended
  <2> DEFINE k == Len(text["stderr"]) + 1
  <2>4. /\ ~clashed /\ text'["stderr"][k].part = "tail" /\ text'["stderr"][k].entry.n = entry[t].n
        /\ text'["stderr"] \in Seq(Pieces)
    <3>1. text'["stderr"] \in Seq(Pieces)
      BY <2>3, Names
    <3>2. ~clashed /\ text'["stderr"][k] = Piece(entry[t], "tail")
      BY <1>0, <1>2, <2>3
    <3> QED BY <3>1, <3>2, PieceIs
  <2>5. \A n : (n = entry[t].n => TailsOf(n)' = TailsOf(n) \cup {k}) /\ (n # entry[t].n => TailsOf(n)' = TailsOf(n))
    BY <1>0, <2>3, <2>4, TailsAppended
  <2>6. /\ entry[t].n \in 1 .. created
        /\ \A u \in Threads \ {t} : entry[u].n # entry[t].n
    <3>1. entry[t].n \in 1 .. created /\ \A u \in Threads \ {t} : Active(u) => entry[u].n # entry[t].n
      BY <2>1 DEF EntriesInv, Active
    <3>2. \A u \in Threads : ~Active(u) => entry[u].n = 0
      BY Typed DEF EntriesInv
    <3> QED BY <1>0, <3>1, <3>2
  <2>7. entry[t].n \notin Ended /\ \A n : n \in Ended' <=> n = entry[t].n \/ n \in Ended
    BY <1>0, <2>1, <2>2, <2>6, EndedAre, EndedAreNext
  <2> HIDE DEF k
  <2> QED BY <1>1, <2>4, <2>5, <2>7
<1>8. CASE HandlerHead \/ HandlerTail
  <2>1. PICK part \in {"head", "tail"} : Put("stderr", Piece(SignalLine, part), Writers("stderr") # {})
    BY <1>8 DEF HandlerHead, HandlerTail
  <2>2. /\ clashed' = (clashed \/ Writers("stderr") # {}) /\ text' \in [Streams -> Seq(Pieces)]
        /\ Len(text'["stderr"]) = Len(text["stderr"]) + 1
        /\ \A i \in DOMAIN text["stderr"] : text'["stderr"][i] = text["stderr"][i]
        /\ ~(Writers("stderr") # {}) => text'["stderr"][Len(text["stderr"]) + 1] = Piece(SignalLine, part)
    BY <2>1, SignalWritten, Appended
  <2>3. ~clashed /\ text'["stderr"][Len(text["stderr"]) + 1].entry.n = -1 /\ text'["stderr"] \in Seq(Pieces)
    <3>1. text'["stderr"] \in Seq(Pieces)
      BY <2>2, Names
    <3>2. ~clashed /\ text'["stderr"][Len(text["stderr"]) + 1] = Piece(SignalLine, part)
      BY <1>0, <1>2, <2>2
    <3> QED BY <3>1, <3>2, Typed, PieceIs
  <2>4. \A n \in 1 .. MaxEntries : TailsOf(n)' = TailsOf(n)
    <3>1. \A n \in 1 .. MaxEntries : n # -1
      BY LoggerAssumption
    <3> QED BY <1>0, <2>2, <2>3, <3>1, TailsAppended
  <2>5. Ended' = Ended
    BY <1>4, <1>8 DEF HandlerHead, HandlerTail
  <2> HIDE DEF onceNext
  <2> QED BY <1>3, <2>3, <2>4, <2>5
<1>9. ASSUME NEW t \in Threads, NewEntry(t) PROVE Ended' = Ended
  <2>1. PICK level \in LevelsOf[t] : Begin(t, level)
    BY <1>9 DEF NewEntry
  <2>2. /\ created' = created + 1 /\ pc[t] = "idle" /\ pc' = [pc EXCEPT ![t] = "log"]
        /\ \A u \in Threads \ {t} : entry'[u] = entry[u]
    BY <1>0, <2>1 DEF Begin, Step
  <2>3. entry'[t].n = created' /\ entry[t].n = 0
    <3>1. entry'[t] = [NoEntry EXCEPT !.n = created', !.level = level]
      BY <1>0, <2>1 DEF Begin
    <3>2. entry[t] = NoEntry
      BY <2>2 DEF EntriesInv, Active
    <3> QED BY <3>1, <3>2 DEF NoEntry
  <2>4. \A n : n \in Ended' <=> n \in Ended
    BY <1>0, <2>2, <2>3, EndedAre, EndedAreNext
  <2> QED BY <2>4
<1>10. ASSUME NEW t \in Threads, UnlockSink(t) PROVE Ended' = Ended
  <2>1. /\ created' = created /\ pc[t] = "flush" /\ pc' = [pc EXCEPT ![t] = "idle"]
        /\ entry' = [entry EXCEPT ![t] = NoEntry]
    BY <1>10 DEF UnlockSink, Step
  <2>2. entry'[t].n = 0 /\ \A u \in Threads \ {t} : entry'[u] = entry[u] /\ pc'[u] = pc[u]
    BY <1>0, <2>1, Typed
  <2>3. \A n : n \in Ended' <=> n \in Ended
    BY <1>0, <2>1, <2>2, EndedAre, EndedAreNext
  <2> QED BY <2>3
<1>11. ASSUME NEW t \in Threads, ThreadNext(t), ~PutHead(t), ~PutTail(t) PROVE Ended' = Ended
  <2>1. CASE Log(t)
    <3>1. pc[t] = "log" /\ pc' = [pc EXCEPT ![t] = "localtime"] /\ created' = created /\ \A u \in Threads : entry'[u].n = entry[u].n
      BY <2>1, LogChanges DEF Log, Step
    <3> QED BY <1>0, <1>4, <3>1
  <2>2. CASE ReadDate(t) \/ ReadTime(t)
    <3>1. entry[t] \in Entries
      BY DEF TypeOK
    <3>2. entry'[t].n = entry[t].n /\ \A u \in Threads \ {t} : entry'[u] = entry[u]
      BY <1>0, <2>2, <3>1 DEF ReadDate, ReadTime, Entries
    <3>3. pc[t] # "flush" /\ pc'[t] # "flush" /\ created' = created /\ \A u \in Threads \ {t} : pc'[u] = pc[u]
      BY <1>0, <2>2 DEF ReadDate, ReadTime, Step
    <3> QED BY <1>4, <3>2, <3>3
  <2>3. CASE Joined(t) \/ Localtime(t) \/ Converted(t) \/ LockSink(t)
    <3>1. /\ pc[t] # "flush" /\ pc'[t] # "flush" /\ created' = created /\ entry' = entry
          /\ \A u \in Threads \ {t} : pc'[u] = pc[u]
      BY <1>0, <2>3 DEF Joined, Localtime, Converted, LockSink, Step
    <3> QED BY <1>4, <3>1
  <2> QED BY <1>9, <1>10, <1>11, <2>1, <2>2, <2>3 DEF ThreadNext
<1>12. CASE ~(\E t \in Threads : PutHead(t) \/ PutTail(t)) /\ ~HandlerHead /\ ~HandlerTail
  <2>1. UNCHANGED <<text, clashed>>
    BY <1>12, Quiet
  <2>2. Ended' = Ended
    <3>1. CASE (\E t \in Threads : Interrupt(t)) \/ UNCHANGED vars
      BY <1>4, <3>1 DEF Interrupt, vars
    <3> QED BY <1>11, <1>12, <3>1 DEF Next, HandlerNext
  <2>3. ~clashed /\ \A n \in 1 .. MaxEntries : TailsOf(n)' = TailsOf(n)
    BY <1>2, <1>5, <2>1
  <2> HIDE DEF onceNext
  <2> QED BY <1>3, <2>2, <2>3
<1> HIDE DEF onceNext
<1> QED BY <1>6, <1>7, <1>8, <1>12

-----------------------------------------------------------------------------
(* The invariant and what follows from it *)

\* Before the first entry.
LEMMA LoggerInit == Init => LoggerInv
<1> SUFFICES ASSUME Init PROVE LoggerInv
  OBVIOUS
<1>1. /\ pc = [t \in Threads |-> "idle"] /\ entry = [t \in Threads |-> NoEntry] /\ created = 0
      /\ tm = [date |-> 0, time |-> 0] /\ tzLock = Free /\ owner = [s \in Sinks |-> Free]
      /\ text = [s \in Streams |-> <<>>] /\ handler = [on |-> Free, at |-> "idle"] /\ signals = 0 /\ clashed = FALSE
  BY DEF Init
<1>2. text["stdout"] = <<>> /\ text["stderr"] = <<>> /\ MaxEntries \in Nat /\ MaxSignals \in Nat /\ Free \notin Threads
  BY <1>1, Names, LoggerAssumption
<1>3. TypeOK
  <2>1. entry \in [Threads -> Entries] /\ text \in [Streams -> Seq(Pieces)]
    BY <1>1, Typed
  <2>2. tm \in [date : 0 .. MaxEntries, time : 0 .. MaxEntries] /\ created \in 0 .. MaxEntries /\ signals \in 0 .. MaxSignals
    BY <1>1, <1>2
  <2>3. handler \in [on : Threads \cup {Free}, at : {"idle", "head", "tail"}]
    BY <1>1
  <2> QED BY <1>1, <2>1, <2>2, <2>3 DEF TypeOK, Pieces
<1>4. EntriesInv /\ LocksInv /\ TimesInv
  BY <1>1 DEF EntriesInv, Active, LocksInv, TimesInv, Writing, Formatting
<1>5. HandlerInv
  BY <1>1 DEF HandlerInv
<1>6. LinesInv
  <2>1. OpenLines = {}
    BY <1>1, OpenAre
  <2> QED BY <1>2, <2>1 DEF LinesInv
<1>7. WrittenInv
  <2>1. \A n : TailsOf(n) = {}
    BY <1>2 DEF TailsOf
  <2>2. Ended = {}
    BY <1>1, EndedAre
  <2> QED BY <2>1, <2>2 DEF WrittenInv
<1>8. WrongTimeOnlyIfOverlapped
  BY <1>1 DEF WrongTimeOnlyIfOverlapped
<1> QED BY <1>3, <1>4, <1>5, <1>6, <1>7, <1>8 DEF LoggerInv

LEMMA LoggerStep == LoggerInv /\ [Next]_vars => LoggerInv'
BY TypeStep, EntriesStep, LocksStep, HandlerStep, TimesStep, LinesStep, WrittenStep, WrongTimeStep DEF LoggerInv

\* Who logs what, who holds which mutex and what has been written, for any number of
\* threads, entries and signals.
THEOREM LoggerInvariant == Spec => []LoggerInv
BY LoggerInit, LoggerStep, PTL DEF Spec

\* Every variable keeps its type, and no entry ends the process for want of a sink.
THEOREM Typing == Spec => []TypeOK
<1>1. LoggerInv => TypeOK
  BY DEF LoggerInv
<1> QED BY <1>1, LoggerInvariant, PTL

\* Lines of different threads never mix, although two mutexes stand before one buffer;
\* only the signal handler can tear one.
THEOREM LinesWhole == Spec => []WholeLines
<1>1. LoggerInv => WholeLines
  <2> SUFFICES ASSUME LoggerInv PROVE WholeLines
    OBVIOUS
  <2>1. text["stdout"] = <<>> /\ (clashed => signals > 0) /\ Streams = {"stdout", "stderr"}
    BY Names DEF LoggerInv, HandlerInv, LinesInv
  <2>2. ~clashed => \A i \in DOMAIN text["stderr"] :
          IF i % 2 = 1 THEN text["stderr"][i].part = "head"
          ELSE text["stderr"][i] = Piece(text["stderr"][i - 1].entry, "tail")
    BY DEF LoggerInv, LinesInv
  <2> QED BY <2>1, <2>2 DEF WholeLines
<1> QED BY <1>1, LoggerInvariant, PTL

\* A line bears another entry's date or time only if the two were formatted at the same time.
THEOREM OwnTimes == Spec => []WrongTimeOnlyIfOverlapped
<1>1. LoggerInv => WrongTimeOnlyIfOverlapped
  BY DEF LoggerInv
<1> QED BY <1>1, LoggerInvariant, PTL

\* Errors go to cerr and the rest to clog; what a thread is done with is written, once.
THEOREM Written == Spec => []WrittenOnce
<1>1. LoggerInv => WrittenOnce
  <2> SUFFICES ASSUME LoggerInv PROVE WrittenOnce
    OBVIOUS
  <2>1. TypeOK /\ LocksInv /\ WrittenInv
    BY DEF LoggerInv
  <2>2. ASSUME NEW s \in Sinks, owner[s] # Free PROVE (s = "@cerr") = (entry[owner[s]].level \in Errors)
    <3>1. owner[s] \in Threads /\ SinkOf(owner[s]) = s
      BY <2>1, <2>2 DEF TypeOK, LocksInv
    <3> QED BY <2>1, <3>1, SinkKnown
  <2>3. \A n \in Done : n \in Ended /\ n \in 1 .. MaxEntries
    <3>1. \A n \in Done : n \in 1 .. created /\ \A t \in Threads : entry[t].n # n
      BY DEF Done
    <3>2. created \in 0 .. MaxEntries /\ MaxEntries \in Nat
      BY <2>1, LoggerAssumption DEF TypeOK
    <3> QED BY <3>1, <3>2, EndedAre
  <2> QED BY <2>1, <2>2, <2>3 DEF WrittenOnce, WrittenInv
<1> QED BY <1>1, LoggerInvariant, PTL
=============================================================================
