------------------------- MODULE MetricStore_proofs -------------------------
(***************************************************************************)
(* Proofs about MetricStore, for every set of families, labels and         *)
(* scrapers, every age and any number of overlapping requests: what holds  *)
(* of its references and its series, that it implements Exposition, and    *)
(* what its responses hold because it does.                                *)
(***************************************************************************)
EXTENDS StoreExposition, TLAPS

-----------------------------------------------------------------------------
(* The inductive invariants *)

\* Behind ItemReferenceValid and FreshKept: who holds a family's mutex, what the
\* sweep's `now` is worth, and that an item's timestamp is that of its last sample,
\* except between newSample's lookup and its assignment to item.timestamp.
Holding == {"lookup", "sample", "sweep", "begin"}
MutexHeld ==
  \A f \in Families, t \in Threads : mutex[f] = t <=> pc[t] \in Holding /\ cur[t] = f
BeingSampled(f, l) == pc[Worker] = "sample" /\ cur[Worker] = f /\ label = l
StampsMatch ==
  \A f \in Families, l \in Labels :
    items[f][l] # Absent /\ ~BeingSampled(f, l) => items[f][l] = lastSample[f][l]
StoreInv ==
  TypeOK /\ MutexHeld /\ now <= clock /\ StampsMatch /\ ItemReferenceValid /\ FreshKept

\* What the refinement rests on besides StoreInv: a scrape counts as alone only while
\* no other is in service, and has written the families it no longer has to visit.
AloneInv ==
  \A s \in alone : pc[s] # "idle" /\ \A r \in Scrapers \ {s} : pc[r] = "idle"
WrittenBy(s) ==
  /\ pc[s] \in {"asked", "copy"} => Written = {}
  /\ pc[s] \in {"render", "begin", "end", "append"} => FamiliesIn(Written) = Families \ todo[s]
  /\ pc[s] \in {"begin", "end", "append"} => cur[s] \in todo[s]
  /\ pc[s] = "write" => FamiliesIn(Written) = Families
WrittenInv == \A s \in alone : WrittenBy(s)

\* And what CompleteExposition rests on besides: how far the text in the buffer is.
TextOf(s) ==
  /\ pc[s] \in {"asked", "copy"} => output = <<>>
  /\ pc[s] \in {"render", "begin", "end", "append"} => output \in Seq(Section)
  /\ pc[s] = "write" =>
       output # <<>> /\ output[Len(output)] = EOF /\ \A i \in 1 .. Len(output) - 1 : output[i] \in Section
OncePerFamily ==
  \A i, j \in DOMAIN output :
    output[i] \in Section /\ output[j] \in Section /\ output[i][1] = output[j][1] => i = j
TextInv == \A s \in alone : TextOf(s) /\ OncePerFamily

-----------------------------------------------------------------------------
(* References and series *)

\* Storing v at [f][l] of a table keeps it a table of values of S.
LEMMA TableUpdate ==
  ASSUME NEW F, NEW L, NEW S, NEW table \in [F -> [L -> S]], NEW f, NEW l, NEW v,
         f \in F /\ l \in L => v \in S
  PROVE  [table EXCEPT ![f][l] = v] \in [F -> [L -> S]]
<1>1. CASE f \in F
  <2>1. [table[f] EXCEPT ![l] = v] \in [L -> S]
    BY <1>1
  <2> QED
    BY <2>1
<1>2. CASE f \notin F
  BY <1>2
<1> QED
  BY <1>1, <1>2

\* Whatever a scrape writes, _output stays a text of sections and end marks.
Texts == Seq(Section \cup {EOF, Garbled})
LEMMA WriteTyped ==
  ASSUME NEW s, NEW text \in Texts, Write(s, text)
  PROVE  output' \in Texts
<1>1. <<Garbled>> \in Texts
  BY DEF Texts
<1> QED
  BY <1>1 DEF Write

\* The threads' positions and locals are of their types in every reachable state.
LEMMA ControlStep == TypeOK /\ [Next]_vars => ControlTyped'
<1> USE StoreAssumption DEF ControlTyped, Threads, WorkerPlaces, RoutinePlaces, ScrapePlaces, Visiting, Goto, Visit, Leave
<1> SUFFICES ASSUME ControlTyped, [Next]_vars PROVE ControlTyped'
  BY DEF TypeOK
<1>1. CASE CollectLock
  BY <1>1 DEF CollectLock, workerVars
<1>2. CASE Collect
  BY <1>2 DEF Collect, workerVars
<1>3. CASE ParseSample
  BY <1>3 DEF ParseSample, workerVars
<1>4. CASE SampleThrows
  BY <1>4 DEF SampleThrows, workerVars
<1>5. CASE NewSampleLock
  BY <1>5 DEF NewSampleLock, workerVars
<1>6. CASE NewSampleLookup
  BY <1>6 DEF NewSampleLookup, workerVars
<1>7. CASE NewSampleRecord
  BY <1>7 DEF NewSampleRecord, workerVars
<1>8. CASE MessageDone
  BY <1>8 DEF MessageDone, workerVars
<1>9. CASE RoundStart
  BY <1>9 DEF RoundStart, workerVars
<1>10. CASE SweepStart
  BY <1>10 DEF SweepStart, workerVars
<1>11. CASE SweepItem
  BY <1>11 DEF SweepItem, workerVars
<1>12. CASE SweepEnd
  BY <1>12 DEF SweepEnd, workerVars
<1>13. CASE RoundEnd
  BY <1>13 DEF RoundEnd, workerVars
<1>14. ASSUME NEW s \in Scrapers, ScrapeStart(s) PROVE ControlTyped'
  BY <1>14 DEF ScrapeStart, workerVars
<1>15. ASSUME NEW s \in Scrapers, ScrapeLock(s) PROVE ControlTyped'
  BY <1>15 DEF ScrapeLock, workerVars
<1>16. ASSUME NEW s \in Scrapers, ScrapeCopy(s) PROVE ControlTyped'
  BY <1>16 DEF ScrapeCopy, workerVars
<1>17. ASSUME NEW s \in Scrapers, BeginLock(s) PROVE ControlTyped'
  BY <1>17 DEF BeginLock, workerVars
<1>18. ASSUME NEW s \in Scrapers, BeginCopy(s) PROVE ControlTyped'
  BY <1>18 DEF BeginCopy, workerVars
<1>19. ASSUME NEW s \in Scrapers, EndCopy(s) PROVE ControlTyped'
  BY <1>19 DEF EndCopy, workerVars
<1>20. ASSUME NEW s \in Scrapers, AppendSection(s) PROVE ControlTyped'
  BY <1>20 DEF AppendSection, workerVars
<1>21. ASSUME NEW s \in Scrapers, AppendEof(s) PROVE ControlTyped'
  BY <1>21 DEF AppendEof, workerVars
<1>22. ASSUME NEW s \in Scrapers, WriteResponse(s) PROVE ControlTyped'
  BY <1>22 DEF WriteResponse, workerVars
<1>23. CASE Tick
  BY <1>23 DEF Tick, workerVars
<1>24. CASE UNCHANGED vars
  BY <1>24 DEF vars, workerVars
<1> QED
  BY <1>1, <1>2, <1>3, <1>4, <1>5, <1>6, <1>7, <1>8, <1>9, <1>10, <1>11, <1>12, <1>13, <1>14, <1>15, <1>16, <1>17, <1>18, <1>19, <1>20, <1>21, <1>22, <1>23, <1>24
     DEF Next, WorkerNext, RoutineNext, ScrapeNext, Aborted

\* The store, its locks and the buffer are of their types in every reachable state.
LEMMA DataStep == TypeOK /\ [Next]_vars => DataTyped'
<1> USE StoreAssumption DEF DataTyped, Threads, Absent, Never, Stamps, lockVars, workerVars, routineVars, scrapeVars, LockShared, UnlockShared, LockFamily, UnlockFamily
<1> SUFFICES ASSUME DataTyped, ControlTyped, [Next]_vars PROVE DataTyped'
  BY DEF TypeOK
<1>1. CASE CollectLock
  BY <1>1 DEF CollectLock
<1>2. CASE Collect
  BY <1>2 DEF Collect
<1>3. CASE ParseSample
  BY <1>3 DEF ParseSample
<1>4. CASE SampleThrows
  BY <1>4 DEF SampleThrows
<1>5. CASE NewSampleLock
  BY <1>5 DEF NewSampleLock
<1>6. CASE NewSampleLookup
  <2>1. items' \in [Families -> [Labels -> Stamps]]
    <3> DEFINE f == cur[Worker]
    <3> DEFINE stamp == IF items[f][label] = Absent THEN 0 ELSE items[f][label]
    <3>1. items' = [items EXCEPT ![f][label] = stamp]
      BY <1>6 DEF NewSampleLookup
    <3>2. f \in Families /\ label \in Labels => stamp \in Stamps
      OBVIOUS
    <3>3. items \in [Families -> [Labels -> Stamps]]
      OBVIOUS
    <3> HIDE DEF f, stamp, Stamps, DataTyped
    <3> QED
      BY <3>1, <3>2, <3>3, TableUpdate
  <2> QED
    BY <1>6, <2>1 DEF NewSampleLookup
<1>7. CASE NewSampleRecord
  <2>1. items' \in [Families -> [Labels -> Stamps]] /\ lastSample' \in [Families -> [Labels -> Stamps]]
    <3>1. items' = [items EXCEPT ![cur[Worker]][label] = clock] /\ lastSample' = [lastSample EXCEPT ![cur[Worker]][label] = clock]
      BY <1>7 DEF NewSampleRecord
    <3>2. clock \in Stamps
      OBVIOUS
    <3>3. items \in [Families -> [Labels -> Stamps]] /\ lastSample \in [Families -> [Labels -> Stamps]]
      OBVIOUS
    <3> HIDE DEF Stamps, DataTyped
    <3> QED
      BY <3>1, <3>2, <3>3, TableUpdate
  <2>2. mutex' \in [Families -> Threads \cup {Free}]
    BY <1>7 DEF NewSampleRecord
  <2> QED
    BY <1>7, <2>1, <2>2 DEF NewSampleRecord
<1>8. CASE MessageDone
  BY <1>8 DEF MessageDone
<1>9. CASE RoundStart
  BY <1>9 DEF RoundStart
<1>10. CASE SweepStart
  BY <1>10 DEF SweepStart
<1>11. CASE SweepItem
  <2>1. items' \in [Families -> [Labels -> Stamps]]
    <3> DEFINE f == cur[Routine]
    <3>1. PICK l \in scan : items' = [items EXCEPT ![f][l] = IF items[f][l] # Absent /\ Expired(items[f][l]) THEN Absent ELSE items[f][l]]
      BY <1>11 DEF SweepItem
    <3> DEFINE stamp == IF items[f][l] # Absent /\ Expired(items[f][l]) THEN Absent ELSE items[f][l]
    <3>2. f \in Families /\ l \in Labels => stamp \in Stamps
      OBVIOUS
    <3>3. items \in [Families -> [Labels -> Stamps]] /\ items' = [items EXCEPT ![f][l] = stamp]
      BY <3>1
    <3> HIDE DEF f, stamp, Stamps, DataTyped
    <3> QED
      BY <3>2, <3>3, TableUpdate
  <2> QED
    BY <1>11, <2>1 DEF SweepItem
<1>12. CASE SweepEnd
  <2>1. mutex' \in [Families -> Threads \cup {Free}]
    BY <1>12 DEF SweepEnd
  <2> QED
    BY <1>12, <2>1 DEF SweepEnd
<1>13. CASE RoundEnd
  BY <1>13 DEF RoundEnd
<1>14. ASSUME NEW s \in Scrapers, ScrapeStart(s) PROVE DataTyped'
  <2>1. <<>> \in Texts
    BY DEF Texts
  <2>2. output' \in Texts
    BY <1>14, <2>1, WriteTyped DEF ScrapeStart
  <2> QED
    BY <1>14, <2>2 DEF ScrapeStart, Texts
<1>15. ASSUME NEW s \in Scrapers, ScrapeLock(s) PROVE DataTyped'
  BY <1>15 DEF ScrapeLock
<1>16. ASSUME NEW s \in Scrapers, ScrapeCopy(s) PROVE DataTyped'
  BY <1>16 DEF ScrapeCopy
<1>17. ASSUME NEW s \in Scrapers, BeginLock(s) PROVE DataTyped'
  BY <1>17 DEF BeginLock
<1>18. ASSUME NEW s \in Scrapers, BeginCopy(s) PROVE DataTyped'
  BY <1>18 DEF BeginCopy
<1>19. ASSUME NEW s \in Scrapers, EndCopy(s) PROVE DataTyped'
  BY <1>19 DEF EndCopy
<1>20. ASSUME NEW s \in Scrapers, AppendSection(s) PROVE DataTyped'
  <2>1. output' \in Texts
    <3>1. <<cur[s], section[s]>> \in Section
      BY <1>20 DEF AppendSection, ControlTyped, Visiting, Goto, Section
    <3>2. Append(output, <<cur[s], section[s]>>) \in Texts
      BY <3>1 DEF Texts
    <3> QED
      BY <1>20, <3>2, WriteTyped DEF AppendSection
  <2> QED
    BY <1>20, <2>1 DEF AppendSection, Texts
<1>21. ASSUME NEW s \in Scrapers, AppendEof(s) PROVE DataTyped'
  <2>1. Append(output, EOF) \in Texts
    BY DEF Texts
  <2>2. output' \in Texts
    BY <1>21, <2>1, WriteTyped DEF AppendEof
  <2> QED
    BY <1>21, <2>2 DEF AppendEof, Texts
<1>22. ASSUME NEW s \in Scrapers, WriteResponse(s) PROVE DataTyped'
  BY <1>22 DEF WriteResponse, Unsampled
<1>23. CASE Tick
  BY <1>23 DEF Tick
<1>24. CASE UNCHANGED vars
  BY <1>24 DEF vars
<1> QED
  BY <1>1, <1>2, <1>3, <1>4, <1>5, <1>6, <1>7, <1>8, <1>9, <1>10, <1>11, <1>12, <1>13, <1>14, <1>15, <1>16, <1>17, <1>18, <1>19, <1>20, <1>21, <1>22, <1>23, <1>24
     DEF Next, WorkerNext, RoutineNext, ScrapeNext, Aborted

\* The initial state is typed ...
LEMMA InitTyped == Init => TypeOK
<1> SUFFICES ASSUME Init PROVE TypeOK
  OBVIOUS
<1> USE StoreAssumption DEF Init, Threads, Absent, Never, Stamps, Unsampled
<1>1. ControlTyped
  BY DEF ControlTyped, WorkerPlaces, RoutinePlaces, ScrapePlaces, Visiting
<1>2. DataTyped
  BY DEF DataTyped
<1> QED
  BY <1>1, <1>2 DEF TypeOK

\* ... and every step keeps it so.
LEMMA TypeStep == TypeOK /\ [Next]_vars => TypeOK'
BY ControlStep, DataStep DEF TypeOK

\* Every reachable state is typed, however many families, labels and scrapers there are.
THEOREM Typing == Spec => []TypeOK
BY InitTyped, TypeStep, PTL DEF Spec

\* A family's mutex is held by the thread that is inside it and by no other.
LEMMA MutexStep == TypeOK /\ MutexHeld /\ [Next]_vars => MutexHeld'
<1> USE StoreAssumption DEF MutexHeld, Holding, Threads, Goto, Visit, Leave, lockVars, LockShared, UnlockShared, LockFamily, UnlockFamily
<1> SUFFICES ASSUME MutexHeld, [Next]_vars, ControlTyped, mutex \in [Families -> Threads \cup {Free}]
             PROVE  MutexHeld'
  BY DEF TypeOK, DataTyped
<1> USE DEF ControlTyped, Visiting, WorkerPlaces, RoutinePlaces, ScrapePlaces
<1>1. CASE CollectLock
  BY <1>1 DEF CollectLock
<1>2. CASE Collect
  BY <1>2 DEF Collect
<1>3. CASE ParseSample
  BY <1>3 DEF ParseSample
<1>4. CASE SampleThrows
  BY <1>4 DEF SampleThrows
<1>5. CASE NewSampleLock
  BY <1>5 DEF NewSampleLock
<1>6. CASE NewSampleLookup
  BY <1>6 DEF NewSampleLookup
<1>7. CASE NewSampleRecord
  BY <1>7 DEF NewSampleRecord
<1>8. CASE MessageDone
  BY <1>8 DEF MessageDone
<1>9. CASE RoundStart
  BY <1>9 DEF RoundStart
<1>10. CASE SweepStart
  BY <1>10 DEF SweepStart
<1>11. CASE SweepItem
  BY <1>11 DEF SweepItem
<1>12. CASE SweepEnd
  BY <1>12 DEF SweepEnd
<1>13. CASE RoundEnd
  BY <1>13 DEF RoundEnd
<1>14. ASSUME NEW s \in Scrapers, ScrapeStart(s) PROVE MutexHeld'
  BY <1>14 DEF ScrapeStart
<1>15. ASSUME NEW s \in Scrapers, ScrapeLock(s) PROVE MutexHeld'
  BY <1>15 DEF ScrapeLock
<1>16. ASSUME NEW s \in Scrapers, ScrapeCopy(s) PROVE MutexHeld'
  BY <1>16 DEF ScrapeCopy
<1>17. ASSUME NEW s \in Scrapers, BeginLock(s) PROVE MutexHeld'
  BY <1>17 DEF BeginLock
<1>18. ASSUME NEW s \in Scrapers, BeginCopy(s) PROVE MutexHeld'
  BY <1>18 DEF BeginCopy
<1>19. ASSUME NEW s \in Scrapers, EndCopy(s) PROVE MutexHeld'
  BY <1>19 DEF EndCopy
<1>20. ASSUME NEW s \in Scrapers, AppendSection(s) PROVE MutexHeld'
  BY <1>20 DEF AppendSection
<1>21. ASSUME NEW s \in Scrapers, AppendEof(s) PROVE MutexHeld'
  BY <1>21 DEF AppendEof
<1>22. ASSUME NEW s \in Scrapers, WriteResponse(s) PROVE MutexHeld'
  BY <1>22 DEF WriteResponse
<1>23. CASE Tick
  BY <1>23 DEF Tick
<1>24. CASE UNCHANGED vars
  BY <1>24 DEF vars
<1> QED
  BY <1>1, <1>2, <1>3, <1>4, <1>5, <1>6, <1>7, <1>8, <1>9, <1>10, <1>11, <1>12, <1>13, <1>14, <1>15, <1>16, <1>17, <1>18, <1>19, <1>20, <1>21, <1>22, <1>23, <1>24
     DEF Next, WorkerNext, RoutineNext, ScrapeNext, Aborted
\* The part of StoreInv about items and their timestamps.
StampParts == now <= clock /\ StampsMatch /\ ItemReferenceValid /\ FreshKept

\* No step of any thread breaks it, given who holds the mutexes.
LEMMA StampStep == StoreInv /\ [Next]_vars => StampParts'
<1> USE StoreAssumption DEF StampParts, StampsMatch, ItemReferenceValid, FreshKept, Fresh, BeingSampled, Stamps, Absent, Never, Goto, Leave, lockVars, workerVars, routineVars
<1> SUFFICES ASSUME StampParts, MutexHeld, ControlTyped, [Next]_vars,
                    clock \in 0..MaxTime, now \in 0..MaxTime, scan \subseteq Labels,
                    items \in [Families -> [Labels -> Stamps]],
                    lastSample \in [Families -> [Labels -> Stamps]]
             PROVE  StampParts'
  BY DEF StoreInv, TypeOK, DataTyped
<1> USE DEF ControlTyped, Visiting, WorkerPlaces, RoutinePlaces, ScrapePlaces, Threads
<1>1. CASE CollectLock
  BY <1>1 DEF CollectLock
<1>2. CASE Collect
  BY <1>2 DEF Collect
<1>3. CASE ParseSample
  BY <1>3 DEF ParseSample
<1>4. CASE SampleThrows
  BY <1>4 DEF SampleThrows
<1>5. CASE NewSampleLock
  BY <1>5 DEF NewSampleLock
<1>6. CASE NewSampleLookup
  BY <1>6 DEF NewSampleLookup
<1>7. CASE NewSampleRecord
  BY <1>7 DEF NewSampleRecord
<1>8. CASE MessageDone
  BY <1>8 DEF MessageDone
<1>9. CASE RoundStart
  BY <1>9 DEF RoundStart
<1>10. CASE SweepStart
  BY <1>10 DEF SweepStart, Visit
<1>11. CASE SweepItem
  <2> DEFINE g == cur[Routine]
  <2>1. g \in Families /\ ~(pc[Worker] = "sample" /\ cur[Worker] = g)
    BY <1>11 DEF SweepItem, MutexHeld, Holding
  <2>2. PICK x \in scan :
          items' = [items EXCEPT ![g][x] = IF items[g][x] # Absent /\ Expired(items[g][x])
                                           THEN Absent ELSE items[g][x]]
    BY <1>11 DEF SweepItem
  <2>3. \A f \in Families, l \in Labels :
          items'[f][l] = items[f][l] \/ (f = g /\ items'[f][l] = Absent /\ ~Fresh(lastSample, f, l))
    BY <2>1, <2>2 DEF Expired
  <2>4. UNCHANGED <<pc, cur, label, clock, now, lastSample>>
    BY <1>11 DEF SweepItem
  <2> QED
    BY <2>1, <2>3, <2>4
<1>12. CASE SweepEnd
  BY <1>12 DEF SweepEnd
<1>13. CASE RoundEnd
  BY <1>13 DEF RoundEnd
<1>14. ASSUME NEW s \in Scrapers, ScrapeStart(s) PROVE StampParts'
  BY <1>14 DEF ScrapeStart
<1>15. ASSUME NEW s \in Scrapers, ScrapeLock(s) PROVE StampParts'
  BY <1>15 DEF ScrapeLock
<1>16. ASSUME NEW s \in Scrapers, ScrapeCopy(s) PROVE StampParts'
  BY <1>16 DEF ScrapeCopy
<1>17. ASSUME NEW s \in Scrapers, BeginLock(s) PROVE StampParts'
  BY <1>17 DEF BeginLock, Visit
<1>18. ASSUME NEW s \in Scrapers, BeginCopy(s) PROVE StampParts'
  BY <1>18 DEF BeginCopy
<1>19. ASSUME NEW s \in Scrapers, EndCopy(s) PROVE StampParts'
  BY <1>19 DEF EndCopy
<1>20. ASSUME NEW s \in Scrapers, AppendSection(s) PROVE StampParts'
  BY <1>20 DEF AppendSection
<1>21. ASSUME NEW s \in Scrapers, AppendEof(s) PROVE StampParts'
  BY <1>21 DEF AppendEof
<1>22. ASSUME NEW s \in Scrapers, WriteResponse(s) PROVE StampParts'
  BY <1>22 DEF WriteResponse
<1>23. CASE Tick
  BY <1>23 DEF Tick
<1>24. CASE UNCHANGED vars
  BY <1>24 DEF vars
<1> QED
  BY <1>1, <1>2, <1>3, <1>4, <1>5, <1>6, <1>7, <1>8, <1>9, <1>10, <1>11, <1>12, <1>13, <1>14, <1>15, <1>16, <1>17, <1>18, <1>19, <1>20, <1>21, <1>22, <1>23, <1>24
     DEF Next, WorkerNext, RoutineNext, ScrapeNext, Aborted

\* StoreInv holds in every reachable state.
THEOREM StoreInvariant == Spec => []StoreInv
<1>1. Init => StoreInv
  <2> SUFFICES ASSUME Init PROVE StoreInv
    OBVIOUS
  <2>1. TypeOK
    BY InitTyped
  <2>2. MutexHeld /\ now <= clock /\ StampsMatch /\ ItemReferenceValid /\ FreshKept
    <3> USE StoreAssumption DEF Init, Threads
    <3>1. MutexHeld
      BY DEF MutexHeld, Holding
    <3>2. now <= clock /\ ItemReferenceValid
      BY DEF ItemReferenceValid
    <3>3. StampsMatch
      BY DEF StampsMatch
    <3>4. FreshKept
      BY DEF FreshKept, Fresh, Unsampled
    <3> QED
      BY <3>1, <3>2, <3>3, <3>4
  <2> QED
    BY <2>1, <2>2 DEF StoreInv
<1>2. StoreInv /\ [Next]_vars => StoreInv'
  BY TypeStep, MutexStep, StampStep DEF StoreInv, StampParts
<1> QED
  BY <1>1, <1>2, PTL DEF Spec

\* The reference newSample holds into the family's map never points to an erased
\* item, for any number of families, labels and scrapers and any maxAge.
THEOREM ReferenceSafety == Spec => []ItemReferenceValid
<1>1. StoreInv => ItemReferenceValid
  BY DEF StoreInv
<1> QED
  BY StoreInvariant, <1>1, PTL

\* A time series sampled within maxAge is in its family's map, whatever the sweep does.
THEOREM FreshSeriesKept == Spec => []FreshKept
<1>1. StoreInv => FreshKept
  BY DEF StoreInv
<1> QED
  BY StoreInvariant, <1>1, PTL

-----------------------------------------------------------------------------
(* What the steps of MetricStore are to Exposition *)

\* A section is neither of the two marks.
LEMMA MarksAreNoSections == EOF \notin Section /\ Garbled \notin Section
<1>1. \A x \in Section : Len(x) = 2
  BY DEF Section
<1>2. Len(EOF) = 1 /\ Len(Garbled) = 1
  BY DEF EOF, Garbled
<1> QED BY <1>1, <1>2

\* What writing does to the sections in the buffer.
LEMMA WrittenAppend ==
  ASSUME NEW x, output \in Texts, output' = Append(output, x), x \in Section \cup {EOF}
  PROVE  Written' = IF x \in Section THEN Written \cup {x} ELSE Written
<1>1. \A i \in DOMAIN output' : output'[i] = IF i = Len(output) + 1 THEN x ELSE output[i]
  BY DEF Texts
<1>2. DOMAIN output' = DOMAIN output \cup {Len(output) + 1}
  BY DEF Texts
<1>3. {output'[i] : i \in DOMAIN output'} = {output[i] : i \in DOMAIN output} \cup {x}
  BY <1>1, <1>2 DEF Texts
<1> QED BY <1>3 DEF Written
LEMMA WrittenClear == output' = <<>> => Written' = {}
BY DEF Written
LEMMA WrittenSame == output' = output => Written' = Written
BY DEF Written

\* One more section is one more family and its series.
LEMMA OneMoreFamily ==
  ASSUME NEW S, NEW g, NEW ls
  PROVE  FamiliesIn(S \cup {<<g, ls>>}) = FamiliesIn(S) \cup {g}
<1>1. <<g, ls>>[1] = g
  OBVIOUS
<1> QED BY <1>1 DEF FamiliesIn
LEMMA ItsSeries ==
  ASSUME NEW S, NEW g, NEW ls
  PROVE  SeriesIn(S \cup {<<g, ls>>}) = SeriesIn(S) \cup SeriesOf(g, ls)
<1>1. <<g, ls>>[1] = g /\ <<g, ls>>[2] = ls
  OBVIOUS
<1>2. {SeriesOf(x[1], x[2]) : x \in S \cup {<<g, ls>>}} = {SeriesOf(x[1], x[2]) : x \in S} \cup {SeriesOf(g, ls)}
  BY <1>1, Zenon
<1> QED BY <1>2 DEF SeriesIn

\* The worker, the sweep and the clock leave a scrape where it is.
ScrapesStay ==
  /\ \A s \in Scrapers : pc'[s] = pc[s] /\ todo'[s] = todo[s] /\ cur'[s] = cur[s]
  /\ UNCHANGED <<section, output, atStart, alone>>
LEMMA OtherThreads ==
  ASSUME ControlTyped, WorkerNext \/ RoutineNext \/ Tick \/ UNCHANGED vars
  PROVE  ScrapesStay
<1> USE StoreAssumption DEF ControlTyped, Threads, ScrapesStay, Goto, Visit, Leave, routineVars, scrapeVars
<1>1. CASE WorkerNext
  BY <1>1 DEF WorkerNext, CollectLock, Collect, ParseSample, SampleThrows, NewSampleLock,
              NewSampleLookup, NewSampleRecord, MessageDone
<1>2. CASE RoutineNext
  BY <1>2 DEF RoutineNext, RoundStart, SweepStart, SweepItem, SweepEnd, RoundEnd
<1>3. CASE Tick
  BY <1>3 DEF Tick
<1>4. CASE UNCHANGED vars
  BY <1>4 DEF vars
<1> QED BY <1>1, <1>2, <1>3, <1>4

\* A step of one scrape leaves the others where they are.
LEMMA OtherScrapes ==
  ASSUME ControlTyped, NEW s \in Scrapers, ScrapeNext(s)
  PROVE  \A t \in Threads \ {s} : pc'[t] = pc[t] /\ todo'[t] = todo[t] /\ cur'[t] = cur[t]
BY StoreAssumption DEF ControlTyped, Threads, Goto, Visit, Leave, ScrapeNext, ScrapeStart, ScrapeLock,
  ScrapeCopy, BeginLock, BeginCopy, EndCopy, AppendSection, AppendEof, WriteResponse

\* A scrape counts as alone only while no other is in service.
LEMMA AloneStep == TypeOK /\ AloneInv /\ [Next]_vars => AloneInv'
<1> SUFFICES ASSUME ControlTyped, alone \subseteq Scrapers, AloneInv, [Next]_vars PROVE AloneInv'
  BY DEF TypeOK, DataTyped
<1> USE DEF AloneInv
<1>1. CASE WorkerNext \/ RoutineNext \/ Tick \/ UNCHANGED vars
  BY <1>1, OtherThreads DEF ScrapesStay, vars
<1>2. ASSUME NEW s \in Scrapers, ScrapeNext(s) PROVE AloneInv'
  <2> USE StoreAssumption DEF ControlTyped, Threads, Goto
  <2>1. CASE ScrapeStart(s)
    BY <2>1 DEF ScrapeStart, Overlapping
  <2>2. CASE WriteResponse(s)
    BY <2>2 DEF WriteResponse
  <2>3. CASE ScrapeLock(s) \/ ScrapeCopy(s) \/ BeginLock(s) \/ BeginCopy(s) \/ EndCopy(s) \/ AppendSection(s) \/ AppendEof(s)
    BY <2>3 DEF ScrapeLock, ScrapeCopy, BeginLock, BeginCopy, EndCopy, AppendSection, AppendEof, scrapeVars
  <2> QED BY <1>2, <2>1, <2>2, <2>3 DEF ScrapeNext
<1> QED BY <1>1, <1>2 DEF Next, Aborted

\* Only a scrape that is alone writes exactly what it means to.
LEMMA AloneWrites ==
  ASSUME AloneInv, NEW s \in alone, NEW text, Write(s, text)
  PROVE  output' = text
BY DEF AloneInv, Write, Overlapping


\* The families in the buffer are those the scrape no longer has to visit.
LEMMA WrittenStep == TypeOK /\ AloneInv /\ WrittenInv /\ [Next]_vars => WrittenInv'
<1> SUFFICES ASSUME ControlTyped, alone \subseteq Scrapers, output \in Texts, section \in [Scrapers -> SUBSET Labels],
                    AloneInv, WrittenInv, [Next]_vars
             PROVE  WrittenInv'
  BY DEF TypeOK, DataTyped, Texts
<1>1. CASE WorkerNext \/ RoutineNext \/ Tick \/ UNCHANGED vars
  <2>1. ScrapesStay /\ Written' = Written
    BY <1>1, OtherThreads, WrittenSame DEF ScrapesStay
  <2> QED BY <2>1 DEF WrittenInv, WrittenBy, ScrapesStay, FamiliesIn
<1>2. ASSUME NEW s \in Scrapers, ScrapeNext(s) PROVE WrittenInv'
  <2>1. alone' \subseteq {s}
    BY <1>2 DEF ScrapeNext, AloneInv, Goto, ScrapeStart, ScrapeLock, ScrapeCopy, BeginLock, BeginCopy,
                EndCopy, AppendSection, AppendEof, WriteResponse, scrapeVars
  <2> SUFFICES ASSUME s \in alone' PROVE WrittenBy(s)'
    BY <2>1 DEF WrittenInv
  <2> USE StoreAssumption DEF ControlTyped, Threads, WrittenBy
  <2>2. CASE ScrapeStart(s)
    <3>1. output' = <<>> /\ pc'[s] = "asked"
      BY <2>2 DEF ScrapeStart, Write, Goto, Overlapping
    <3> QED BY <3>1, WrittenClear
  <2>3. CASE WriteResponse(s)
    BY <2>3 DEF WriteResponse
  <2>4. ASSUME ~ScrapeStart(s), ~WriteResponse(s) PROVE s \in alone /\ WrittenBy(s)
    BY <1>2, <2>4 DEF WrittenInv, ScrapeNext, ScrapeLock, ScrapeCopy, BeginLock, BeginCopy, EndCopy, AppendSection, AppendEof, scrapeVars
  <2>5. CASE ScrapeLock(s) \/ ScrapeCopy(s) \/ BeginLock(s) \/ BeginCopy(s) \/ EndCopy(s)
    <3>1. s \in alone /\ WrittenBy(s) /\ Written' = Written
      BY <2>4, <2>5, WrittenSame DEF Goto, ScrapeStart, WriteResponse, ScrapeLock, ScrapeCopy, BeginLock, BeginCopy, EndCopy, scrapeVars
    <3>2. CASE ScrapeCopy(s)
      <4>1. pc'[s] = "render" /\ todo'[s] = Families /\ Written' = {}
        BY <3>1, <3>2 DEF ScrapeCopy, Goto
      <4> QED BY <4>1 DEF FamiliesIn
    <3>3. CASE ScrapeLock(s) \/ BeginLock(s) \/ BeginCopy(s) \/ EndCopy(s)
      BY <3>1, <3>3 DEF Goto, Visit, ScrapeLock, BeginLock, BeginCopy, EndCopy, FamiliesIn
    <3> QED BY <2>5, <3>2, <3>3
  <2>6. CASE AppendSection(s)
    <3> DEFINE x == <<cur[s], section[s]>>
    <3>1. s \in alone /\ WrittenBy(s) /\ pc[s] = "append" /\ pc'[s] = "render" /\ todo'[s] = todo[s] \ {cur[s]}
      BY <2>4, <2>6 DEF Goto, Leave, ScrapeStart, WriteResponse, AppendSection
    <3>2. x \in Section
      BY <3>1 DEF Section, Visiting
    <3>3. Written' = Written \cup {x}
      BY <2>6, <3>1, <3>2, AloneWrites, WrittenAppend DEF AppendSection
    <3>4. FamiliesIn(Written') = FamiliesIn(Written) \cup {cur[s]}
      BY <3>3, OneMoreFamily
    <3>5. cur[s] \in Families
      BY <3>1 DEF Visiting
    <3>6. FamiliesIn(Written)' = Families \ todo'[s]
      BY <3>1, <3>4, <3>5 DEF FamiliesIn
    <3> QED BY <3>1, <3>6
  <2>7. CASE AppendEof(s)
    <3>1. s \in alone /\ WrittenBy(s) /\ pc[s] = "render" /\ pc'[s] = "write" /\ todo[s] = {}
      BY <2>4, <2>7 DEF Goto, ScrapeStart, WriteResponse, AppendEof
    <3>2. Written' = Written
      BY <2>7, <3>1, AloneWrites, WrittenAppend, MarksAreNoSections DEF AppendEof
    <3> QED BY <3>1, <3>2 DEF FamiliesIn
  <2> QED BY <1>2, <2>2, <2>3, <2>5, <2>6, <2>7 DEF ScrapeNext
<1> QED BY <1>1, <1>2 DEF Next, Aborted

-----------------------------------------------------------------------------
(* The step simulation *)

RefinementInv == StoreInv /\ AloneInv /\ WrittenInv

\* The two halves of what Exposition sees.
Store == <<clock, Present, lastSample, BeingRecorded>>
View  == <<ServiceOf, FamiliesOf, ShownTo, atStart>>

LEMMA Stutter == Store' = Store /\ View' = View => UNCHANGED E!vars
BY DEF Store, View, E!vars

LEMMA ViewStays == ScrapesStay => View' = View
<1> SUFFICES ASSUME ScrapesStay PROVE View' = View
  OBVIOUS
<1>1. Written' = Written
  BY WrittenSame DEF ScrapesStay
<1>2. \A s \in Scrapers : Service(s)' = Service(s) /\ Rendered(s)' = Rendered(s)
  BY <1>1 DEF ScrapesStay, Service, Rendered
<1> QED BY <1>2 DEF View, ScrapesStay, ServiceOf, FamiliesOf, ShownTo

\* The worker: recording a sample is Record, then Stamp.
LEMMA WorkerRefines == RefinementInv /\ WorkerNext => [E!Next]_(E!vars)
<1> SUFFICES ASSUME RefinementInv, WorkerNext PROVE [E!Next]_(E!vars)
  OBVIOUS
<1> USE StoreAssumption
<1>0. View' = View
  BY OtherThreads, ViewStays DEF RefinementInv, StoreInv, TypeOK
<1>1. ControlTyped /\ items \in [Families -> [Labels -> Stamps]] /\ clock \in 0 .. MaxTime
  BY DEF RefinementInv, StoreInv, TypeOK, DataTyped
<1>2. CASE NewSampleLookup
  <2> DEFINE f == cur[Worker]
  <2>1. f \in Families /\ label \in Labels /\ f' = f /\ label' = label
    BY <1>1, <1>2 DEF ControlTyped, Visiting, Threads, NewSampleLookup, Goto, workerVars
  <2>2. BeingRecorded = Free /\ BeingRecorded' = <<f, label>>
    BY <1>1, <1>2, <2>1 DEF BeingRecorded, NewSampleLookup, Goto, ControlTyped, Threads
  <2>3. \A g \in Families, l \in Labels :
          items'[g][l] = IF g = f /\ l = label /\ items[g][l] = Absent THEN 0 ELSE items[g][l]
    BY <1>1, <1>2 DEF NewSampleLookup
  <2>4. Present' = Present \cup {<<f, label>>}
    BY <2>1, <2>3 DEF Present, Absent
  <2>5. E!Record(f, label)
    BY <1>0, <1>2, <2>2, <2>4 DEF E!Record, View, NewSampleLookup, workerVars
  <2> QED BY <2>1, <2>5 DEF E!Next
<1>3. CASE NewSampleRecord
  <2> DEFINE f == cur[Worker]
  <2>1. f \in Families /\ label \in Labels /\ items[f][label] # Absent
    BY <1>1, <1>3 DEF ControlTyped, Visiting, Threads, NewSampleRecord, Goto, RefinementInv, StoreInv, ItemReferenceValid
  <2>2. BeingRecorded = <<f, label>> /\ BeingRecorded' = Free
    BY <1>1, <1>3 DEF BeingRecorded, NewSampleRecord, Goto, ControlTyped, Threads
  <2>3. \A g \in Families, l \in Labels :
          items'[g][l] = IF g = f /\ l = label THEN clock ELSE items[g][l]
    BY <1>1, <1>3 DEF NewSampleRecord
  <2>4. Present' = Present
    BY <1>1, <2>1, <2>3 DEF Present, Absent
  <2>5. E!Stamp(f, label)
    BY <1>0, <1>3, <2>2, <2>4 DEF E!Stamp, View, NewSampleRecord
  <2> QED BY <2>1, <2>5 DEF E!Next
<1>4. CASE CollectLock \/ Collect \/ ParseSample \/ SampleThrows \/ NewSampleLock \/ MessageDone
  <2>1. UNCHANGED <<clock, items, lastSample>>
    BY <1>4 DEF CollectLock, Collect, ParseSample, SampleThrows, NewSampleLock, MessageDone, workerVars
  <2>2. BeingRecorded' = BeingRecorded
    BY <1>1, <1>4 DEF CollectLock, Collect, ParseSample, SampleThrows, NewSampleLock, MessageDone, workerVars,
                      BeingRecorded, Goto, ControlTyped, Threads
  <2> QED BY <1>0, <2>1, <2>2, Stutter DEF Store, Present
<1> QED BY <1>2, <1>3, <1>4 DEF WorkerNext

\* The sweep: an item it erases is one Expire allows.
LEMMA RoutineRefines == RefinementInv /\ RoutineNext => [E!Next]_(E!vars)
<1> SUFFICES ASSUME RefinementInv, RoutineNext PROVE [E!Next]_(E!vars)
  OBVIOUS
<1> USE StoreAssumption
<1>0. View' = View
  BY OtherThreads, ViewStays DEF RefinementInv, StoreInv, TypeOK
<1>1. /\ ControlTyped /\ items \in [Families -> [Labels -> Stamps]] /\ lastSample \in [Families -> [Labels -> Stamps]]
      /\ clock \in 0 .. MaxTime /\ now \in 0 .. MaxTime /\ now <= clock /\ scan \subseteq Labels
      /\ StampsMatch /\ MutexHeld
  BY DEF RefinementInv, StoreInv, TypeOK, DataTyped
<1>2. BeingRecorded' = BeingRecorded /\ UNCHANGED <<clock, lastSample>>
  BY <1>1 DEF RoutineNext, RoundStart, SweepStart, SweepItem, SweepEnd, RoundEnd, Goto, Visit, Leave,
              BeingRecorded, ControlTyped, Threads, workerVars
<1>3. CASE SweepItem
  <2> DEFINE g == cur[Routine]
  <2>1. g \in Families /\ ~(pc[Worker] = "sample" /\ cur[Worker] = g)
    BY <1>1, <1>3 DEF SweepItem, ControlTyped, Visiting, MutexHeld, Holding, Threads
  <2>2. PICK x \in scan :
          items' = [items EXCEPT ![g][x] = IF items[g][x] # Absent /\ Expired(items[g][x])
                                           THEN Absent ELSE items[g][x]]
    BY <1>3 DEF SweepItem
  <2>3. CASE items[g][x] # Absent /\ Expired(items[g][x])
    <3>1. \A f \in Families, l \in Labels : items'[f][l] = IF f = g /\ l = x THEN Absent ELSE items[f][l]
      BY <1>1, <2>2, <2>3
    <3>2. Present' = Present \ {<<g, x>>} /\ <<g, x>> \in Present
      BY <1>1, <2>1, <2>3, <3>1 DEF Present
    <3>3. BeingRecorded # <<g, x>>
      BY <1>1, <2>1 DEF BeingRecorded, Threads
    <3>4. items[g][x] = lastSample[g][x]
      BY <1>1, <2>1, <2>3 DEF StampsMatch, BeingSampled
    <3>5. ~E!Fresh(lastSample, g, x)
      BY <1>1, <2>1, <2>3, <3>4 DEF E!Fresh, Expired, Stamps, Absent
    <3>6. E!Expire(g, x)
      BY <1>0, <1>2, <3>2, <3>3, <3>5 DEF E!Expire, View
    <3> QED BY <1>1, <2>1, <3>6 DEF E!Next
  <2>4. CASE ~(items[g][x] # Absent /\ Expired(items[g][x]))
    <3>1. \A f \in Families, l \in Labels : items'[f][l] = items[f][l]
      BY <1>1, <2>2, <2>4
    <3>2. Present' = Present
      BY <3>1 DEF Present
    <3> QED BY <1>0, <1>2, <3>2, Stutter DEF Store
  <2> QED BY <2>3, <2>4
<1>4. CASE RoundStart \/ SweepStart \/ SweepEnd \/ RoundEnd
  <2>1. Present' = Present
    BY <1>4 DEF RoundStart, SweepStart, SweepEnd, RoundEnd, Present
  <2> QED BY <1>0, <1>2, <2>1, Stutter DEF Store
<1> QED BY <1>3, <1>4 DEF RoutineNext

\* A scrape: its start is Ask, its copy of a family Show, its answer Answer.
LEMMA ScrapeRefines ==
  ASSUME RefinementInv, NEW s \in Scrapers, ScrapeNext(s)
  PROVE  [E!Next]_(E!vars)
<1> USE StoreAssumption
<1>1. ControlTyped /\ AloneInv /\ WrittenInv /\ MutexHeld /\ alone \subseteq Scrapers
  BY DEF RefinementInv, StoreInv, TypeOK, DataTyped
<1>2. Store' = Store
  <2>1. UNCHANGED <<clock, items, lastSample, label>> /\ pc'[Worker] = pc[Worker] /\ cur'[Worker] = cur[Worker]
    BY <1>1, OtherScrapes DEF ScrapeNext, ScrapeStart, ScrapeLock, ScrapeCopy, BeginLock, BeginCopy, EndCopy,
       AppendSection, AppendEof, WriteResponse, workerVars, Threads
  <2> QED BY <2>1 DEF Store, Present, BeingRecorded
<1>3. \A r \in Scrapers \ {s} : pc'[r] = pc[r] /\ cur'[r] = cur[r]
  BY <1>1, OtherScrapes DEF Threads
<1>4. CASE ScrapeStart(s)
  <2> DEFINE others == {r \in Scrapers : Service(r) # "idle"}
  <2>1. pc[s] = "idle" /\ pc'[s] = "asked" /\ others = Overlapping(s)
    BY <1>1, <1>4 DEF ScrapeStart, Goto, Service, Overlapping, ControlTyped, Threads
  <2>2. \A r \in Scrapers : Rendered(r)' = {}
    <3>1. CASE others = {}
      <4>1. Written' = {}
        BY <1>4, <2>1, <3>1, WrittenClear DEF ScrapeStart, Write
      <4> QED BY <1>4, <2>1, <3>1, <4>1 DEF ScrapeStart, Rendered
    <3>2. CASE others # {}
      BY <1>4, <2>1, <3>2 DEF ScrapeStart, Rendered
    <3> QED BY <3>1, <3>2
  <2>3. \A r \in Scrapers : FamiliesIn(Rendered(r))' = {} /\ SeriesIn(Rendered(r))' = {}
    BY <2>2 DEF FamiliesIn, SeriesIn
  <2>4. \A r \in Scrapers :
          Service(r)' = IF others = {} THEN (IF r = s THEN "whole" ELSE Service(r))
                        ELSE IF r \in others \cup {s} THEN "torn" ELSE "idle"
    BY <1>3, <1>4, <2>1 DEF ScrapeStart, Service
  <2>5. E!Ask(s)
    <3>1. [r \in Scrapers |-> Service(r)'] =
            IF others = {} THEN [[r \in Scrapers |-> Service(r)] EXCEPT ![s] = "whole"]
            ELSE [r \in Scrapers |-> IF r \in others \cup {s} THEN "torn" ELSE "idle"]
      BY <2>4
    <3>2. others = {r \in Scrapers : [q \in Scrapers |-> Service(q)][r] # "idle"}
      OBVIOUS
    <3> QED BY <1>2, <1>4, <2>1, <2>3, <3>1, <3>2 DEF E!Ask, Store, ScrapeStart, Service, ServiceOf, FamiliesOf, ShownTo
  <2> QED BY <2>5 DEF E!Next
<1>5. CASE BeginCopy(s) /\ s \in alone
  <2> DEFINE f == cur[s]
             L == {l \in Labels : items[f][l] # Absent}
  <2>1. pc[s] = "begin" /\ pc'[s] = "end" /\ f \in Families /\ f' = f /\ section'[s] = L
    BY <1>1, <1>5 DEF BeginCopy, Goto, ControlTyped, Visiting, Threads, RefinementInv, StoreInv, TypeOK, DataTyped
  <2>2. alone = {s} /\ alone' = {s} /\ Written' = Written
    BY <1>1, <1>5, <2>1, WrittenSame DEF BeginCopy, AloneInv
  <2>3. Rendered(s) = Written /\ Rendered(s)' = Rendered(s) \cup {<<f, L>>}
    BY <2>1, <2>2 DEF Rendered
  <2>4. /\ FamiliesIn(Rendered(s))' = FamiliesIn(Rendered(s)) \cup {f}
        /\ SeriesIn(Rendered(s))' = SeriesIn(Rendered(s)) \cup SeriesOf(f, L)
    <3> DEFINE more == Rendered(s) \cup {<<f, L>>}
    <3>1. FamiliesIn(more) = FamiliesIn(Rendered(s)) \cup {f}
      BY OneMoreFamily
    <3>2. SeriesIn(more) = SeriesIn(Rendered(s)) \cup SeriesOf(f, L)
      BY ItsSeries
    <3>3. FamiliesIn(Rendered(s))' = FamiliesIn(Rendered(s)') /\ SeriesIn(Rendered(s))' = SeriesIn(Rendered(s)')
      BY DEF FamiliesIn, SeriesIn
    <3>4. FamiliesIn(Rendered(s)') = FamiliesIn(more) /\ SeriesIn(Rendered(s)') = SeriesIn(more)
      BY <2>3
    <3> QED BY <3>1, <3>2, <3>3, <3>4
  <2>5. SeriesOf(f, L) = Present \cap ({f} \X Labels)
    BY <2>1 DEF SeriesOf, Present
  <2>6. f \notin FamiliesIn(Rendered(s))
    BY <1>1, <2>1, <2>2, <2>3 DEF WrittenInv, WrittenBy
  <2>7. \A l \in Labels : BeingRecorded # <<f, l>>
    BY <1>1, <2>1 DEF BeingRecorded, MutexHeld, Holding, Threads
  <2>8. \A r \in Scrapers \ {s} : Rendered(r)' = Rendered(r)
    BY <2>2 DEF Rendered
  <2>9. \A r \in Scrapers : Service(r)' = Service(r)
    BY <1>3, <2>1, <2>2 DEF Service
  <2>10. E!Show(s, f)
    BY <1>2, <1>5, <2>1, <2>2, <2>4, <2>5, <2>6, <2>7, <2>8, <2>9 DEF E!Show, Store, Service, BeginCopy, ServiceOf, FamiliesOf, ShownTo
  <2> QED BY <2>1, <2>10 DEF E!Next
<1>6. CASE WriteResponse(s)
  <2>1. pc[s] = "write" /\ pc'[s] = "idle" /\ alone' = alone \ {s} /\ Written' = Written
    BY <1>1, <1>6, WrittenSame DEF WriteResponse, Goto, ControlTyped, Threads
  <2>2. s \in alone => FamiliesIn(Rendered(s)) = Families
    BY <1>1, <2>1 DEF WrittenInv, WrittenBy, Rendered
  <2>3. \A r \in Scrapers : Rendered(r)' = IF r = s THEN {} ELSE Rendered(r)
    BY <1>1, <1>3, <2>1 DEF Rendered, AloneInv
  <2>4. \A r \in Scrapers : Service(r)' = IF r = s THEN "idle" ELSE Service(r)
    BY <1>3, <2>1 DEF Service
  <2>5. FamiliesIn({}) = {} /\ SeriesIn({}) = {}
    BY DEF FamiliesIn, SeriesIn
  <2>6. E!Answer(s)
    BY <1>2, <1>6, <2>1, <2>2, <2>3, <2>4, <2>5 DEF E!Answer, Store, Service, WriteResponse, Unsampled, E!Unsampled, Never, E!Never, ServiceOf, FamiliesOf, ShownTo
  <2> QED BY <2>6 DEF E!Next
<1>7. CASE ~(BeginCopy(s) /\ s \in alone) /\ (ScrapeLock(s) \/ ScrapeCopy(s) \/ BeginLock(s) \/ BeginCopy(s) \/ EndCopy(s) \/ AppendSection(s) \/ AppendEof(s))
  <2>1. alone' = alone /\ atStart' = atStart /\ pc[s] # "idle" /\ pc'[s] # "idle"
    BY <1>1, <1>7 DEF ScrapeLock, ScrapeCopy, BeginLock, BeginCopy, EndCopy, AppendSection, AppendEof, Goto,
                      ControlTyped, Threads, scrapeVars
  <2>2. \A r \in Scrapers : Service(r)' = Service(r)
    BY <1>3, <2>1 DEF Service
  <2>3. \A r \in Scrapers \ {s} : r \notin alone
    BY <1>1, <2>1 DEF AloneInv
  <2>4. s \in alone => Rendered(s)' = Rendered(s)
    <3> SUFFICES ASSUME s \in alone PROVE Rendered(s)' = Rendered(s)
      OBVIOUS
    <3>1. CASE AppendSection(s)
      <4>1. pc[s] = "append" /\ pc'[s] = "render" /\ <<cur[s], section[s]>> \in Section
        BY <1>1, <3>1 DEF AppendSection, Goto, ControlTyped, Visiting, Threads, Section, RefinementInv, StoreInv, TypeOK, DataTyped
      <4>2. Written' = Written \cup {<<cur[s], section[s]>>}
        BY <1>1, <3>1, <4>1, AloneWrites, WrittenAppend DEF AppendSection, Texts, RefinementInv, StoreInv, TypeOK, DataTyped
      <4> QED BY <2>1, <4>1, <4>2 DEF Rendered
    <3>2. CASE AppendEof(s)
      <4>1. pc[s] = "render" /\ pc'[s] = "write"
        BY <1>1, <3>2 DEF AppendEof, Goto, ControlTyped, Threads
      <4>2. Written' = Written
        BY <1>1, <3>2, AloneWrites, WrittenAppend, MarksAreNoSections
           DEF AppendEof, Texts, RefinementInv, StoreInv, TypeOK, DataTyped
      <4> QED BY <2>1, <4>1, <4>2 DEF Rendered
    <3>3. CASE ScrapeLock(s) \/ ScrapeCopy(s) \/ BeginLock(s) \/ EndCopy(s)
      <4>1. Written' = Written
        BY <3>3, WrittenSame DEF ScrapeLock, ScrapeCopy, BeginLock, EndCopy, scrapeVars
      <4>2. pc'[s] \in {"end", "append"} <=> pc[s] \in {"end", "append"}
        BY <1>1, <3>3 DEF ScrapeLock, ScrapeCopy, BeginLock, EndCopy, Goto, ControlTyped, Threads
      <4>3. pc[s] \in {"end", "append"} => cur'[s] = cur[s] /\ section'[s] = section[s]
        BY <1>1, <3>3 DEF ScrapeLock, ScrapeCopy, BeginLock, EndCopy, Goto, ControlTyped, Threads, scrapeVars
      <4> QED BY <2>1, <4>1, <4>2, <4>3 DEF Rendered
    <3> QED BY <1>7, <3>1, <3>2, <3>3
  <2>5. \A r \in Scrapers : Rendered(r)' = Rendered(r)
    BY <2>1, <2>3, <2>4 DEF Rendered
  <2>6. View' = View
    BY <2>1, <2>2, <2>5 DEF View, ServiceOf, FamiliesOf, ShownTo
  <2> QED BY <1>2, <2>6, Stutter
<1> QED BY <1>4, <1>5, <1>6, <1>7 DEF ScrapeNext

\* The initial state is Exposition's.
LEMMA InitRefines == Init => E!Init
<1> SUFFICES ASSUME Init PROVE E!Init
  OBVIOUS
<1>1. Present = {}
  BY DEF Init, Present
<1>2. BeingRecorded = Free
  BY StoreAssumption DEF Init, BeingRecorded, Threads
<1>3. \A s \in Scrapers : Service(s) = "idle" /\ Rendered(s) = {}
  BY DEF Init, Service, Rendered, Threads
<1>4. FamiliesIn({}) = {} /\ SeriesIn({}) = {}
  BY DEF FamiliesIn, SeriesIn
<1> QED BY <1>1, <1>2, <1>3, <1>4 DEF Init, E!Init, Unsampled, E!Unsampled, Never, E!Never, ServiceOf, FamiliesOf, ShownTo

\* Every step of the store is one of Exposition's, or changes nothing a client sees.
LEMMA StepRefines == RefinementInv /\ [Next]_vars => [E!Next]_(E!vars)
<1> SUFFICES ASSUME RefinementInv, [Next]_vars PROVE [E!Next]_(E!vars)
  OBVIOUS
<1>1. CASE UNCHANGED vars
  <2>1. View' = View
    BY <1>1, OtherThreads, ViewStays DEF RefinementInv, StoreInv, TypeOK
  <2>2. Store' = Store
    BY <1>1 DEF vars, workerVars, Store, Present, BeingRecorded
  <2> QED BY <2>1, <2>2, Stutter
<1>2. CASE Tick
  <2>1. View' = View
    BY <1>2, OtherThreads, ViewStays DEF RefinementInv, StoreInv, TypeOK
  <2>2. Present' = Present /\ BeingRecorded' = BeingRecorded
    BY <1>2 DEF Tick, workerVars, Present, BeingRecorded
  <2> QED BY <1>2, <2>1, <2>2 DEF Tick, workerVars, View, E!Tick, E!Next
<1> QED BY <1>1, <1>2, WorkerRefines, RoutineRefines, ScrapeRefines DEF Next, Aborted

\* The invariant the simulation needs holds in every reachable state.
LEMMA RefinementInvariant == Spec => []RefinementInv
<1>1. Init => AloneInv /\ WrittenInv
  BY DEF Init, AloneInv, WrittenInv
<1>2. StoreInv /\ AloneInv /\ WrittenInv /\ [Next]_vars => AloneInv' /\ WrittenInv'
  BY AloneStep, WrittenStep DEF StoreInv
<1> QED BY <1>1, <1>2, StoreInvariant, PTL DEF Spec, RefinementInv

\* The store with its locks, sweeps and shared buffer implements what Exposition
\* promises to the clients of /metrics (App.cpp, MetricFamily.hpp).
THEOREM Implementation == Spec => ImplementsExposition
<1>1. Spec => E!Init
  BY InitRefines DEF Spec
<1> QED BY <1>1, StepRefines, RefinementInvariant, PTL DEF Spec, ImplementsExposition, E!Spec

-----------------------------------------------------------------------------
(* What is in the response of a scrape that is alone *)

\* One more section, of a family that has none yet.
LEMMA AppendOnce ==
  ASSUME output \in Seq(Section), OncePerFamily, NEW g \in Families, NEW ls \in SUBSET Labels,
         \A i \in DOMAIN output : output[i][1] # g, output' = Append(output, <<g, ls>>)
  PROVE  output' \in Seq(Section) /\ OncePerFamily'
<1>1. <<g, ls>> \in Section /\ <<g, ls>>[1] = g
  BY DEF Section
<1>2. \A i \in DOMAIN output' : output'[i] = IF i = Len(output) + 1 THEN <<g, ls>> ELSE output[i]
  OBVIOUS
<1>3. DOMAIN output' = DOMAIN output \cup {Len(output) + 1} /\ Len(output) \in Nat
  OBVIOUS
<1>4. output' \in Seq(Section)
  BY <1>1
<1>5. SUFFICES ASSUME NEW i \in DOMAIN output', NEW j \in DOMAIN output', output'[i][1] = output'[j][1],
                      output'[i] \in Section, output'[j] \in Section
               PROVE  i = j
  BY <1>4 DEF OncePerFamily
<1>6. CASE i \in DOMAIN output /\ j \in DOMAIN output
  BY <1>2, <1>3, <1>5, <1>6 DEF OncePerFamily
<1>7. CASE i = Len(output) + 1 /\ j # Len(output) + 1
  BY <1>1, <1>2, <1>3, <1>5, <1>7
<1>8. CASE j = Len(output) + 1 /\ i # Len(output) + 1
  BY <1>1, <1>2, <1>3, <1>5, <1>8
<1> QED BY <1>3, <1>6, <1>7, <1>8

\* The text of a scrape that is alone grows section by section up to the end marker.
LEMMA TextStep == TypeOK /\ AloneInv /\ WrittenInv /\ TextInv /\ [Next]_vars => TextInv'
<1> SUFFICES ASSUME ControlTyped, alone \subseteq Scrapers, section \in [Scrapers -> SUBSET Labels],
                    AloneInv, WrittenInv, TextInv, [Next]_vars
             PROVE  TextInv'
  BY DEF TypeOK, DataTyped
<1>1. CASE WorkerNext \/ RoutineNext \/ Tick \/ UNCHANGED vars
  <2>1. ScrapesStay
    BY <1>1, OtherThreads
  <2> QED BY <2>1 DEF TextInv, TextOf, OncePerFamily, ScrapesStay
<1>2. ASSUME NEW s \in Scrapers, ScrapeNext(s) PROVE TextInv'
  <2>1. alone' \subseteq {s}
    BY <1>2 DEF ScrapeNext, AloneInv, Goto, ScrapeStart, ScrapeLock, ScrapeCopy, BeginLock, BeginCopy,
                EndCopy, AppendSection, AppendEof, WriteResponse, scrapeVars
  <2> SUFFICES ASSUME s \in alone' PROVE TextOf(s)' /\ OncePerFamily'
    BY <2>1 DEF TextInv
  <2> USE StoreAssumption DEF ControlTyped, Threads, TextOf
  <2>2. CASE ScrapeStart(s)
    <3>1. output' = <<>> /\ pc'[s] = "asked"
      BY <2>2 DEF ScrapeStart, Write, Goto, Overlapping
    <3> QED BY <3>1 DEF OncePerFamily
  <2>3. CASE WriteResponse(s)
    BY <2>3 DEF WriteResponse
  <2>4. ASSUME ~ScrapeStart(s), ~WriteResponse(s) PROVE s \in alone /\ TextOf(s) /\ OncePerFamily /\ WrittenBy(s)
    BY <1>2, <2>4 DEF TextInv, WrittenInv, ScrapeNext, ScrapeLock, ScrapeCopy, BeginLock, BeginCopy, EndCopy,
                      AppendSection, AppendEof, scrapeVars
  <2>5. CASE ScrapeLock(s) \/ ScrapeCopy(s) \/ BeginLock(s) \/ BeginCopy(s) \/ EndCopy(s)
    <3>1. TextOf(s) /\ OncePerFamily /\ output' = output
      BY <2>4, <2>5 DEF Goto, ScrapeStart, WriteResponse, ScrapeLock, ScrapeCopy, BeginLock, BeginCopy, EndCopy, scrapeVars
    <3>2. OncePerFamily'
      BY <3>1 DEF OncePerFamily
    <3>3. CASE ScrapeLock(s)
      BY <3>1, <3>2, <3>3 DEF ScrapeLock, Goto
    <3>4. CASE ScrapeCopy(s)
      BY <3>1, <3>2, <3>4 DEF ScrapeCopy, Goto
    <3>5. CASE BeginLock(s) \/ BeginCopy(s) \/ EndCopy(s)
      BY <3>1, <3>2, <3>5 DEF BeginLock, BeginCopy, EndCopy, Goto
    <3> QED BY <2>5, <3>3, <3>4, <3>5
  <2>6. CASE AppendSection(s)
    <3>1. s \in alone /\ TextOf(s) /\ OncePerFamily /\ WrittenBy(s) /\ pc[s] = "append" /\ pc'[s] = "render"
      BY <2>4, <2>6 DEF Goto, ScrapeStart, WriteResponse, AppendSection
    <3>2. cur[s] \in Families /\ section[s] \in SUBSET Labels
      BY <3>1 DEF Visiting
    <3>3. \A i \in DOMAIN output : output[i][1] # cur[s]
      <4>1. cur[s] \notin FamiliesIn(Written)
        BY <3>1 DEF WrittenBy
      <4>2. \A i \in DOMAIN output : output[i] \in Written
        BY <3>1 DEF Written
      <4> QED BY <4>1, <4>2 DEF FamiliesIn
    <3>4. output' = Append(output, <<cur[s], section[s]>>)
      BY <2>6, <3>1, AloneWrites DEF AppendSection
    <3>5. output' \in Seq(Section) /\ OncePerFamily'
      BY <3>1, <3>2, <3>3, <3>4, AppendOnce
    <3> QED BY <3>1, <3>5
  <2>7. CASE AppendEof(s)
    <3>1. s \in alone /\ TextOf(s) /\ OncePerFamily /\ pc[s] = "render" /\ pc'[s] = "write"
      BY <2>4, <2>7 DEF Goto, ScrapeStart, WriteResponse, AppendEof
    <3>2. output \in Seq(Section) /\ output' = Append(output, EOF)
      BY <2>7, <3>1, AloneWrites DEF AppendEof
    <3>3. Len(output') = Len(output) + 1 /\ output'[Len(output')] = EOF /\ Len(output) \in Nat
      BY <3>2
    <3>4. \A i \in 1 .. Len(output) : output'[i] = output[i] /\ output[i] \in Section
      BY <3>2
    <3>5. DOMAIN output' = 1 .. Len(output) + 1 /\ DOMAIN output = 1 .. Len(output)
      BY <3>2
    <3>6. OncePerFamily'
      BY <3>1, <3>3, <3>4, <3>5, MarksAreNoSections DEF OncePerFamily
    <3>7. output' # <<>> /\ \A i \in 1 .. Len(output') - 1 : output'[i] \in Section
      BY <3>3, <3>4
    <3> QED BY <3>1, <3>3, <3>6, <3>7
  <2> QED BY <1>2, <2>2, <2>3, <2>5, <2>6, <2>7 DEF ScrapeNext
<1> QED BY <1>1, <1>2 DEF Next, Aborted

-----------------------------------------------------------------------------
(* What Exposition promises, for any families, labels, clients and age: its *)
(* inductive invariant, of whatever implements it                           *)

ExpositionParameters == MaxAge \in Nat /\ Free \notin E!Series

\* Nothing exists and nobody has asked at first.
LEMMA InitPromises == E!Init => E!ExpositionInv
BY DEF E!Init, E!ExpositionInv, E!Typed, E!FreshExists, E!RecordingExists, E!AskedBefore, E!StampedBefore,
       E!FreshShown, E!Fresh, E!Unsampled, E!Never, E!Series

\* Recording a sample, in its two steps.
LEMMA RecordPromises ==
  ASSUME ExpositionParameters, E!ExpositionInv, NEW f \in Families, NEW l \in Labels, E!Record(f, l)
  PROVE  E!ExpositionInv'
BY DEF ExpositionParameters, E!Record, E!ExpositionInv, E!Typed, E!FreshExists, E!RecordingExists, E!AskedBefore,
       E!StampedBefore, E!FreshShown, E!Fresh, E!Series

LEMMA StampPromises ==
  ASSUME ExpositionParameters, E!ExpositionInv, NEW f \in Families, NEW l \in Labels, E!Stamp(f, l)
  PROVE  E!ExpositionInv'
<1> USE DEF E!ExpositionInv, E!Typed, E!Never
<1>1. <<f, l>> \in Present
  BY DEF ExpositionParameters, E!Stamp, E!RecordingExists, E!Series
<1>2. \A g \in Families, m \in Labels : lastSample'[g][m] = IF g = f /\ m = l THEN clock ELSE lastSample[g][m]
  BY DEF E!Stamp
<1>3. E!Typed'
  BY DEF E!Stamp
<1>4. E!FreshExists' /\ E!RecordingExists'
  BY <1>1, <1>2 DEF E!Stamp, E!FreshExists, E!RecordingExists, E!Fresh
<1>5. E!AskedBefore' /\ E!StampedBefore'
  BY <1>2 DEF E!Stamp, E!AskedBefore, E!StampedBefore
<1>6. E!FreshShown'
  BY DEF E!Stamp, E!FreshShown, E!Fresh
<1> QED BY <1>3, <1>4, <1>5, <1>6

\* Only series that are no longer fresh go.
LEMMA ExpirePromises ==
  ASSUME ExpositionParameters, E!ExpositionInv, NEW f \in Families, NEW l \in Labels, E!Expire(f, l)
  PROVE  E!ExpositionInv'
BY DEF ExpositionParameters, E!Expire, E!ExpositionInv, E!Typed, E!FreshExists, E!RecordingExists, E!AskedBefore,
       E!StampedBefore, E!FreshShown, E!Fresh, E!Series

\* A request has been shown nothing yet.
LEMMA AskPromises ==
  ASSUME ExpositionParameters, E!ExpositionInv, NEW c \in Scrapers, E!Ask(c)
  PROVE  E!ExpositionInv'
<1> USE DEF E!ExpositionInv, E!Typed, E!Never
<1>1. \A d \in Scrapers : atStart'[d] = IF d = c THEN lastSample ELSE atStart[d]
  BY DEF E!Ask
<1>2. E!Typed'
  BY DEF E!Ask
<1>3. E!FreshExists' /\ E!RecordingExists' /\ E!StampedBefore'
  BY DEF E!Ask, E!FreshExists, E!RecordingExists, E!StampedBefore, E!Fresh
<1>4. E!AskedBefore'
  BY <1>1 DEF E!Ask, E!AskedBefore
<1>5. E!FreshShown'
  BY DEF E!Ask, E!FreshShown
<1> QED BY <1>2, <1>3, <1>4, <1>5

\* What is shown of a family has every series of it that was fresh when asked for
\* and still is: its stamp can only have grown, so it is fresh now and exists.
LEMMA ShowPromises ==
  ASSUME ExpositionParameters, E!ExpositionInv, NEW c \in Scrapers, NEW f \in Families, E!Show(c, f)
  PROVE  E!ExpositionInv'
<1> USE DEF E!ExpositionInv, E!Typed, E!Never
<1>1. E!Typed'
  BY DEF E!Show, E!Series
<1>2. E!FreshExists' /\ E!RecordingExists' /\ E!StampedBefore' /\ E!AskedBefore'
  BY DEF E!Show, E!FreshExists, E!RecordingExists, E!StampedBefore, E!AskedBefore, E!Fresh
<1>3. ASSUME NEW l \in Labels, E!Fresh(atStart[c], f, l)
      PROVE  <<f, l>> \in Present
  <2>1. lastSample[f][l] # E!Never /\ atStart[c][f][l] <= lastSample[f][l]
    BY <1>3 DEF E!Fresh, E!AskedBefore
  <2>2. E!Fresh(lastSample, f, l)
    BY <1>3, <2>1 DEF E!Fresh, ExpositionParameters
  <2> QED BY <2>2 DEF E!FreshExists
<1>4. E!FreshShown'
  <2> SUFFICES ASSUME NEW d \in Scrapers, ServiceOf[d] = "whole", NEW g \in FamiliesOf'[d], NEW l \in Labels,
                      E!Fresh(atStart[d], g, l)
               PROVE  <<g, l>> \in ShownTo'[d]
    BY DEF E!Show, E!FreshShown, E!Fresh
  <2>1. CASE d = c /\ g = f
    BY <2>1, <1>3 DEF E!Show
  <2>2. CASE ~(d = c /\ g = f)
    <3>1. g \in FamiliesOf[d]
      BY <2>2 DEF E!Show
    <3> QED BY <3>1 DEF E!Show, E!FreshShown
  <2> QED BY <2>1, <2>2
<1> QED BY <1>1, <1>2, <1>4

LEMMA AnswerPromises ==
  ASSUME ExpositionParameters, E!ExpositionInv, NEW c \in Scrapers, E!Answer(c)
  PROVE  E!ExpositionInv'
<1> USE DEF E!ExpositionInv, E!Typed, E!Never
<1>1. \A d \in Scrapers : atStart'[d] = IF d = c THEN E!Unsampled ELSE atStart[d]
  BY DEF E!Answer
<1>2. E!Typed'
  BY DEF E!Answer, E!Unsampled
<1>3. E!FreshExists' /\ E!RecordingExists' /\ E!StampedBefore'
  BY DEF E!Answer, E!FreshExists, E!RecordingExists, E!StampedBefore, E!Fresh
<1>4. E!AskedBefore'
  BY <1>1 DEF E!Answer, E!AskedBefore, E!Unsampled
<1>5. E!FreshShown'
  BY DEF E!Answer, E!FreshShown, E!Fresh
<1> QED BY <1>2, <1>3, <1>4, <1>5

\* Time only makes series older.
LEMMA TickPromises ==
  ASSUME ExpositionParameters, E!ExpositionInv, E!Tick
  PROVE  E!ExpositionInv'
<1> USE DEF E!ExpositionInv, E!Typed, E!Never
<1>1. \A stamps \in [Families -> [Labels -> Int]], f \in Families, l \in Labels :
        E!Fresh(stamps, f, l)' => E!Fresh(stamps, f, l)
  BY DEF E!Tick, E!Fresh, ExpositionParameters
<1>2. E!Typed' /\ E!RecordingExists' /\ E!AskedBefore' /\ E!StampedBefore'
  BY DEF E!Tick, E!RecordingExists, E!AskedBefore, E!StampedBefore
<1>3. E!FreshExists' /\ E!FreshShown'
  BY DEF E!Tick, E!FreshExists, E!FreshShown, E!Fresh, ExpositionParameters
<1> QED BY <1>2, <1>3

\* Every step preserves the invariant.
LEMMA NextPromises == ASSUME ExpositionParameters, E!ExpositionInv, [E!Next]_(E!vars) PROVE E!ExpositionInv'
<1>1. CASE UNCHANGED E!vars
  BY <1>1 DEF E!vars, E!ExpositionInv, E!Typed, E!FreshExists, E!RecordingExists, E!AskedBefore, E!StampedBefore,
              E!FreshShown, E!Fresh
<1>2. CASE E!Next
  BY <1>2, RecordPromises, StampPromises, ExpirePromises, AskPromises, ShowPromises, AnswerPromises, TickPromises DEF E!Next
<1> QED BY <1>1, <1>2

\* A client whose request nobody overlapped is shown every family it is shown with all
\* the series that were sampled before it asked and are still fresh (App.cpp, handleGet).
THEOREM Promise == ASSUME ExpositionParameters PROVE E!Spec => []E!FreshShown
<1>1. E!ExpositionInv /\ [E!Next]_(E!vars) => E!ExpositionInv'
  BY NextPromises
<1>2. E!ExpositionInv => E!FreshShown
  BY DEF E!ExpositionInv
<1> QED BY <1>1, <1>2, InitPromises, PTL DEF E!Spec

LEMMA Fulfilled == Spec => []E!FreshShown
<1>1. ExpositionParameters
  BY StoreAssumption DEF ExpositionParameters, E!Series
<1> QED BY <1>1, Promise, Implementation, PTL DEF ImplementsExposition

\* A response with every family, and in every section the series Exposition promises.
LEMMA TextComplete == RefinementInv /\ TextInv /\ E!FreshShown => CompleteExposition
<1> SUFFICES ASSUME RefinementInv, TextInv, E!FreshShown, NEW s \in alone, pc[s] = "write"
             PROVE  /\ \A f \in Families : \E i \in DOMAIN output :
                         /\ output[i] \in Section /\ output[i][1] = f
                         /\ \A l \in Labels : Fresh(atStart[s], f, l) => l \in output[i][2]
                         /\ \A j \in DOMAIN output : output[j] \in Section /\ output[j][1] = f => j = i
                    /\ output[Len(output)] = EOF
                    /\ \A i \in 1 .. Len(output) - 1 : output[i] \in Section
  BY DEF CompleteExposition
<1>1. s \in Scrapers /\ TextOf(s) /\ OncePerFamily
  BY DEF RefinementInv, StoreInv, TypeOK, DataTyped, TextInv
<1>2. FamiliesIn(Written) = Families /\ Rendered(s) = Written /\ Service(s) = "whole"
  BY DEF RefinementInv, WrittenInv, WrittenBy, Rendered, Service
<1>3. ASSUME NEW f \in Families
      PROVE  \E i \in DOMAIN output :
               /\ output[i] \in Section /\ output[i][1] = f
               /\ \A l \in Labels : Fresh(atStart[s], f, l) => l \in output[i][2]
               /\ \A j \in DOMAIN output : output[j] \in Section /\ output[j][1] = f => j = i
  <2>1. PICK x \in Written : x[1] = f
    BY <1>2 DEF FamiliesIn
  <2>2. PICK i \in DOMAIN output : output[i] = x /\ x \in Section
    BY <2>1 DEF Written
  <2>3. \A j \in DOMAIN output : output[j] \in Section /\ output[j][1] = f => j = i
    BY <1>1, <2>1, <2>2 DEF OncePerFamily
  <2>4. ASSUME NEW l \in Labels, Fresh(atStart[s], f, l) PROVE l \in x[2]
    <3>1. <<f, l>> \in SeriesIn(Written)
      <4>1. ServiceOf[s] = "whole" /\ FamiliesOf[s] = Families /\ ShownTo[s] = SeriesIn(Written)
        BY <1>1, <1>2 DEF ServiceOf, FamiliesOf, ShownTo
      <4>2. E!Fresh(atStart[s], f, l)
        BY <2>4 DEF E!Fresh, Fresh, E!Never, Never
      <4> QED BY <1>1, <4>1, <4>2 DEF E!FreshShown
    <3>2. PICK y \in Written : <<f, l>> \in SeriesOf(y[1], y[2])
      BY <3>1 DEF SeriesIn
    <3>3. y[1] = f /\ l \in y[2]
      BY <3>2 DEF SeriesOf
    <3>4. PICK j \in DOMAIN output : output[j] = y /\ y \in Section
      BY <3>2 DEF Written
    <3>5. j = i
      BY <2>3, <3>3, <3>4
    <3> QED BY <2>2, <3>3, <3>4, <3>5
  <2> QED BY <2>1, <2>2, <2>3, <2>4
<1> QED BY <1>1, <1>3 DEF TextOf

\* A scrape that no other overlaps answers with one section per family and the end
\* marker, and every series sampled before the request that is still fresh is in it,
\* for any families, labels, ages and interleavings of worker, sweep and scrapers.
THEOREM WholeResponses == Spec => []CompleteExposition
<1>1. Init => TextInv
  BY DEF Init, TextInv
<1>2. RefinementInv /\ TextInv /\ [Next]_vars => TextInv'
  BY TextStep DEF RefinementInv, StoreInv
<1> QED BY <1>1, <1>2, RefinementInvariant, Fulfilled, TextComplete, PTL DEF Spec
=============================================================================
