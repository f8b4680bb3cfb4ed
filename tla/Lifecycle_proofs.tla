--------------------------- MODULE Lifecycle_proofs ---------------------------
(* Proofs about Lifecycle, for any number of requests. *)
EXTENDS Lifecycle, TLAPS

-----------------------------------------------------------------------------
(* The inductive invariant of NoThreadOutlivesApp, GracefulWithoutFaults and ExitDisconnects *)

\* Where main is in which destructor, and how many tickets that has taken.
DestructorPlaces ==
  /\ dtor = "none" <=> main \in {"new", "connect", "waitConnected", "setup", "running"}
  /\ dtor = "App" => main \in {"joinRoutine", "newTicket", "disconnect", "closeServer", "joinServer", "linger"}
  /\ dtor = "Client" => main \in {"destroyClient", "newTicket", "disconnect", "linger", "joinWorker"}
TicketsCounted ==
  /\ dtor = "none" \/ main = "joinRoutine" \/ (dtor = "App" /\ main = "newTicket") => ticket = 1
  /\ dtor = "App" \/ main \in {"destroyClient", "newTicket"} => ticket <= 2

\* Where main is while each thread lives and while there may be a connection.
ThreadsWaitedFor ==
  /\ worker = "none" <=> main = "new"
  /\ link # "none" \/ accepted => main \notin {"new", "connect"}
  /\ routine = "running" => main \in {"running", "joinRoutine"}
  /\ http \in {"idle", "serving"} =>
       dtor # "Client" /\ main \in {"running", "joinRoutine", "newTicket", "disconnect", "closeServer"}
  /\ http = "closing" => main = "joinServer"
  /\ process = "exited" => main = "new" \/ (main = "joinWorker" /\ worker = "ended")

\* Without faults the socket is there until DISCONNECT is sent, which main does once, and
\* the worker holds no ticket but the one main has kept.
Disconnected == {"closeServer", "joinServer", "linger", "destroyClient", "joinWorker"}
FaultFree ==
  /\ process \in {"up", "exited"}
  /\ dtor = "Client" => main \in {"destroyClient", "joinWorker"} /\ ticket \in triggered
  /\ main \in {"waitConnected", "setup", "running", "joinRoutine", "newTicket", "disconnect"}
       => link \in {"connecting", "connected"}
  /\ main \in Disconnected => ticket \in kept
  /\ worker \in {"onDisconnected", "trigger"} \/ triggered # {} => main \in Disconnected /\ link = "none"
  /\ worker = "trigger" => loaded = ticket

LifecycleInv == TypeOK /\ DestructorPlaces /\ TicketsCounted /\ ThreadsWaitedFor /\ (faults = {} => FaultFree)

\* Nothing has been started at first.
LEMMA InitInv == Init => LifecycleInv
<1> USE LifecycleAssumption DEF Init
<1>1. Init => TypeOK
  <2>1. Init => ticket \in 1 .. 3 /\ loaded \in 0 .. 3 /\ requests \in 0 .. MaxRequests
    OBVIOUS
  <2> QED
    BY <2>1 DEF TypeOK
<1>2. Init => DestructorPlaces /\ TicketsCounted /\ ThreadsWaitedFor
  BY DEF DestructorPlaces, TicketsCounted, ThreadsWaitedFor
<1>3. Init => FaultFree
  BY DEF FaultFree, Disconnected
<1> QED
  BY <1>1, <1>2, <1>3 DEF LifecycleInv

\* Types.  The tickets stay three because each destructor calls disconnect once.
LEMMA TypeStep == TypeOK /\ TicketsCounted /\ [Next]_vars => TypeOK'
<1> SUFFICES ASSUME TypeOK /\ TicketsCounted, [Next]_vars PROVE TypeOK'
  OBVIOUS
<1> USE LifecycleAssumption DEF TypeOK, TicketsCounted, Faults, tickets, network, threads
<1>1. CASE NewClient
  BY <1>1 DEF NewClient, Goto
<1>2. CASE NewClientThrows
  BY <1>2 DEF NewClientThrows, Terminates
<1>3. CASE Connect
  BY <1>3 DEF Connect, Goto
<1>4. CASE ConnectThrows
  BY <1>4 DEF ConnectThrows, Goto
<1>5. CASE Connected
  BY <1>5 DEF Connected, Goto
<1>6. CASE ConnectTimeout
  BY <1>6 DEF ConnectTimeout, Goto
<1>7. CASE Setup
  BY <1>7 DEF Setup, Goto
<1>8. CASE SetupThrows
  BY <1>8 DEF SetupThrows, Terminates
<1>9. CASE Shutdown
  BY <1>9 DEF Shutdown, Goto
<1>10. CASE JoinRoutine
  BY <1>10 DEF JoinRoutine, Goto
<1>11. CASE NewTicket
  BY <1>11 DEF NewTicket, Goto
<1>12. CASE Disconnect
  BY <1>12 DEF Disconnect, Goto
<1>13. CASE DisconnectThrows
  BY <1>13 DEF DisconnectThrows, Terminates
<1>14. CASE CloseServer
  BY <1>14 DEF CloseServer, Goto
<1>15. CASE JoinServer
  BY <1>15 DEF JoinServer, Goto
<1>16. CASE Linger
  BY <1>16 DEF Linger, Goto
<1>17. CASE DestroyClient
  BY <1>17 DEF DestroyClient, Goto
<1>18. CASE JoinWorker
  BY <1>18 DEF JoinWorker, Terminates
<1>19. CASE StopWorker
  BY <1>19 DEF StopWorker, Step, StopRequested
<1>20. CASE Accepted
  BY <1>20 DEF Accepted, Step
<1>21. CASE Refused
  BY <1>21 DEF Refused, Step
<1>22. CASE Lost
  BY <1>22 DEF Lost, Step
<1>23. CASE DisconnectSent
  BY <1>23 DEF DisconnectSent, Step
<1>24. CASE LoadTicket
  BY <1>24 DEF LoadTicket, Step
<1>25. CASE TriggerTicket
  <2>1. triggered' \subseteq 1 .. 3 /\ process' \in {"up", "exited", "aborted", "corrupt"}
    BY <1>25 DEF TriggerTicket, Step
  <2> QED
    BY <1>25, <2>1 DEF TriggerTicket, Step
<1>26. CASE RoutineEnds
  BY <1>26 DEF RoutineEnds, serverRest
<1>27. CASE Scrape
  BY <1>27 DEF Scrape, serverRest
<1>28. CASE ScrapeDone
  BY <1>28 DEF ScrapeDone, serverRest
<1>29. CASE Signal
  BY <1>29 DEF Signal
<1>30. CASE UNCHANGED vars
  BY <1>30 DEF vars
<1> QED
  BY <1>1, <1>2, <1>3, <1>4, <1>5, <1>6, <1>7, <1>8, <1>9, <1>10, <1>11, <1>12, <1>13, <1>14, <1>15, <1>16,
     <1>17, <1>18, <1>19, <1>20, <1>21, <1>22, <1>23, <1>24, <1>25, <1>26, <1>27, <1>28, <1>29, <1>30 DEF
     Next, MainNext, WorkerNext

\* The main thread's way through the destructors.
LEMMA DestructorStep == TypeOK /\ DestructorPlaces /\ TicketsCounted /\ [Next]_vars => DestructorPlaces' /\ TicketsCounted'
<1> SUFFICES ASSUME TypeOK /\ DestructorPlaces /\ TicketsCounted, [Next]_vars PROVE DestructorPlaces' /\ TicketsCounted'
  OBVIOUS
<1> USE LifecycleAssumption DEF TypeOK, DestructorPlaces, TicketsCounted, tickets, network, threads
<1>1. CASE NewClient
  BY <1>1 DEF NewClient, Goto
<1>2. CASE NewClientThrows
  BY <1>2 DEF NewClientThrows, Terminates
<1>3. CASE Connect
  BY <1>3 DEF Connect, Goto
<1>4. CASE ConnectThrows
  BY <1>4 DEF ConnectThrows, Goto
<1>5. CASE Connected
  BY <1>5 DEF Connected, Goto
<1>6. CASE ConnectTimeout
  BY <1>6 DEF ConnectTimeout, Goto
<1>7. CASE Setup
  BY <1>7 DEF Setup, Goto
<1>8. CASE SetupThrows
  BY <1>8 DEF SetupThrows, Terminates
<1>9. CASE Shutdown
  BY <1>9 DEF Shutdown, Goto
<1>10. CASE JoinRoutine
  BY <1>10 DEF JoinRoutine, Goto
<1>11. CASE NewTicket
  BY <1>11 DEF NewTicket, Goto
<1>12. CASE Disconnect
  BY <1>12 DEF Disconnect, Goto
<1>13. CASE DisconnectThrows
  BY <1>13 DEF DisconnectThrows, Terminates
<1>14. CASE CloseServer
  BY <1>14 DEF CloseServer, Goto
<1>15. CASE JoinServer
  BY <1>15 DEF JoinServer, Goto
<1>16. CASE Linger
  BY <1>16 DEF Linger, Goto
<1>17. CASE DestroyClient
  BY <1>17 DEF DestroyClient, Goto
<1>18. CASE JoinWorker
  BY <1>18 DEF JoinWorker, Terminates
<1>19. CASE StopWorker
  BY <1>19 DEF StopWorker, Step, StopRequested
<1>20. CASE Accepted
  BY <1>20 DEF Accepted, Step
<1>21. CASE Refused
  BY <1>21 DEF Refused, Step
<1>22. CASE Lost
  BY <1>22 DEF Lost, Step
<1>23. CASE DisconnectSent
  BY <1>23 DEF DisconnectSent, Step
<1>24. CASE LoadTicket
  BY <1>24 DEF LoadTicket, Step
<1>25. CASE TriggerTicket
  BY <1>25 DEF TriggerTicket, Step
<1>26. CASE RoutineEnds
  BY <1>26 DEF RoutineEnds, serverRest
<1>27. CASE Scrape
  BY <1>27 DEF Scrape, serverRest
<1>28. CASE ScrapeDone
  BY <1>28 DEF ScrapeDone, serverRest
<1>29. CASE Signal
  BY <1>29 DEF Signal
<1>30. CASE UNCHANGED vars
  BY <1>30 DEF vars
<1> QED
  BY <1>1, <1>2, <1>3, <1>4, <1>5, <1>6, <1>7, <1>8, <1>9, <1>10, <1>11, <1>12, <1>13, <1>14, <1>15, <1>16,
     <1>17, <1>18, <1>19, <1>20, <1>21, <1>22, <1>23, <1>24, <1>25, <1>26, <1>27, <1>28, <1>29, <1>30 DEF
     Next, MainNext, WorkerNext

\* The threads main has yet to wait for.
LEMMA ThreadsStep == TypeOK /\ DestructorPlaces /\ ThreadsWaitedFor /\ [Next]_vars => ThreadsWaitedFor'
<1> SUFFICES ASSUME TypeOK /\ DestructorPlaces /\ ThreadsWaitedFor, [Next]_vars PROVE ThreadsWaitedFor'
  OBVIOUS
<1> USE LifecycleAssumption DEF TypeOK, DestructorPlaces, ThreadsWaitedFor, tickets, network, threads
<1>1. CASE NewClient
  BY <1>1 DEF NewClient, Goto
<1>2. CASE NewClientThrows
  BY <1>2 DEF NewClientThrows, Terminates
<1>3. CASE Connect
  BY <1>3 DEF Connect, Goto
<1>4. CASE ConnectThrows
  BY <1>4 DEF ConnectThrows, Goto
<1>5. CASE Connected
  BY <1>5 DEF Connected, Goto
<1>6. CASE ConnectTimeout
  BY <1>6 DEF ConnectTimeout, Goto
<1>7. CASE Setup
  BY <1>7 DEF Setup, Goto
<1>8. CASE SetupThrows
  BY <1>8 DEF SetupThrows, Terminates
<1>9. CASE Shutdown
  BY <1>9 DEF Shutdown, Goto
<1>10. CASE JoinRoutine
  BY <1>10 DEF JoinRoutine, Goto
<1>11. CASE NewTicket
  BY <1>11 DEF NewTicket, Goto
<1>12. CASE Disconnect
  BY <1>12 DEF Disconnect, Goto
<1>13. CASE DisconnectThrows
  BY <1>13 DEF DisconnectThrows, Terminates
<1>14. CASE CloseServer
  BY <1>14 DEF CloseServer, Goto
<1>15. CASE JoinServer
  BY <1>15 DEF JoinServer, Goto
<1>16. CASE Linger
  BY <1>16 DEF Linger, Goto
<1>17. CASE DestroyClient
  BY <1>17 DEF DestroyClient, Goto
<1>18. CASE JoinWorker
  BY <1>18 DEF JoinWorker, Terminates
<1>19. CASE StopWorker
  BY <1>19 DEF StopWorker, Step, StopRequested
<1>20. CASE Accepted
  BY <1>20 DEF Accepted, Step
<1>21. CASE Refused
  BY <1>21 DEF Refused, Step
<1>22. CASE Lost
  BY <1>22 DEF Lost, Step
<1>23. CASE DisconnectSent
  BY <1>23 DEF DisconnectSent, Step
<1>24. CASE LoadTicket
  BY <1>24 DEF LoadTicket, Step
<1>25. CASE TriggerTicket
  BY <1>25 DEF TriggerTicket, Step
<1>26. CASE RoutineEnds
  BY <1>26 DEF RoutineEnds, serverRest
<1>27. CASE Scrape
  BY <1>27 DEF Scrape, serverRest
<1>28. CASE ScrapeDone
  BY <1>28 DEF ScrapeDone, serverRest
<1>29. CASE Signal
  BY <1>29 DEF Signal
<1>30. CASE UNCHANGED vars
  BY <1>30 DEF vars
<1> QED
  BY <1>1, <1>2, <1>3, <1>4, <1>5, <1>6, <1>7, <1>8, <1>9, <1>10, <1>11, <1>12, <1>13, <1>14, <1>15, <1>16,
     <1>17, <1>18, <1>19, <1>20, <1>21, <1>22, <1>23, <1>24, <1>25, <1>26, <1>27, <1>28, <1>29, <1>30 DEF
     Next, MainNext, WorkerNext

\* Faults are never forgotten, and without one the connection and the tickets are in order.
LEMMA FaultFreeStep == LifecycleInv /\ [Next]_vars => (faults = {} => FaultFree)'
<1> SUFFICES ASSUME LifecycleInv, [Next]_vars PROVE (faults = {} => FaultFree)'
  OBVIOUS
<1> USE LifecycleAssumption DEF LifecycleInv, TypeOK, DestructorPlaces, TicketsCounted, ThreadsWaitedFor, FaultFree, Disconnected, tickets, network, threads
<1>1. CASE NewClient
  BY <1>1 DEF NewClient, Goto
<1>2. CASE NewClientThrows
  BY <1>2 DEF NewClientThrows, Terminates
<1>3. CASE Connect
  BY <1>3 DEF Connect, Goto
<1>4. CASE ConnectThrows
  BY <1>4 DEF ConnectThrows, Goto
<1>5. CASE Connected
  BY <1>5 DEF Connected, Goto
<1>6. CASE ConnectTimeout
  BY <1>6 DEF ConnectTimeout, Goto
<1>7. CASE Setup
  BY <1>7 DEF Setup, Goto
<1>8. CASE SetupThrows
  BY <1>8 DEF SetupThrows, Terminates
<1>9. CASE Shutdown
  BY <1>9 DEF Shutdown, Goto
<1>10. CASE JoinRoutine
  BY <1>10 DEF JoinRoutine, Goto
<1>11. CASE NewTicket
  BY <1>11 DEF NewTicket, Goto
<1>12. CASE Disconnect
  BY <1>12 DEF Disconnect, Goto
<1>13. CASE DisconnectThrows
  BY <1>13 DEF DisconnectThrows, Terminates
<1>14. CASE CloseServer
  BY <1>14 DEF CloseServer, Goto
<1>15. CASE JoinServer
  BY <1>15 DEF JoinServer, Goto
<1>16. CASE Linger
  BY <1>16 DEF Linger, Goto
<1>17. CASE DestroyClient
  BY <1>17 DEF DestroyClient, Goto
<1>18. CASE JoinWorker
  BY <1>18 DEF JoinWorker, Terminates
<1>19. CASE StopWorker
  BY <1>19 DEF StopWorker, Step, StopRequested
<1>20. CASE Accepted
  BY <1>20 DEF Accepted, Step
<1>21. CASE Refused
  BY <1>21 DEF Refused, Step
<1>22. CASE Lost
  BY <1>22 DEF Lost, Step
<1>23. CASE DisconnectSent
  BY <1>23 DEF DisconnectSent, Step
<1>24. CASE LoadTicket
  BY <1>24 DEF LoadTicket, Step
<1>25. CASE TriggerTicket
  BY <1>25 DEF TriggerTicket, Step
<1>26. CASE RoutineEnds
  BY <1>26 DEF RoutineEnds, serverRest
<1>27. CASE Scrape
  BY <1>27 DEF Scrape, serverRest
<1>28. CASE ScrapeDone
  BY <1>28 DEF ScrapeDone, serverRest
<1>29. CASE Signal
  BY <1>29 DEF Signal
<1>30. CASE UNCHANGED vars
  BY <1>30 DEF vars
<1> QED
  BY <1>1, <1>2, <1>3, <1>4, <1>5, <1>6, <1>7, <1>8, <1>9, <1>10, <1>11, <1>12, <1>13, <1>14, <1>15, <1>16,
     <1>17, <1>18, <1>19, <1>20, <1>21, <1>22, <1>23, <1>24, <1>25, <1>26, <1>27, <1>28, <1>29, <1>30 DEF
     Next, MainNext, WorkerNext

\* LifecycleInv holds in every reachable state.
THEOREM LifecycleInvariant == Spec => []LifecycleInv
<1>1. LifecycleInv /\ [Next]_vars => LifecycleInv'
  BY TypeStep, DestructorStep, ThreadsStep, FaultFreeStep DEF LifecycleInv
<1> QED
  BY InitInv, <1>1, PTL DEF Spec

\* Type correctness; in particular at most three tickets are ever made.
THEOREM Typing == Spec => []TypeOK
<1>1. LifecycleInv => TypeOK
  BY DEF LifecycleInv
<1> QED
  BY LifecycleInvariant, <1>1, PTL

\* When main returns, the worker, the routine thread and the HTTP threads have ended.
THEOREM ThreadsEnded == Spec => []NoThreadOutlivesApp
<1>1. LifecycleInv => NoThreadOutlivesApp
  BY DEF LifecycleInv, TypeOK, ThreadsWaitedFor, DestructorPlaces, NoThreadOutlivesApp
<1> QED
  BY LifecycleInvariant, <1>1, PTL

\* The process ends in std::terminate or with a freed ticket only after a fault.
THEOREM Graceful == Spec => []GracefulWithoutFaults
<1>1. LifecycleInv => GracefulWithoutFaults
  BY DEF LifecycleInv, FaultFree, GracefulWithoutFaults
<1> QED
  BY LifecycleInvariant, <1>1, PTL

\* A fault-free exit from an accepted connection has sent DISCONNECT and seen it through.
THEOREM Disconnects == Spec => []ExitDisconnects
<1>1. LifecycleInv => ExitDisconnects
  BY DEF LifecycleInv, TypeOK, DestructorPlaces, ThreadsWaitedFor, FaultFree, Disconnected, ExitDisconnects
<1> QED
  BY LifecycleInvariant, <1>1, PTL
===============================================================================
