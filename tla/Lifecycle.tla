----------------------------- MODULE Lifecycle -----------------------------
(***************************************************************************)
(* The life of the process: main, App::App and App::~App on the main       *)
(* thread, the mosquitto thread of MosquittoClient, the routine thread,    *)
(* the HTTP threads, and SIGTERM.  What the threads do with the metrics is *)
(* left to MetricStore and Dispatch; here they run and are waited for.     *)
(*                                                                         *)
(* libmosquitto and CivetWeb are external: link is the library's socket,   *)
(* which only mosquitto_loop, run by the worker, reads and closes.  Time   *)
(* is left out: a wait_for may time out whenever its ticket is not yet     *)
(* triggered.  A name that does not resolve, wrong credentials, a silent   *)
(* broker and a dropped connection can all happen.                         *)
(***************************************************************************)
EXTENDS Integers, FiniteSets

CONSTANT MaxRequests   \* bound: scrapes started

ASSUME LifecycleAssumption == MaxRequests \in Nat

VARIABLES
  process,   \* "up"; "exited": main returned; "aborted": std::terminate; "corrupt"
  main,      \* position of the main thread
  dtor,      \* the destructor it is in: "none", "App", "Client"
  shouldTerminate,  \* set by the signal handler
  worker,    \* position of the mosquitto thread, "none" before it is started
  loaded,    \* the ticket onDisconnected has read but not yet triggered, or 0
  link,      \* "none", "connecting", "connected", "leaving": DISCONNECT is queued
  connected, \* _connectTicket is triggered
  ticket,    \* the current _disconnectTicket: 1 is the constructor's
  triggered, \* the disconnect tickets that were triggered
  kept,      \* the disconnect tickets a local variable of main shares
  routine,   \* the routine thread: "none", "running", "ended"
  http,      \* CivetServer: "none", "idle", "serving", "closing", "closed"
  requests,  \* number of scrapes started, at most MaxRequests
  accepted,  \* history: the broker has accepted the connection
  faults     \* history: what went wrong, a subset of Faults

Faults == {"connectFailed", "lost", "refused", "timedOut", "setupThrew"}

tickets == <<ticket, triggered, kept>>
network == <<link, connected, accepted>>
threads == <<worker, loaded, routine, http, requests>>
vars == <<process, main, dtor, shouldTerminate, tickets, network, threads, faults>>

Init ==
  /\ process = "up" /\ main = "new" /\ dtor = "none" /\ shouldTerminate = FALSE
  /\ worker = "none" /\ loaded = 0 /\ link = "none" /\ connected = FALSE /\ accepted = FALSE
  /\ ticket = 1 /\ triggered = {} /\ kept = {}
  /\ routine = "none" /\ http = "none" /\ requests = 0 /\ faults = {}

Goto(from, to) == process = "up" /\ main = from /\ main' = to /\ UNCHANGED <<process, shouldTerminate>>
Terminates(from, what) ==
  /\ process = "up" /\ main = from /\ process' = what
  /\ UNCHANGED <<main, dtor, shouldTerminate, tickets, network, threads>>

-----------------------------------------------------------------------------
(* Main thread: App::App *)

\* The constructor of MosquittoClient starts the worker ...
NewClient ==
  /\ Goto("new", "connect") /\ worker' = "loop"
  /\ UNCHANGED <<dtor, tickets, network, loaded, routine, http, requests, faults>>
\* ... or mosquitto_new fails and main's handler runs.
NewClientThrows == Terminates("new", "exited") /\ UNCHANGED faults

\* connect(): mosquitto_connect_async opens the socket ...
Connect ==
  /\ Goto("connect", "waitConnected") /\ link' = "connecting"
  /\ UNCHANGED <<dtor, tickets, connected, accepted, threads, faults>>
\* ... or fails, and ClientError leaves App::App: its members are destroyed.
ConnectThrows ==
  /\ Goto("connect", "destroyClient")
  /\ dtor' = "Client" /\ faults' = faults \cup {"connectFailed"}
  /\ UNCHANGED <<tickets, network, threads>>

\* connTicket->wait_for(5s), or "Could not connect to the server in 5s"
Connected ==
  /\ connected /\ Goto("waitConnected", "setup")
  /\ UNCHANGED <<dtor, tickets, network, threads, faults>>
ConnectTimeout ==
  /\ ~connected /\ Goto("waitConnected", "destroyClient")
  /\ dtor' = "Client" /\ faults' = faults \cup {"timedOut"}
  /\ UNCHANGED <<tickets, network, threads>>

\* The metrics (module Dispatch), the HTTP server and the routine thread ...
Setup ==
  /\ Goto("setup", "running") /\ routine' = "running" /\ http' = "idle"
  /\ UNCHANGED <<dtor, tickets, network, worker, loaded, requests, faults>>
\* ... or std::runtime_error or CivetException, for which main has no handler.
SetupThrows == Terminates("setup", "aborted") /\ faults' = faults \cup {"setupThrew"}

-----------------------------------------------------------------------------
(* Main thread: App::~App and MosquittoClient::~MosquittoClient *)

\* main leaves its loop; request_stop and join of the routine thread
Shutdown ==
  /\ shouldTerminate /\ Goto("running", "joinRoutine") /\ dtor' = "App"
  /\ UNCHANGED <<tickets, network, threads, faults>>
JoinRoutine ==
  /\ routine = "ended" /\ Goto("joinRoutine", "newTicket")
  /\ UNCHANGED <<dtor, tickets, network, threads, faults>>

\* disconnect(): _disconnectTicket = make_shared<Ticket>() releases the old one.
NewTicket ==
  /\ Goto("newTicket", "disconnect") /\ ticket' = ticket + 1
  /\ UNCHANGED <<dtor, triggered, kept, network, threads, faults>>
\* mosquitto_disconnect queues a DISCONNECT, and the caller shares the ticket ...
Disconnect ==
  /\ link # "none" /\ link' = "leaving" /\ kept' = kept \cup {ticket}
  /\ Goto("disconnect", IF dtor = "App" THEN "closeServer" ELSE "linger")
  /\ UNCHANGED <<dtor, ticket, triggered, connected, accepted, threads, faults>>
\* ... or there is no socket, and ClientError leaves a destructor.
DisconnectThrows == link = "none" /\ Terminates("disconnect", "aborted") /\ UNCHANGED faults

\* _server->close() returns when the HTTP threads have ended.
CloseServer ==
  /\ Goto("closeServer", "joinServer") /\ http' = IF http = "idle" THEN "closed" ELSE "closing"
  /\ UNCHANGED <<dtor, tickets, network, worker, loaded, routine, requests, faults>>
JoinServer ==
  /\ http = "closed" /\ Goto("joinServer", "linger")
  /\ UNCHANGED <<dtor, tickets, network, threads, faults>>

\* Mutants: the wait returns at once; the client's destructor starts over after it.
Linger_NoWait ==
  /\ Goto("linger", IF dtor = "App" THEN "destroyClient" ELSE "joinWorker") /\ dtor' = "Client"
  /\ UNCHANGED <<tickets, network, threads, faults>>
Linger_Again ==
  /\ faults' = IF ticket \in triggered THEN faults ELSE faults \cup {"timedOut"}
  /\ Goto("linger", "destroyClient") /\ dtor' = "Client"
  /\ UNCHANGED <<tickets, network, threads>>

\* wait_for(1s) in ~App, then _client.reset(); wait_for(3s) in ~MosquittoClient
Linger ==
  /\ faults' = IF ticket \in triggered THEN faults ELSE faults \cup {"timedOut"}
  /\ Goto("linger", IF dtor = "App" THEN "destroyClient" ELSE "joinWorker") /\ dtor' = "Client"
  /\ UNCHANGED <<tickets, network, threads>>

\* Mutant: the destructor of the client does not look at the ticket.
DestroyClient_Always ==
  /\ Goto("destroyClient", "newTicket")
  /\ UNCHANGED <<dtor, tickets, network, threads, faults>>

\* ~MosquittoClient disconnects unless that has happened, then _worker.request_stop()
DestroyClient ==
  /\ Goto("destroyClient", IF ticket \in triggered THEN "joinWorker" ELSE "newTicket")
  /\ UNCHANGED <<dtor, tickets, network, threads, faults>>

\* Mutant: the worker is not joined.
JoinWorker_NoJoin == Terminates("joinWorker", "exited") /\ UNCHANGED faults

\* _worker.join(), mosquitto_destroy, main returns (through its handler after a throw)
JoinWorker == worker = "ended" /\ Terminates("joinWorker", "exited") /\ UNCHANGED faults

MainNext ==
  \/ NewClient \/ NewClientThrows \/ Connect \/ ConnectThrows \/ Connected \/ ConnectTimeout
  \/ Setup \/ SetupThrows \/ Shutdown \/ JoinRoutine \/ NewTicket \/ Disconnect \/ DisconnectThrows
  \/ CloseServer \/ JoinServer \/ Linger \/ DestroyClient \/ JoinWorker
-----------------------------------------------------------------------------
(* Worker: while (!token.stop_requested()) mosquitto_loop(...) *)

Step(from, to) == process = "up" /\ worker = from /\ worker' = to
StopRequested == main = "joinWorker"

\* Mutant: the stop token is not looked at.
StopWorker_Never == FALSE /\ UNCHANGED vars
StopWorker ==
  /\ StopRequested /\ Step("loop", "ended")
  /\ UNCHANGED <<process, main, dtor, shouldTerminate, tickets, network, loaded, routine, http, requests, faults>>

\* CONNACK: onConnected triggers the ticket whatever the return code says.
Accepted ==
  /\ link = "connecting" /\ Step("loop", "loop")
  /\ link' = "connected" /\ connected' = TRUE /\ accepted' = TRUE
  /\ UNCHANGED <<process, main, dtor, shouldTerminate, tickets, loaded, routine, http, requests, faults>>
Refused ==
  /\ link = "connecting" /\ Step("loop", "onDisconnected")
  /\ link' = "none" /\ connected' = TRUE /\ faults' = faults \cup {"refused"}
  /\ UNCHANGED <<process, main, dtor, shouldTerminate, tickets, accepted, loaded, routine, http, requests>>

\* The peer, the network or a timeout closes the socket; nobody reconnects.
Lost ==
  /\ link \in {"connecting", "connected", "leaving"} /\ Step("loop", "onDisconnected")
  /\ link' = "none" /\ faults' = faults \cup {"lost"}
  /\ UNCHANGED <<process, main, dtor, shouldTerminate, tickets, connected, accepted, loaded, routine, http, requests>>

\* The queued DISCONNECT is written and the socket closed.
DisconnectSent ==
  /\ link = "leaving" /\ Step("loop", "onDisconnected") /\ link' = "none"
  /\ UNCHANGED <<process, main, dtor, shouldTerminate, tickets, connected, accepted, loaded, routine, http, requests, faults>>

\* onDisconnected: _disconnectTicket is read ...
LoadTicket ==
  /\ Step("onDisconnected", "trigger") /\ loaded' = ticket
  /\ UNCHANGED <<process, main, dtor, shouldTerminate, tickets, network, routine, http, requests, faults>>
\* ... and triggered, even if disconnect() has released it in between.
TriggerTicket ==
  /\ Step("trigger", "loop") /\ loaded' = 0
  /\ IF loaded \in kept \cup {ticket}
     THEN triggered' = triggered \cup {loaded} /\ UNCHANGED process
     ELSE process' = "corrupt" /\ UNCHANGED triggered
  /\ UNCHANGED <<main, dtor, shouldTerminate, ticket, kept, network, routine, http, requests, faults>>

WorkerNext ==
  StopWorker \/ Accepted \/ Refused \/ Lost \/ DisconnectSent \/ LoadTicket \/ TriggerTicket
-----------------------------------------------------------------------------
(* The routine thread, the HTTP threads, the signal *)

serverRest == <<process, main, dtor, shouldTerminate, tickets, network, worker, loaded, faults>>

RoutineEnds ==
  /\ process = "up" /\ main = "joinRoutine" /\ routine = "running" /\ routine' = "ended"
  /\ UNCHANGED <<serverRest, http, requests>>
Scrape ==
  /\ process = "up" /\ http = "idle" /\ requests < MaxRequests
  /\ http' = "serving" /\ requests' = requests + 1
  /\ UNCHANGED <<serverRest, routine>>
ScrapeDone ==
  /\ process = "up" /\ http \in {"serving", "closing"}
  /\ http' = IF http = "serving" THEN "idle" ELSE "closed"
  /\ UNCHANGED <<serverRest, routine, requests>>

\* sigHandle
Signal ==
  /\ process = "up" /\ ~shouldTerminate /\ shouldTerminate' = TRUE
  /\ UNCHANGED <<process, main, dtor, tickets, network, threads, faults>>

Next == MainNext \/ WorkerNext \/ RoutineEnds \/ Scrape \/ ScrapeDone \/ Signal
Spec == Init /\ [][Next]_vars

(***************************************************************************)
(* Fairness: every thread runs, every wait_for returns, a running request  *)
(* ends.  Nobody has to send a signal or ask for a scrape, and the network *)
(* owes nothing, not even an answer to CONNECT.                            *)
(***************************************************************************)
Fairness ==
  /\ WF_vars(MainNext)
  /\ WF_vars(StopWorker \/ LoadTicket \/ TriggerTicket)
  /\ WF_vars(RoutineEnds) /\ WF_vars(ScrapeDone)
FairSpec == Spec /\ Fairness
-----------------------------------------------------------------------------
(* Properties *)

\* Type invariant.
TypeOK ==
  /\ process \in {"up", "exited", "aborted", "corrupt"}
  /\ main \in {"new", "connect", "waitConnected", "setup", "running", "joinRoutine", "newTicket",
               "disconnect", "closeServer", "joinServer", "linger", "destroyClient", "joinWorker"}
  /\ dtor \in {"none", "App", "Client"} /\ shouldTerminate \in BOOLEAN
  /\ worker \in {"none", "loop", "onDisconnected", "trigger", "ended"} /\ loaded \in 0 .. 3
  /\ link \in {"none", "connecting", "connected", "leaving"}
  /\ connected \in BOOLEAN /\ accepted \in BOOLEAN
  /\ ticket \in 1 .. 3 /\ triggered \subseteq 1 .. 3 /\ kept \subseteq 1 .. 3
  /\ routine \in {"none", "running", "ended"}
  /\ http \in {"none", "idle", "serving", "closing", "closed"} /\ requests \in 0 .. MaxRequests
  /\ faults \subseteq Faults

\* When main returns, no thread is left that could use what the destructors freed:
\* neither a callback of libmosquitto, nor a sweep, nor a scrape.
NoThreadOutlivesApp ==
  process = "exited" => worker \in {"none", "ended"} /\ routine \in {"none", "ended"} /\ http \in {"none", "closed"}

\* Two destructors may call disconnect(), each replacing the ticket that a callback
\* of the worker may be holding, and each throwing if there is no connection.  As
\* long as nothing went wrong on the network, no wait timed out and the metrics
\* could be set up, none of this ends the process other than by returning from main.
GracefulWithoutFaults == process \in {"aborted", "corrupt"} => faults # {}

\* At most one disconnect() per destructor, and the last ticket is the one that
\* DISCONNECT triggers: a fault-free exit has told the broker.
ExitDisconnects == process = "exited" /\ accepted /\ faults = {} => link = "none" /\ ticket \in triggered

\* SIGTERM stops the process, whatever the broker, the peers and the threads do.
SignalStops == shouldTerminate ~> process # "up"

\* main.cpp catches Exception and logs "Exception thrown": so a connection that
\* cannot be opened ends in that handler, not in std::terminate.
ConnectFailureHandled == "connectFailed" \in faults => process # "aborted"

\* App::App goes on only if it "could connect to the server in 5s".
SetUpOnceConnected == main \in {"setup", "running"} => accepted
=============================================================================
