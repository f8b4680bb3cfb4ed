------------------------------- MODULE Signal -------------------------------
(***************************************************************************)
(* Zeeno::SignalWithMutex with a real mutex, the signal for several        *)
(* threads.  (Zeeno::Signal, the one without locks that the MQTT client    *)
(* uses, is part of Dispatch.)                                             *)
(*                                                                         *)
(* Three kinds of mutex meet here: the signal's m_mutex over m_functions,  *)
(* m_cacheMutex over the copy that is called from, held while the slots    *)
(* run, and one in every connection.  A critical section in which no       *)
(* further lock is taken is one step.  disconnectAll and isConnected do    *)
(* not compile for any mutex and are left out.                             *)
(*                                                                         *)
(* A slot is any callback: while its emission waits for it, it may do      *)
(* whatever a thread may with the signal and its connections, emit again   *)
(* included.  A thread that locks a std::mutex it holds waits for ever, as *)
(* it does with glibc's default mutex.                                     *)
(***************************************************************************)
EXTENDS Integers, FiniteSets

CONSTANTS
  Threads,
  Slots,      \* connections that can be made, each once
  Free        \* "no thread"

ASSUME SignalAssumption == Free \notin Threads

VARIABLES
  functions, cache, dirty, blocked,   \* m_functions, m_cache, m_dirty, m_block
  mutex, cacheMutex, connMutex,       \* holders of the mutexes, or Free
  connected,  \* connections whose m_connected is set
  pc,         \* thread -> its position
  target,     \* thread -> the connection it is disconnecting or asking, or Free
  todo,       \* thread -> slots its emission has yet to call
  made,       \* connections made so far
  left,       \* history: connections some thread has begun to disconnect
  gone,       \* history: connections whose disconnect has returned
  atStart     \* history: thread -> [made, gone, called] of its emission

sets    == <<functions, cache, dirty>>
mutexes == <<mutex, cacheMutex, connMutex>>
history == <<left, gone, atStart>>
vars == <<sets, blocked, mutexes, connected, pc, target, todo, made, history>>

NoEmission == [made |-> {}, gone |-> {}, called |-> {}]

Init ==
  /\ functions = {} /\ cache = {} /\ dirty = FALSE /\ blocked = FALSE
  /\ mutex = Free /\ cacheMutex = Free /\ connMutex = [c \in Slots |-> Free]
  /\ connected = {} /\ made = {} /\ left = {} /\ gone = {}
  /\ pc = [t \in Threads |-> "idle"] /\ target = [t \in Threads |-> Free]
  /\ todo = [t \in Threads |-> {}] /\ atStart = [t \in Threads |-> NoEmission]

Goto(t, from, to) == pc[t] = from /\ pc' = [pc EXCEPT ![t] = to]

\* A thread calls the signal or a connection from its own code, or from that of a slot,
\* and returns there.
InSlot(t) == pc[t] = "calling" /\ todo[t] # cache
Calls(t, place) == (pc[t] = "idle" \/ InSlot(t)) /\ pc' = [pc EXCEPT ![t] = place]
Back(t) == IF cacheMutex = t THEN "calling" ELSE "idle"

-----------------------------------------------------------------------------
(* connect, blockSignal, unblockSignal, Connection::isValid *)

BeginConnect(t) ==
  /\ made # Slots /\ Calls(t, "connect")
  /\ UNCHANGED <<sets, blocked, mutexes, connected, target, todo, made, history>>

\* Mutant: the cache is not marked as out of date.
Connect_NotDirty(t, c) ==
  /\ c \notin made /\ mutex = Free /\ Goto(t, "connect", Back(t))
  /\ made' = made \cup {c} /\ connected' = connected \cup {c} /\ functions' = functions \cup {c}
  /\ UNCHANGED <<cache, dirty, blocked, mutexes, target, todo, history>>

Connect(t, c) ==
  /\ c \notin made /\ mutex = Free /\ Goto(t, "connect", Back(t))
  /\ made' = made \cup {c} /\ connected' = connected \cup {c} /\ functions' = functions \cup {c}
  /\ dirty' = TRUE
  /\ UNCHANGED <<cache, blocked, mutexes, target, todo, history>>

SetBlocked(t) ==
  /\ Calls(t, pc[t]) /\ blocked' = ~blocked
  /\ UNCHANGED <<sets, mutexes, connected, target, todo, made, history>>

BeginIsValid(t, c) ==
  /\ c \in made /\ Calls(t, "isValid") /\ target' = [target EXCEPT ![t] = c]
  /\ UNCHANGED <<sets, blocked, mutexes, connected, todo, made, history>>
IsValid(t) ==
  /\ Goto(t, "isValid", Back(t)) /\ connMutex[target[t]] = Free /\ target' = [target EXCEPT ![t] = Free]
  /\ UNCHANGED <<sets, blocked, mutexes, connected, todo, made, history>>

-----------------------------------------------------------------------------
(* operator() *)

\* (The history is that of the outer emission: one that a slot begins never gets to a slot.)
Emit(t) ==
  /\ ~blocked /\ Calls(t, "check")
  /\ atStart' = IF pc[t] = "idle" THEN [atStart EXCEPT ![t] = [made |-> made, gone |-> gone, called |-> {}]]
                                  ELSE atStart
  /\ UNCHANGED <<sets, blocked, mutexes, connected, target, todo, made, left, gone>>

\* if (m_dirty), before and after m_mutex is taken
CheckDirty(t) ==
  /\ Goto(t, "check", IF dirty THEN "lock" ELSE "enter")
  /\ UNCHANGED <<sets, blocked, mutexes, connected, target, todo, made, history>>
LockSignal(t) ==
  /\ mutex = Free /\ mutex' = t /\ Goto(t, "lock", "recheck")
  /\ UNCHANGED <<sets, blocked, cacheMutex, connMutex, connected, target, todo, made, history>>
StillDirty(t) ==
  /\ dirty /\ Goto(t, "recheck", "reload")
  /\ UNCHANGED <<sets, blocked, mutexes, connected, target, todo, made, history>>
NoLongerDirty(t) ==
  /\ ~dirty /\ Goto(t, "recheck", "enter") /\ mutex' = Free
  /\ UNCHANGED <<sets, blocked, cacheMutex, connMutex, connected, target, todo, made, history>>

\* Mutant: the lock on the signal outlives its block, and is held while the slots run.
Reload_KeepsLock(t) ==
  /\ cacheMutex = Free /\ Goto(t, "reload", "enter")
  /\ cache' = functions /\ dirty' = FALSE
  /\ UNCHANGED <<functions, blocked, mutexes, connected, target, todo, made, history>>

\* Under both mutexes: m_cache = m_functions; m_dirty = false
Reload(t) ==
  /\ cacheMutex = Free /\ Goto(t, "reload", "enter")
  /\ cache' = functions /\ dirty' = FALSE /\ mutex' = Free
  /\ UNCHANGED <<functions, blocked, cacheMutex, connMutex, connected, target, todo, made, history>>

\* Under m_cacheMutex: for_each over m_cache
Enter(t) ==
  /\ cacheMutex = Free /\ cacheMutex' = t /\ Goto(t, "enter", "calling")
  /\ todo' = [todo EXCEPT ![t] = cache]
  /\ UNCHANGED <<sets, blocked, mutex, connMutex, connected, target, made, history>>

\* c->m_callback(args...), whose own calls follow as actions of t, before t is through with it.
CallSlot(t, c) ==
  /\ pc[t] = "calling" /\ c \in todo[t] /\ todo' = [todo EXCEPT ![t] = @ \ {c}]
  /\ atStart' = [atStart EXCEPT ![t].called = @ \cup {c}]
  /\ UNCHANGED <<sets, blocked, mutexes, connected, pc, target, made, left, gone>>

\* Mutant: the cache stays locked.
EmitDone_NoUnlock(t) ==
  /\ todo[t] = {} /\ Goto(t, "calling", "idle")
  /\ atStart' = [atStart EXCEPT ![t] = NoEmission]
  /\ UNCHANGED <<sets, blocked, mutexes, connected, target, todo, made, left, gone>>
EmitDone(t) ==
  /\ todo[t] = {} /\ Goto(t, "calling", "idle") /\ cacheMutex' = Free
  /\ atStart' = [atStart EXCEPT ![t] = NoEmission]
  /\ UNCHANGED <<sets, blocked, mutex, connMutex, connected, target, todo, made, left, gone>>

-----------------------------------------------------------------------------
(* Connection::disconnect and SignalWithMutex::disconnect *)

Begin(t, c, place) ==
  /\ c \in made /\ Calls(t, place)
  /\ target' = [target EXCEPT ![t] = c] /\ left' = left \cup {c}
  /\ UNCHANGED <<sets, blocked, mutexes, connected, todo, made, gone, atStart>>

Done(t, from) ==
  /\ Goto(t, from, Back(t))
  /\ target' = [target EXCEPT ![t] = Free] /\ gone' = gone \cup {target[t]}
  /\ UNCHANGED <<cache, blocked, cacheMutex, todo, made, left, atStart>>
Erase(c) == functions' = functions \ {c} /\ dirty' = (dirty \/ c \in functions) /\ connected' = connected \ {c}
Unlock(c) == connMutex' = [connMutex EXCEPT ![c] = Free]

LockConnection(t) ==
  /\ Goto(t, "disconnect", "connectionLocked")
  /\ connMutex[target[t]] = Free /\ connMutex' = [connMutex EXCEPT ![target[t]] = t]
  /\ UNCHANGED <<sets, blocked, mutex, cacheMutex, connected, target, todo, made, history>>

\* Mutant: the cache is not marked as out of date.
ConnectionErase_NotDirty(t) ==
  /\ target[t] \in connected /\ mutex = Free
  /\ Done(t, "connectionLocked")
  /\ functions' = functions \ {target[t]} /\ connected' = connected \ {target[t]} /\ Unlock(target[t])
  /\ UNCHANGED <<dirty, mutex>>

\* m_connected->disconnect(this), which takes the signal's mutex
ConnectionErase(t) ==
  /\ target[t] \in connected /\ mutex = Free
  /\ Done(t, "connectionLocked")
  /\ Erase(target[t]) /\ Unlock(target[t])
  /\ UNCHANGED mutex

NotConnected(t) ==
  /\ target[t] \notin connected
  /\ Done(t, "connectionLocked") /\ Unlock(target[t])
  /\ UNCHANGED <<functions, dirty, connected, mutex>>

LockFunctions(t) ==
  /\ mutex = Free /\ mutex' = t /\ Goto(t, "signalDisconnect", "functionsLocked")
  /\ UNCHANGED <<sets, blocked, cacheMutex, connMutex, connected, target, todo, made, history>>
\* (*it)->setConnected(nullptr), which takes the connection's mutex
SignalErase(t) ==
  /\ Done(t, "functionsLocked")
  /\ target[t] \in functions /\ connMutex[target[t]] = Free
  /\ Erase(target[t]) /\ mutex' = Free
  /\ UNCHANGED connMutex
NotFound(t) ==
  /\ target[t] \notin functions
  /\ Done(t, "functionsLocked") /\ mutex' = Free
  /\ UNCHANGED <<functions, dirty, connected, connMutex>>

-----------------------------------------------------------------------------
Locking(t) ==
  \/ LockSignal(t) \/ Reload(t) \/ Enter(t) \/ LockConnection(t) \/ ConnectionErase(t)
  \/ LockFunctions(t) \/ SignalErase(t) \/ IsValid(t) \/ \E c \in Slots : Connect(t, c)
Going(t) ==
  \/ CheckDirty(t) \/ StillDirty(t) \/ NoLongerDirty(t) \/ (\E c \in Slots : CallSlot(t, c)) \/ EmitDone(t)
  \/ NotConnected(t) \/ NotFound(t)
Starting(t) ==
  \/ SetBlocked(t) \/ Emit(t) \/ BeginConnect(t)
  \/ \E c \in Slots : BeginIsValid(t, c) \/ Begin(t, c, "disconnect") \/ Begin(t, c, "signalDisconnect")

Next == \E t \in Threads : Locking(t) \/ Going(t) \/ Starting(t)
Spec == Init /\ [][Next]_vars

-----------------------------------------------------------------------------
(* Properties *)

Places == {"idle", "connect", "isValid", "check", "lock", "recheck", "reload", "enter", "calling", "disconnect",
           "connectionLocked", "signalDisconnect", "functionsLocked"}

Typed ==
  /\ functions \subseteq Slots /\ cache \subseteq Slots /\ dirty \in BOOLEAN /\ blocked \in BOOLEAN
  /\ connected \subseteq made /\ made \subseteq Slots /\ left \subseteq made /\ gone \subseteq left
  /\ pc \in [Threads -> Places] /\ todo \in [Threads -> SUBSET Slots] /\ target \in [Threads -> Slots \cup {Free}]
  /\ atStart \in [Threads -> [made : SUBSET Slots, gone : SUBSET Slots, called : SUBSET Slots]]
  /\ mutex \in Threads \cup {Free} /\ cacheMutex \in Threads \cup {Free} /\ connMutex \in [Slots -> Threads \cup {Free}]

Holding == {"recheck", "reload", "functionsLocked"}
LocksHeld ==
  /\ \A t \in Threads : mutex = t <=> pc[t] \in Holding
  /\ \A t \in Threads : pc[t] = "calling" => cacheMutex = t
  /\ \A t \in Threads : cacheMutex = t => pc[t] # "idle"
  /\ \A t \in Threads, c \in Slots : connMutex[c] = t <=> pc[t] = "connectionLocked" /\ target[t] = c

\* Type invariant, with the places at which each mutex is held.
TypeOK == Typed /\ LocksHeld

\* m_dirty is read without the mutex and the slots are called from a copy: yet an
\* emission never calls a slot whose disconnect had returned before it began ...
NoCallAfterDisconnect ==
  \A t \in Threads : pc[t] = "calling" => (todo[t] \cup atStart[t].called) \cap atStart[t].gone = {}

\* ... and calls every slot that was connected before it began and that nobody disconnects.
CallsEveryConnected ==
  \A t \in Threads : pc[t] = "calling" => atStart[t].made \ left \subseteq todo[t] \cup atStart[t].called

\* Sets of threads that wait for each other, and the three reasons for it.
WaitsFor(t, u) ==
  \/ pc[t] \in {"connect", "lock", "signalDisconnect"} /\ mutex = u
  \/ pc[t] = "connectionLocked" /\ target[t] \in connected /\ mutex = u
  \/ pc[t] \in {"reload", "enter"} /\ cacheMutex = u
  \/ pc[t] \in {"isValid", "disconnect"} /\ connMutex[target[t]] = u
  \/ pc[t] = "functionsLocked" /\ target[t] \in functions /\ connMutex[target[t]] = u
Deadlocked(S) == S # {} /\ \A t \in S : \E u \in S : WaitsFor(t, u)
OppositeOrders(S) ==
  \E t, u \in S : pc[t] = "functionsLocked" /\ pc[u] = "connectionLocked" /\ target[t] = target[u]
AtLock == {"connect", "lock", "isValid", "disconnect", "connectionLocked", "signalDisconnect"}
SlotLocks(S) ==
  \E t, u \in S : t # u /\ cacheMutex = t /\ pc[t] \in AtLock /\ pc[u] = "reload"
SlotEmits(S) ==
  \E t \in S : cacheMutex = t /\ pc[t] \in {"reload", "enter"}

\* The locks can deadlock, in three ways only: SignalWithMutex::disconnect and
\* Connection::disconnect of one connection take the two mutexes in opposite orders; a slot
\* connects, disconnects, emits or asks isValid, which take the signal's mutex or a
\* connection's, while an emission of another thread holds the signal's and waits for the
\* cache's, which the slot's own emission holds; a slot emits and comes to that cache itself.
DeadlockExplained ==
  \A S \in SUBSET Threads : Deadlocked(S) => OppositeOrders(S) \/ SlotLocks(S) \/ SlotEmits(S)
=============================================================================
