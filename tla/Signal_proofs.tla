---------------------------- MODULE Signal_proofs ----------------------------
(* Proofs about Signal, for any number of threads and connections. *)
EXTENDS Signal, TLAPS

-----------------------------------------------------------------------------
(* The inductive invariant of NoCallAfterDisconnect and CallsEveryConnected *)

\* Only a connection that was made is copied, called or disconnected.
MadeBefore ==
  /\ functions \subseteq made /\ cache \subseteq made /\ \A t \in Threads : todo[t] \subseteq made
  /\ \A t \in Threads : pc[t] \in {"disconnect", "connectionLocked", "signalDisconnect", "functionsLocked"} => target[t] \in left
  /\ \A t \in Threads : pc[t] = "isValid" => target[t] \in made

\* The functions are the connections: those nobody has begun to disconnect, and none
\* whose disconnect has returned.
ConnectedKept == functions = connected /\ made \ left \subseteq functions /\ functions \cap gone = {}

\* A cache that is not marked as out of date is not.
CleanMeansCurrent == ~dirty => cache = functions

\* An emission knows what was so when it began; when it has decided that the cache is
\* current, and as long as it waits for the cache, the cache is late by no more than
\* that; and while it calls the slots, whatever they do.
Began(t) == pc[t] \in {"check", "lock", "recheck", "reload", "enter"}
EmissionSound ==
  \A t \in Threads :
    /\ Began(t) \/ cacheMutex = t => atStart[t].made \subseteq made /\ atStart[t].gone \subseteq gone
    /\ Began(t) /\ cacheMutex # t => atStart[t].called = {}
    /\ pc[t] = "enter" /\ cacheMutex # t => atStart[t].made \ left \subseteq cache /\ cache \cap atStart[t].gone = {}
    /\ cacheMutex = t => /\ atStart[t].made \ left \subseteq todo[t] \cup atStart[t].called
                         /\ (todo[t] \cup atStart[t].called) \cap atStart[t].gone = {}

SignalInv == TypeOK /\ MadeBefore /\ ConnectedKept /\ CleanMeansCurrent /\ EmissionSound

\* Nothing is connected and nobody runs at first.
LEMMA InitInv == Init => SignalInv
<1> USE SignalAssumption DEF Init, NoEmission
<1>1. Init => TypeOK
  <2>1. NoEmission \in [made : SUBSET Slots, gone : SUBSET Slots, called : SUBSET Slots]
    OBVIOUS
  <2>2. Init => Typed
    <3> SUFFICES ASSUME Init PROVE Typed
      OBVIOUS
    <3>1. atStart \in [Threads -> [made : SUBSET Slots, gone : SUBSET Slots, called : SUBSET Slots]]
      BY <2>1
    <3>2. pc \in [Threads -> Places] /\ todo \in [Threads -> SUBSET Slots]
      BY DEF Places
    <3>3. target \in [Threads -> Slots \cup {Free}] /\ connMutex \in [Slots -> Threads \cup {Free}]
      OBVIOUS
    <3> QED
      BY <3>1, <3>2, <3>3 DEF Typed
  <2>3. Init => LocksHeld
    BY DEF LocksHeld, Holding
  <2> QED
    BY <2>2, <2>3 DEF TypeOK
<1>2. Init => MadeBefore /\ ConnectedKept /\ CleanMeansCurrent
  BY DEF MadeBefore, ConnectedKept, CleanMeansCurrent
<1>3. Init => EmissionSound
  BY DEF EmissionSound, Began
<1> QED
  BY <1>1, <1>2, <1>3 DEF SignalInv

\* Types, and what has been made.
LEMMA TypedStep == TypeOK /\ MadeBefore /\ [Next]_vars => Typed' /\ MadeBefore'
<1> SUFFICES ASSUME TypeOK, MadeBefore, [Next]_vars PROVE Typed' /\ MadeBefore'
  OBVIOUS
<1> USE SignalAssumption DEF TypeOK, Typed, MadeBefore, Places, Goto, Calls, InSlot, Back, sets, mutexes, history, NoEmission
<1>1. ASSUME NEW t \in Threads, NEW c \in Slots, Connect(t, c) PROVE Typed' /\ MadeBefore'
  BY <1>1 DEF Connect
<1>2. ASSUME NEW t \in Threads, SetBlocked(t) PROVE Typed' /\ MadeBefore'
  BY <1>2 DEF SetBlocked
<1>3. ASSUME NEW t \in Threads, Emit(t) PROVE Typed' /\ MadeBefore'
  BY <1>3 DEF Emit
<1>4. ASSUME NEW t \in Threads, CheckDirty(t) PROVE Typed' /\ MadeBefore'
  BY <1>4 DEF CheckDirty
<1>5. ASSUME NEW t \in Threads, LockSignal(t) PROVE Typed' /\ MadeBefore'
  BY <1>5 DEF LockSignal
<1>6. ASSUME NEW t \in Threads, StillDirty(t) PROVE Typed' /\ MadeBefore'
  BY <1>6 DEF StillDirty
<1>7. ASSUME NEW t \in Threads, NoLongerDirty(t) PROVE Typed' /\ MadeBefore'
  BY <1>7 DEF NoLongerDirty
<1>8. ASSUME NEW t \in Threads, Reload(t) PROVE Typed' /\ MadeBefore'
  BY <1>8 DEF Reload
<1>9. ASSUME NEW t \in Threads, Enter(t) PROVE Typed' /\ MadeBefore'
  BY <1>9 DEF Enter
<1>10. ASSUME NEW t \in Threads, NEW c \in Slots, CallSlot(t, c) PROVE Typed' /\ MadeBefore'
  <2> DEFINE Emission == [made : SUBSET Slots, gone : SUBSET Slots, called : SUBSET Slots]
  <2>1. \A S \in SUBSET Slots : [atStart[t] EXCEPT !.called = S] \in Emission
    OBVIOUS
  <2>2. atStart' = [atStart EXCEPT ![t] = [atStart[t] EXCEPT !.called = atStart[t].called \cup {c}]]
    BY <1>10 DEF CallSlot
  <2>3. atStart' \in [Threads -> Emission]
    BY <2>1, <2>2
  <2>4. todo' \in [Threads -> SUBSET Slots] /\ \A u \in Threads : todo'[u] \subseteq todo[u]
    BY <1>10 DEF CallSlot
  <2>5. c \in made
    BY <1>10 DEF CallSlot
  <2>6. Typed'
    BY <1>10, <2>3, <2>4, <2>5 DEF CallSlot
  <2>7. MadeBefore'
    BY <1>10, <2>4 DEF CallSlot
  <2> QED
    BY <2>6, <2>7
<1>11. ASSUME NEW t \in Threads, EmitDone(t) PROVE Typed' /\ MadeBefore'
  BY <1>11 DEF EmitDone
<1>12. ASSUME NEW t \in Threads, NEW c \in Slots, NEW place \in {"disconnect", "signalDisconnect"}, Begin(t, c, place) PROVE Typed' /\ MadeBefore'
  BY <1>12 DEF Begin
<1>13. ASSUME NEW t \in Threads, LockConnection(t) PROVE Typed' /\ MadeBefore'
  BY <1>13 DEF LockConnection
<1>14. ASSUME NEW t \in Threads, ConnectionErase(t) PROVE Typed' /\ MadeBefore'
  BY <1>14 DEF ConnectionErase, Done, Erase, Unlock
<1>15. ASSUME NEW t \in Threads, NotConnected(t) PROVE Typed' /\ MadeBefore'
  BY <1>15 DEF NotConnected, Done, Unlock
<1>16. ASSUME NEW t \in Threads, LockFunctions(t) PROVE Typed' /\ MadeBefore'
  BY <1>16 DEF LockFunctions
<1>17. ASSUME NEW t \in Threads, SignalErase(t) PROVE Typed' /\ MadeBefore'
  BY <1>17 DEF SignalErase, Done, Erase
<1>18. ASSUME NEW t \in Threads, NotFound(t) PROVE Typed' /\ MadeBefore'
  BY <1>18 DEF NotFound, Done
<1>19. ASSUME NEW t \in Threads, BeginConnect(t) PROVE Typed' /\ MadeBefore'
  BY <1>19 DEF BeginConnect
<1>20. ASSUME NEW t \in Threads, NEW c \in Slots, BeginIsValid(t, c) PROVE Typed' /\ MadeBefore'
  BY <1>20 DEF BeginIsValid
<1>21. ASSUME NEW t \in Threads, IsValid(t) PROVE Typed' /\ MadeBefore'
  BY <1>21 DEF IsValid
<1>22. CASE UNCHANGED vars
  BY <1>22 DEF vars, sets, mutexes, history
<1> QED
  BY <1>1, <1>2, <1>3, <1>4, <1>5, <1>6, <1>7, <1>8, <1>9, <1>10, <1>11, <1>12, <1>13, <1>14, <1>15, <1>16, <1>17, <1>18, <1>19, <1>20, <1>21, <1>22 DEF Next, Locking, Going, Starting

\* Who holds which mutex.
LEMMA LocksStep == TypeOK /\ MadeBefore /\ [Next]_vars => LocksHeld'
<1> SUFFICES ASSUME TypeOK, MadeBefore, [Next]_vars PROVE LocksHeld'
  OBVIOUS
<1> USE SignalAssumption DEF TypeOK, Typed, LocksHeld, Holding, MadeBefore, Places, Goto, Calls, InSlot, Back, sets, mutexes, history
<1>1. ASSUME NEW t \in Threads, NEW c \in Slots, Connect(t, c) PROVE LocksHeld'
  BY <1>1 DEF Connect
<1>2. ASSUME NEW t \in Threads, SetBlocked(t) PROVE LocksHeld'
  BY <1>2 DEF SetBlocked
<1>3. ASSUME NEW t \in Threads, Emit(t) PROVE LocksHeld'
  BY <1>3 DEF Emit
<1>4. ASSUME NEW t \in Threads, CheckDirty(t) PROVE LocksHeld'
  BY <1>4 DEF CheckDirty
<1>5. ASSUME NEW t \in Threads, LockSignal(t) PROVE LocksHeld'
  BY <1>5 DEF LockSignal
<1>6. ASSUME NEW t \in Threads, StillDirty(t) PROVE LocksHeld'
  BY <1>6 DEF StillDirty
<1>7. ASSUME NEW t \in Threads, NoLongerDirty(t) PROVE LocksHeld'
  BY <1>7 DEF NoLongerDirty
<1>8. ASSUME NEW t \in Threads, Reload(t) PROVE LocksHeld'
  BY <1>8 DEF Reload
<1>9. ASSUME NEW t \in Threads, Enter(t) PROVE LocksHeld'
  BY <1>9 DEF Enter
<1>10. ASSUME NEW t \in Threads, NEW c \in Slots, CallSlot(t, c) PROVE LocksHeld'
  BY <1>10 DEF CallSlot
<1>11. ASSUME NEW t \in Threads, EmitDone(t) PROVE LocksHeld'
  BY <1>11 DEF EmitDone
<1>12. ASSUME NEW t \in Threads, NEW c \in Slots, NEW place \in {"disconnect", "signalDisconnect"}, Begin(t, c, place) PROVE LocksHeld'
  BY <1>12 DEF Begin
<1>13. ASSUME NEW t \in Threads, LockConnection(t) PROVE LocksHeld'
  BY <1>13 DEF LockConnection
<1>14. ASSUME NEW t \in Threads, ConnectionErase(t) PROVE LocksHeld'
  BY <1>14 DEF ConnectionErase, Done, Erase, Unlock
<1>15. ASSUME NEW t \in Threads, NotConnected(t) PROVE LocksHeld'
  BY <1>15 DEF NotConnected, Done, Unlock
<1>16. ASSUME NEW t \in Threads, LockFunctions(t) PROVE LocksHeld'
  BY <1>16 DEF LockFunctions
<1>17. ASSUME NEW t \in Threads, SignalErase(t) PROVE LocksHeld'
  BY <1>17 DEF SignalErase, Done, Erase
<1>18. ASSUME NEW t \in Threads, NotFound(t) PROVE LocksHeld'
  BY <1>18 DEF NotFound, Done
<1>19. ASSUME NEW t \in Threads, BeginConnect(t) PROVE LocksHeld'
  BY <1>19 DEF BeginConnect
<1>20. ASSUME NEW t \in Threads, NEW c \in Slots, BeginIsValid(t, c) PROVE LocksHeld'
  BY <1>20 DEF BeginIsValid
<1>21. ASSUME NEW t \in Threads, IsValid(t) PROVE LocksHeld'
  BY <1>21 DEF IsValid
<1>22. CASE UNCHANGED vars
  BY <1>22 DEF vars, sets, mutexes, history
<1> QED
  BY <1>1, <1>2, <1>3, <1>4, <1>5, <1>6, <1>7, <1>8, <1>9, <1>10, <1>11, <1>12, <1>13, <1>14, <1>15, <1>16, <1>17, <1>18, <1>19, <1>20, <1>21, <1>22 DEF Next, Locking, Going, Starting

\* The cache is out of date only when it is marked so.
LEMMA ConnectedStep == SignalInv /\ [Next]_vars => ConnectedKept' /\ CleanMeansCurrent'
<1> SUFFICES ASSUME SignalInv, [Next]_vars PROVE ConnectedKept' /\ CleanMeansCurrent'
  OBVIOUS
<1> USE DEF SignalInv, TypeOK, Typed, MadeBefore, ConnectedKept, CleanMeansCurrent, Goto, Calls, InSlot, Back, sets, mutexes, history
<1>1. ASSUME NEW t \in Threads, NEW c \in Slots, Connect(t, c) PROVE ConnectedKept' /\ CleanMeansCurrent'
  BY <1>1 DEF Connect
<1>2. ASSUME NEW t \in Threads, SetBlocked(t) PROVE ConnectedKept' /\ CleanMeansCurrent'
  BY <1>2 DEF SetBlocked
<1>3. ASSUME NEW t \in Threads, Emit(t) PROVE ConnectedKept' /\ CleanMeansCurrent'
  BY <1>3 DEF Emit
<1>4. ASSUME NEW t \in Threads, CheckDirty(t) PROVE ConnectedKept' /\ CleanMeansCurrent'
  BY <1>4 DEF CheckDirty
<1>5. ASSUME NEW t \in Threads, LockSignal(t) PROVE ConnectedKept' /\ CleanMeansCurrent'
  BY <1>5 DEF LockSignal
<1>6. ASSUME NEW t \in Threads, StillDirty(t) PROVE ConnectedKept' /\ CleanMeansCurrent'
  BY <1>6 DEF StillDirty
<1>7. ASSUME NEW t \in Threads, NoLongerDirty(t) PROVE ConnectedKept' /\ CleanMeansCurrent'
  BY <1>7 DEF NoLongerDirty
<1>8. ASSUME NEW t \in Threads, Reload(t) PROVE ConnectedKept' /\ CleanMeansCurrent'
  BY <1>8 DEF Reload
<1>9. ASSUME NEW t \in Threads, Enter(t) PROVE ConnectedKept' /\ CleanMeansCurrent'
  BY <1>9 DEF Enter
<1>10. ASSUME NEW t \in Threads, NEW c \in Slots, CallSlot(t, c) PROVE ConnectedKept' /\ CleanMeansCurrent'
  BY <1>10 DEF CallSlot
<1>11. ASSUME NEW t \in Threads, EmitDone(t) PROVE ConnectedKept' /\ CleanMeansCurrent'
  BY <1>11 DEF EmitDone
<1>12. ASSUME NEW t \in Threads, NEW c \in Slots, NEW place \in {"disconnect", "signalDisconnect"}, Begin(t, c, place) PROVE ConnectedKept' /\ CleanMeansCurrent'
  BY <1>12 DEF Begin
<1>13. ASSUME NEW t \in Threads, LockConnection(t) PROVE ConnectedKept' /\ CleanMeansCurrent'
  BY <1>13 DEF LockConnection
<1>14. ASSUME NEW t \in Threads, ConnectionErase(t) PROVE ConnectedKept' /\ CleanMeansCurrent'
  BY <1>14 DEF ConnectionErase, Done, Erase, Unlock
<1>15. ASSUME NEW t \in Threads, NotConnected(t) PROVE ConnectedKept' /\ CleanMeansCurrent'
  BY <1>15 DEF NotConnected, Done, Unlock
<1>16. ASSUME NEW t \in Threads, LockFunctions(t) PROVE ConnectedKept' /\ CleanMeansCurrent'
  BY <1>16 DEF LockFunctions
<1>17. ASSUME NEW t \in Threads, SignalErase(t) PROVE ConnectedKept' /\ CleanMeansCurrent'
  BY <1>17 DEF SignalErase, Done, Erase
<1>18. ASSUME NEW t \in Threads, NotFound(t) PROVE ConnectedKept' /\ CleanMeansCurrent'
  BY <1>18 DEF NotFound, Done
<1>19. ASSUME NEW t \in Threads, BeginConnect(t) PROVE ConnectedKept' /\ CleanMeansCurrent'
  BY <1>19 DEF BeginConnect
<1>20. ASSUME NEW t \in Threads, NEW c \in Slots, BeginIsValid(t, c) PROVE ConnectedKept' /\ CleanMeansCurrent'
  BY <1>20 DEF BeginIsValid
<1>21. ASSUME NEW t \in Threads, IsValid(t) PROVE ConnectedKept' /\ CleanMeansCurrent'
  BY <1>21 DEF IsValid
<1>22. CASE UNCHANGED vars
  BY <1>22 DEF vars, sets, mutexes, history
<1> QED
  BY <1>1, <1>2, <1>3, <1>4, <1>5, <1>6, <1>7, <1>8, <1>9, <1>10, <1>11, <1>12, <1>13, <1>14, <1>15, <1>16, <1>17, <1>18, <1>19, <1>20, <1>21, <1>22 DEF Next, Locking, Going, Starting

\* What an emission has called and has yet to call.
LEMMA EmissionStep == SignalInv /\ [Next]_vars => EmissionSound'
<1> SUFFICES ASSUME SignalInv, [Next]_vars PROVE EmissionSound'
  OBVIOUS
<1> USE SignalAssumption DEF SignalInv, TypeOK, Typed, LocksHeld, MadeBefore, ConnectedKept, CleanMeansCurrent, EmissionSound, Began, Goto, Calls, InSlot, Back, sets, mutexes, history, NoEmission
<1>1. ASSUME NEW t \in Threads, NEW c \in Slots, Connect(t, c) PROVE EmissionSound'
  BY <1>1 DEF Connect
<1>2. ASSUME NEW t \in Threads, SetBlocked(t) PROVE EmissionSound'
  BY <1>2 DEF SetBlocked
<1>3. ASSUME NEW t \in Threads, Emit(t) PROVE EmissionSound'
  BY <1>3 DEF Emit
<1>4. ASSUME NEW t \in Threads, CheckDirty(t) PROVE EmissionSound'
  BY <1>4 DEF CheckDirty
<1>5. ASSUME NEW t \in Threads, LockSignal(t) PROVE EmissionSound'
  BY <1>5 DEF LockSignal
<1>6. ASSUME NEW t \in Threads, StillDirty(t) PROVE EmissionSound'
  BY <1>6 DEF StillDirty
<1>7. ASSUME NEW t \in Threads, NoLongerDirty(t) PROVE EmissionSound'
  BY <1>7 DEF NoLongerDirty
<1>8. ASSUME NEW t \in Threads, Reload(t) PROVE EmissionSound'
  BY <1>8 DEF Reload
<1>9. ASSUME NEW t \in Threads, Enter(t) PROVE EmissionSound'
  BY <1>9 DEF Enter
<1>10. ASSUME NEW t \in Threads, NEW c \in Slots, CallSlot(t, c) PROVE EmissionSound'
  BY <1>10 DEF CallSlot
<1>11. ASSUME NEW t \in Threads, EmitDone(t) PROVE EmissionSound'
  BY <1>11 DEF EmitDone
<1>12. ASSUME NEW t \in Threads, NEW c \in Slots, NEW place \in {"disconnect", "signalDisconnect"}, Begin(t, c, place) PROVE EmissionSound'
  BY <1>12 DEF Begin
<1>13. ASSUME NEW t \in Threads, LockConnection(t) PROVE EmissionSound'
  BY <1>13 DEF LockConnection
<1>14. ASSUME NEW t \in Threads, ConnectionErase(t) PROVE EmissionSound'
  BY <1>14 DEF ConnectionErase, Done, Erase, Unlock
<1>15. ASSUME NEW t \in Threads, NotConnected(t) PROVE EmissionSound'
  BY <1>15 DEF NotConnected, Done, Unlock
<1>16. ASSUME NEW t \in Threads, LockFunctions(t) PROVE EmissionSound'
  BY <1>16 DEF LockFunctions
<1>17. ASSUME NEW t \in Threads, SignalErase(t) PROVE EmissionSound'
  BY <1>17 DEF SignalErase, Done, Erase
<1>18. ASSUME NEW t \in Threads, NotFound(t) PROVE EmissionSound'
  BY <1>18 DEF NotFound, Done
<1>19. ASSUME NEW t \in Threads, BeginConnect(t) PROVE EmissionSound'
  BY <1>19 DEF BeginConnect
<1>20. ASSUME NEW t \in Threads, NEW c \in Slots, BeginIsValid(t, c) PROVE EmissionSound'
  BY <1>20 DEF BeginIsValid
<1>21. ASSUME NEW t \in Threads, IsValid(t) PROVE EmissionSound'
  BY <1>21 DEF IsValid
<1>22. CASE UNCHANGED vars
  BY <1>22 DEF vars, sets, mutexes, history
<1> QED
  BY <1>1, <1>2, <1>3, <1>4, <1>5, <1>6, <1>7, <1>8, <1>9, <1>10, <1>11, <1>12, <1>13, <1>14, <1>15, <1>16, <1>17, <1>18, <1>19, <1>20, <1>21, <1>22 DEF Next, Locking, Going, Starting

\* SignalInv holds in every reachable state.
THEOREM SignalInvariant == Spec => []SignalInv
<1>1. SignalInv /\ [Next]_vars => SignalInv'
  BY TypedStep, LocksStep, ConnectedStep, EmissionStep DEF SignalInv, TypeOK
<1> QED
  BY InitInv, <1>1, PTL DEF Spec

\* Every reachable state is typed, and a mutex is held at its places only.
THEOREM Typing == Spec => []TypeOK
<1>1. SignalInv => TypeOK
  BY DEF SignalInv
<1> QED
  BY SignalInvariant, <1>1, PTL

\* An emission never calls a slot whose disconnect had returned before it began,
\* although m_dirty is read without the mutex and the slots are called from a copy.
THEOREM NoLateCall == Spec => []NoCallAfterDisconnect
<1>1. SignalInv => NoCallAfterDisconnect
  BY DEF SignalInv, TypeOK, LocksHeld, EmissionSound, NoCallAfterDisconnect
<1> QED
  BY SignalInvariant, <1>1, PTL

\* An emission calls every slot that was connected before it began and that nobody
\* disconnects.
THEOREM NoLostCall == Spec => []CallsEveryConnected
<1>1. SignalInv => CallsEveryConnected
  BY DEF SignalInv, TypeOK, LocksHeld, EmissionSound, CallsEveryConnected
<1> QED
  BY SignalInvariant, <1>1, PTL

\* Of threads that all wait for each other, one that reloads the cache waits for a slot, its
\* own or another thread's; one that disconnects through the signal waits for the connection's
\* own disconnect; and without either nobody could hold what the others wait for.
LEMMA WaitingReloads ==
  ASSUME TypeOK, NEW S \in SUBSET Threads, Deadlocked(S), NEW u \in S, pc[u] = "reload", ~OppositeOrders(S), ~SlotEmits(S)
  PROVE  SlotLocks(S)
<1>1. PICK t \in S : cacheMutex = t
  BY DEF Deadlocked, WaitsFor
<1>2. t # u
  BY <1>1 DEF SlotEmits
<1>3. mutex = u
  BY DEF TypeOK, LocksHeld, Holding
<1>4. pc[t] \notin Holding
  BY <1>2, <1>3 DEF TypeOK, LocksHeld
<1>5. pc[t] \notin {"idle", "calling", "check", "enter"}
  BY <1>1 DEF Deadlocked, WaitsFor, SlotEmits
<1>6. pc[t] \in Places
  BY DEF TypeOK, Typed
<1>7. pc[t] \in AtLock
  BY <1>4, <1>5, <1>6 DEF Places, Holding, AtLock
<1> QED
  BY <1>1, <1>2, <1>7 DEF SlotLocks

LEMMA WaitingDisconnects ==
  ASSUME TypeOK, NEW S \in SUBSET Threads, Deadlocked(S), NEW t \in S, pc[t] = "functionsLocked"
  PROVE  OppositeOrders(S)
<1>1. PICK u \in S : target[t] \in functions /\ connMutex[target[t]] = u
  BY DEF Deadlocked, WaitsFor
<1>2. pc[u] = "connectionLocked" /\ target[u] = target[t]
  BY <1>1 DEF TypeOK, Typed, LocksHeld
<1> QED
  BY <1>2 DEF OppositeOrders

\* The locks deadlock in the three named ways only, for any number of threads and of
\* connections and whatever the slots do with their signal.
THEOREM DeadlockFreedom == Spec => []DeadlockExplained
<1>1. ASSUME TypeOK, MadeBefore, NEW S \in SUBSET Threads, Deadlocked(S),
             ~OppositeOrders(S), ~SlotLocks(S), ~SlotEmits(S)
      PROVE  FALSE
  <2>1. \A u \in S : pc[u] \notin Holding
    <3>1. \A u \in S : pc[u] # "recheck"
      BY <1>1 DEF Deadlocked, WaitsFor
    <3> QED
      BY <1>1, <3>1, WaitingReloads, WaitingDisconnects DEF Holding
  <2>2. \A u \in S : mutex # u
    BY <1>1, <2>1 DEF TypeOK, LocksHeld
  <2>3. \A u \in S : pc[u] # "connectionLocked"
    BY <1>1, <2>2 DEF Deadlocked, WaitsFor
  <2>4. \A u \in S : pc[u] \notin {"disconnect", "isValid"}
    <3> SUFFICES ASSUME NEW u \in S, pc[u] \in {"disconnect", "isValid"} PROVE FALSE
      OBVIOUS
    <3>1. PICK v \in S : connMutex[target[u]] = v
      BY <1>1 DEF Deadlocked, WaitsFor
    <3>2. target[u] \in Slots
      BY <1>1 DEF TypeOK, Typed, MadeBefore
    <3> QED
      BY <1>1, <2>3, <3>1, <3>2 DEF TypeOK, LocksHeld
  <2>5. \A u \in S : pc[u] = "enter"
    BY <1>1, <2>1, <2>2, <2>3, <2>4 DEF Deadlocked, WaitsFor, Holding
  <2>6. PICK t \in S, u \in S : cacheMutex = u
    BY <1>1, <2>5 DEF Deadlocked, WaitsFor
  <2> QED
    BY <1>1, <2>5, <2>6 DEF SlotEmits
<1>2. SignalInv => DeadlockExplained
  BY <1>1 DEF SignalInv, DeadlockExplained
<1> QED
  BY SignalInvariant, <1>2, PTL
=============================================================================
