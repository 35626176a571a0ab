--------------------------- MODULE TimerServerProofs ---------------------------
(***************************************************************************)
(* Proofs about the timer server, for any clients, periods and threads and *)
(* any bound of the clock.                                                 *)
(***************************************************************************)
EXTENDS TimerServer, TLAPS

\* The container's lock says who is where: a thread inside it is about to register
\* one client, which no other thread has and the server does not know; the timer's
\* thread is in a callback.
LocksSound ==
  /\ \A u \in Users : container = u <=> user[u] # None
  /\ pc = "Callback" <=> container = Timer
  /\ \A u \in Users : user[u] \notin registered

\* What a pass works on has registered.
CopiesSound ==
  table \subseteq registered /\ clients \subseteq registered

\* Ids are drawn once until stop() starts them again; the table never holds two
\* clients of one id.
IdsSound ==
  /\ \A c \in table : handler[c].id <= lastId
  /\ IdsUnique
  /\ stopPc # "Stopped" =>
       /\ \A c \in registered : handler[c].id <= lastId
       /\ \A c, d \in registered : handler[c].id = handler[d].id => c = d

\* A client nobody wants called again is cancelled; until stop() clears the table,
\* it has every other one.
CancelsSound ==
  /\ \A c \in refused \cup (Once \cap calls) : handler[c].cancelled
  /\ stopPc # "Stopped" => \A c \in registered : handler[c].cancelled \/ c \in table

\* The thread runs between start() and the end of the join.
StopSound ==
  (stopPc = "Created" => pc = "Off") /\ (stopPc = "Stopped" => pc = "Exited")

\* The conjunction that is inductive.
TimerInv ==
  TypeOK /\ LocksSound /\ CopiesSound /\ IdsSound /\ CancelsSound /\ StopSound

\* The three names are different.
LEMMA HoldersDiffer == None # Timer /\ None # Stopper /\ Timer # Stopper
BY DEF None, Timer, Stopper

\* The invariant holds before the first start().
LEMMA InitTimer == Init => TimerInv
<1> SUFFICES ASSUME Init PROVE TimerInv
  OBVIOUS
<1> USE DEF Init
<1>1. TypeOK
  <2>1. 0 \in 0 .. MaxTime
    BY TimerAssumption
  <2>2. handler \in [Clients -> Handler]
    BY <2>1 DEF Handler
  <2> QED BY <2>1, <2>2 DEF TypeOK, Holders
<1>2. LocksSound
  BY HoldersAssumption, HoldersDiffer DEF LocksSound
<1>3. CopiesSound /\ IdsSound /\ CancelsSound /\ StopSound
  BY DEF CopiesSound, IdsSound, IdsUnique, CancelsSound, StopSound
<1> QED BY <1>1, <1>2, <1>3 DEF TimerInv

\* What registerClient writes into a handler.
LEMMA HandlerType ==
  ASSUME NEW f \in [Clients -> Handler], NEW c \in Clients, NEW i \in Nat,
         NEW t \in 0 .. MaxTime
  PROVE  [f EXCEPT ![c].id = i, ![c].timestamp = t] \in [Clients -> Handler]
BY DEF Handler

\* A registration, by whichever thread has the container's lock: the id it draws is
\* above all in use.
LEMMA RegisterKeeps ==
  ASSUME TimerInv, NEW c \in Clients, c \notin registered, registerClient(c),
         UNCHANGED <<now, thread, done, lock, stopPc, calls, refused>>
  PROVE  CopiesSound' /\ IdsSound' /\ CancelsSound' /\ StopSound'
<1> USE DEF TimerInv, TypeOK, Handler, thread, registerClient
<1>1. /\ handler'[c].id = lastId + 1 /\ lastId' = lastId + 1
      /\ handler'[c].cancelled = handler[c].cancelled
      /\ \A d \in Clients \ {c} : handler'[d] = handler[d]
      /\ table' = table \cup {c} /\ registered' = registered \cup {c}
      /\ c \notin table
      /\ \A d \in Clients : handler[d].id \in Nat
  BY DEF CopiesSound
<1>2. CopiesSound'
  BY DEF CopiesSound
<1>3. IdsSound'
  BY <1>1 DEF IdsSound, IdsUnique, CopiesSound
<1>4. CancelsSound'
  BY <1>1 DEF CancelsSound
<1> QED BY <1>2, <1>3, <1>4 DEF StopSound

\* A thread with the container's lock comes for a client, or registers it.
LEMMA UserKeeps ==
  ASSUME TimerInv, NEW u \in Users,
         UserRegister(u) \/ \E c \in Clients : UserEnter(u, c)
  PROVE  TimerInv'
<1> USE DEF TimerInv
<1>1. /\ None \notin registered /\ u # None /\ u # Timer
      /\ \A v \in Users : v # None /\ v # Timer
  BY HoldersAssumption DEF TypeOK
<1>2. ASSUME NEW c \in Clients, UserEnter(u, c)
      PROVE  TimerInv'
  <2> USE <1>2 DEF UserEnter, CanRegister, server, thread, history
  <2>1. TypeOK'
    BY DEF TypeOK, Holders
  <2>2. LocksSound'
    BY <1>1, HoldersAssumption, HoldersDiffer DEF LocksSound, TypeOK
  <2>3. CopiesSound' /\ IdsSound' /\ CancelsSound' /\ StopSound'
    BY DEF CopiesSound, IdsSound, IdsUnique, CancelsSound, StopSound
  <2> QED BY <2>1, <2>2, <2>3
<1>3. CASE UserRegister(u)
  <2> DEFINE c == user[u]
  <2>1. c \in Clients /\ c \notin registered
    BY <1>3 DEF UserRegister, LocksSound, TypeOK
  <2>2. /\ registerClient(c) /\ container = u /\ container' = None
        /\ user' = [user EXCEPT ![u] = None]
        /\ UNCHANGED <<now, thread, done, lock, stopPc, calls, refused>>
    BY <1>3 DEF UserRegister
  <2>3. TypeOK'
    BY <2>1, <2>2 DEF registerClient, TypeOK, Handler, Holders, thread
  <2>4. LocksSound'
    <3>1. \A v \in Users \ {u} : user[v] = None
      BY <2>2 DEF LocksSound
    <3>2. \A v \in Users : user'[v] = None
      BY <2>2, <3>1 DEF TypeOK
    <3>3. None \notin registered' /\ pc # "Callback" /\ pc' = pc
      BY <1>1, <2>1, <2>2, HoldersAssumption DEF registerClient, LocksSound, thread
    <3> QED BY <1>1, <2>2, <3>2, <3>3, HoldersDiffer DEF LocksSound
  <2>5. CopiesSound' /\ IdsSound' /\ CancelsSound' /\ StopSound'
    BY <2>1, <2>2, RegisterKeeps
  <2> QED BY <2>3, <2>4, <2>5
<1> QED BY <1>2, <1>3

\* A client registers another in its callback.
LEMMA CallbackKeeps ==
  ASSUME TimerInv, NEW c \in Clients, CallbackRegister(c)
  PROVE  TimerInv'
<1>1. /\ registerClient(c) /\ c \notin registered /\ \A u \in Users : user[u] # c
      /\ UNCHANGED <<now, thread, done, locks, user, stopPc, calls, refused>>
  BY DEF CallbackRegister, CanRegister
<1>2. TypeOK'
  <2>1. /\ handler' = [handler EXCEPT ![c].id = lastId + 1, ![c].timestamp = now]
        /\ handler \in [Clients -> Handler] /\ lastId \in Nat /\ now \in 0 .. MaxTime
    BY <1>1 DEF TimerInv, registerClient, TypeOK
  <2>2. handler' \in [Clients -> Handler]
    <3>1. lastId + 1 \in Nat
      BY <2>1
    <3>2. \A f \in [Clients -> Handler] : \A i \in Nat : \A t \in 0 .. MaxTime :
             [f EXCEPT ![c].id = i, ![c].timestamp = t] \in [Clients -> Handler]
      BY HandlerType
    <3> QED BY <2>1, <3>1, <3>2
  <2> QED BY <1>1, <2>2 DEF TimerInv, registerClient, TypeOK, Holders, thread, locks
<1>3. LocksSound'
  BY <1>1 DEF TimerInv, registerClient, LocksSound, thread, locks
<1>4. CopiesSound' /\ IdsSound' /\ CancelsSound' /\ StopSound'
  BY <1>1, RegisterKeeps DEF locks
<1> QED BY <1>2, <1>3, <1>4 DEF TimerInv

--------------------------------------------------------------------------------
(***************************************************************************)
(* A pass of ThreadMain                                                    *)
(***************************************************************************)

\* The answer of a client that was called.
LEMMA ReturnKeeps ==
  ASSUME TimerInv, NEW again \in BOOLEAN, CallbackReturn(again)
  PROVE  TimerInv'
<1> USE DEF TimerInv
<1>1. PICK c \in visit :
        /\ handler' = [handler EXCEPT ![c] =
             IF ~again \/ c \in Once THEN [@ EXCEPT !.cancelled = TRUE]
                                     ELSE [@ EXCEPT !.timestamp = timestamp]]
        /\ anyCancelled' = (anyCancelled \/ handler'[c].cancelled)
        /\ calls' = calls \cup {c}
        /\ refused' = IF again THEN refused ELSE refused \cup {c}
        /\ visit' = visit \ {c}
  BY DEF CallbackReturn
<1>2. c \in Clients /\ c \in registered
  BY DEF TypeOK, CopiesSound
<1>3. /\ handler' \in [Clients -> Handler]
      /\ \A d \in Clients : handler'[d].id = handler[d].id
      /\ \A d \in Clients : handler[d].cancelled => handler'[d].cancelled
      /\ ~again \/ c \in Once => handler'[c].cancelled
  BY <1>1, <1>2 DEF TypeOK, Handler
<1>4. /\ pc = "Callback" /\ pc' = "Visit" /\ container' = None
      /\ UNCHANGED <<now, table, lastId, timestamp, clients, done, lock, user, stopPc,
                     registered>>
  BY DEF CallbackReturn
<1>5. TypeOK'
  <2>1. anyCancelled' \in BOOLEAN
    BY <1>1, <1>2, <1>3 DEF TypeOK, Handler
  <2> QED BY <1>1, <1>2, <1>3, <1>4, <2>1 DEF TypeOK, Holders
<1>6. LocksSound'
  <2>1. container = Timer
    BY <1>4 DEF LocksSound
  <2>2. \A u \in Users : user[u] = None
    BY <2>1, HoldersAssumption DEF LocksSound
  <2> QED BY <1>4, <2>2, HoldersAssumption, HoldersDiffer DEF LocksSound
<1>7. CopiesSound'
  BY <1>4 DEF CopiesSound
<1>8. IdsSound'
  BY <1>3, <1>4 DEF IdsSound, IdsUnique, TypeOK
<1>9. CancelsSound'
  BY <1>1, <1>2, <1>3, <1>4 DEF CancelsSound, TypeOK
<1>10. StopSound'
  BY <1>4 DEF StopSound
<1> QED BY <1>5, <1>6, <1>7, <1>8, <1>9, <1>10

\* The erase at the end of a pass takes away cancelled clients only: ids are unique
\* over all that registered, so none stands for another.
LEMMA EraseKeeps ==
  ASSUME TimerInv, EraseCancelled
  PROVE  TimerInv'
<1> USE DEF TimerInv
<1>1. /\ table' = {c \in table :
            \A d \in clients : handler[d].cancelled => handler[d].id # handler[c].id}
      /\ pc = "Erase" /\ pc' = "Sleep" /\ anyCancelled' = FALSE
      /\ UNCHANGED <<now, handler, lastId, timestamp, clients, visit, done, lock,
                     container, user, stopPc, registered, calls, refused>>
  BY DEF EraseCancelled, locks, history
<1>2. table' \subseteq table /\ stopPc # "Stopped"
  BY <1>1 DEF StopSound
<1>3. TypeOK'
  BY <1>1, <1>2 DEF TypeOK, Holders
<1>4. LocksSound' /\ CopiesSound' /\ StopSound'
  BY <1>1, <1>2 DEF LocksSound, CopiesSound, StopSound
<1>5. IdsSound'
  BY <1>1, <1>2 DEF IdsSound, IdsUnique
<1>6. CancelsSound'
  <2>1. ASSUME NEW c \in registered, ~handler[c].cancelled
        PROVE  c \in table'
    <3>1. c \in table
      BY <1>2, <2>1 DEF CancelsSound
    <3>2. \A d \in clients : handler[d].id = handler[c].id => d = c
      BY <1>2 DEF IdsSound, CopiesSound
    <3> QED BY <1>1, <2>1, <3>1, <3>2
  <2> QED BY <1>1, <2>1 DEF CancelsSound
<1> QED BY <1>3, <1>4, <1>5, <1>6

\* The other steps of the thread move it along.
LEMMA ThreadKeeps ==
  ASSUME TimerInv, ThreadMain
  PROVE  TimerInv'
<1> USE DEF TimerInv
<1>1. ASSUME TestDone \/ CopyClients \/ VisitSkip \/ Visited \/ SleepOver
      PROVE  TimerInv'
  <2>1. /\ pc # "Callback" /\ pc' # "Callback" /\ pc # "Exited" /\ pc # "Off"
        /\ UNCHANGED <<now, table, handler, lastId, done, lock, container, user, stopPc,
                       registered, calls, refused>>
        /\ clients' = clients \/ clients' = table
    BY <1>1 DEF TestDone, CopyClients, VisitSkip, Visited, SleepOver, server, locks,
                history
  <2>2. TypeOK'
    <3>1. CASE TestDone
      BY <3>1 DEF TestDone, TypeOK, server, locks, history, Holders
    <3>2. CASE CopyClients
      BY <3>2 DEF CopyClients, TypeOK, server, locks, history, Holders
    <3>3. CASE VisitSkip
      <4>1. PICK c \in visit :
              /\ anyCancelled' = (anyCancelled \/ handler[c].cancelled)
              /\ visit' = visit \ {c}
        BY <3>3 DEF VisitSkip
      <4>2. handler[c].cancelled \in BOOLEAN
        BY DEF TypeOK, Handler
      <4>3. anyCancelled' \in BOOLEAN
        BY <4>1, <4>2 DEF TypeOK
      <4> QED BY <3>3, <4>1, <4>3 DEF VisitSkip, TypeOK, server, locks, history, Holders
    <3>4. CASE Visited
      BY <3>4 DEF Visited, TypeOK, server, locks, history, Holders
    <3>5. CASE SleepOver
      BY <3>5 DEF SleepOver, TypeOK, server, locks, history, Holders
    <3> QED BY <1>1, <3>1, <3>2, <3>3, <3>4, <3>5
  <2>3. LocksSound' /\ CopiesSound' /\ IdsSound' /\ CancelsSound'
    BY <2>1 DEF LocksSound, CopiesSound, IdsSound, IdsUnique, CancelsSound
  <2>4. StopSound'
    BY <2>1 DEF StopSound
  <2> QED BY <2>2, <2>3, <2>4
<1>2. CASE VisitCall
  <2>1. /\ pc = "Visit" /\ pc' = "Callback" /\ container = None /\ container' = Timer
        /\ UNCHANGED <<now, table, handler, lastId, timestamp, clients, visit,
                       anyCancelled, done, lock, user, stopPc, registered, calls, refused>>
    BY <1>2 DEF VisitCall, server, history
  <2>2. TypeOK'
    BY <2>1 DEF TypeOK, Holders
  <2>3. LocksSound'
    <3>1. \A u \in Users : user[u] = None
      BY <2>1, HoldersAssumption DEF LocksSound
    <3> QED BY <2>1, <3>1, HoldersAssumption DEF LocksSound
  <2>4. CopiesSound' /\ IdsSound' /\ CancelsSound' /\ StopSound'
    BY <2>1 DEF CopiesSound, IdsSound, IdsUnique, CancelsSound, StopSound
  <2> QED BY <2>2, <2>3, <2>4
<1> QED BY <1>1, <1>2, ReturnKeeps, EraseKeeps DEF ThreadMain

--------------------------------------------------------------------------------
(***************************************************************************)
(* The theorems                                                            *)
(***************************************************************************)

\* Every step keeps it.
LEMMA TimerStep ==
  ASSUME TimerInv, [Next]_vars
  PROVE  TimerInv'
<1> USE DEF TimerInv
<1>1. CASE Tick \/ UNCHANGED vars
  <2>1. /\ now' \in 0 .. MaxTime
        /\ UNCHANGED <<table, handler, lastId, pc, timestamp, clients, visit,
                       anyCancelled, done, lock, container, user, stopPc, registered,
                       calls, refused>>
    BY <1>1, TimerAssumption DEF Tick, vars, server, thread, locks, history, TypeOK
  <2>2. TypeOK'
    BY <2>1 DEF TypeOK, Holders
  <2> QED BY <2>1, <2>2 DEF LocksSound, CopiesSound, IdsSound, IdsUnique, CancelsSound,
                            StopSound
<1>2. CASE start
  <2>1. /\ stopPc = "Created" /\ pc' = "Test" /\ stopPc' = "Running"
        /\ UNCHANGED <<now, table, handler, lastId, timestamp, clients, visit,
                       anyCancelled, done, lock, container, user, registered, calls,
                       refused>>
    BY <1>2 DEF start, server, locks, history
  <2>2. TypeOK'
    BY <2>1 DEF TypeOK, Holders
  <2> QED BY <2>1, <2>2 DEF LocksSound, CopiesSound, IdsSound, IdsUnique, CancelsSound,
                            StopSound
<1>3. CASE stop
  <2>1. /\ stopPc = "Running" /\ stopPc' = "Join" /\ lock' = Stopper /\ done' = TRUE
        /\ UNCHANGED <<now, table, handler, lastId, pc, timestamp, clients, visit,
                       anyCancelled, container, user, registered, calls, refused>>
    BY <1>3 DEF stop, server, thread, history
  <2>2. TypeOK'
    BY <2>1 DEF TypeOK, Holders
  <2> QED BY <2>1, <2>2 DEF LocksSound, CopiesSound, IdsSound, IdsUnique, CancelsSound,
                            StopSound
<1>4. CASE StopJoin
  <2>1. /\ pc = "Exited" /\ stopPc' = "Stopped" /\ lock' = None /\ done' = FALSE
        /\ table' = {} /\ lastId' = 0
        /\ UNCHANGED <<now, handler, pc, timestamp, clients, visit, anyCancelled,
                       container, user, registered, calls, refused>>
    BY <1>4 DEF StopJoin, thread, history
  <2>2. TypeOK'
    BY <2>1 DEF TypeOK, Holders
  <2> QED BY <2>1, <2>2 DEF LocksSound, CopiesSound, IdsSound, IdsUnique, CancelsSound,
                            StopSound
<1> QED BY <1>1, <1>2, <1>3, <1>4, UserKeeps, CallbackKeeps, ThreadKeeps DEF Next

\* So it holds in every reachable state.
LEMMA TimerInvariant == Spec => []TimerInv
<1>1. TimerInv /\ [Next]_vars => TimerInv'
  BY TimerStep
<1> QED BY <1>1, InitTimer, PTL DEF Spec

\* The table of clients is what registrations and cancels made it: a client stays in
\* it from its registration until it is cancelled or the server is stopped, although
\* passes erase by id from a table that has changed since they copied it.
THEOREM TableCorrect == Spec => []TableSound
<1>1. TimerInv => TableSound
  BY DEF TimerInv, TableSound, IdsSound, CancelsSound, Kept
<1> QED BY <1>1, TimerInvariant, PTL

\* A client that has asked not to be called again never is, and none is called once
\* stop() has returned, whichever copy of the table a pass is working on.
THEOREM CallsStop == Spec => CallsEnd
<1>1. TimerInv /\ [Next]_vars =>
        /\ [pc' = "Callback" /\ pc # "Callback" =>
              \A c \in visit : IsNext(c) => c \notin refused \cup (Once \cap calls)]_vars
        /\ [pc' = "Callback" => stopPc # "Stopped"]_vars
  <2> SUFFICES ASSUME TimerInv, Next, pc' = "Callback"
               PROVE  /\ pc # "Callback" =>
                           \A c \in visit :
                             IsNext(c) => c \notin refused \cup (Once \cap calls)
                      /\ stopPc # "Stopped"
    OBVIOUS
  <2>1. pc = "Callback" \/ VisitCall
    BY DEF Next, Tick, ThreadMain, TestDone, CopyClients, VisitSkip, Visited,
           EraseCancelled, SleepOver, CallbackReturn, start, stop, StopJoin,
           CallbackRegister, UserRegister, UserEnter, thread
  <2>2. pc # "Exited"
    BY <2>1 DEF VisitCall
  <2>3. stopPc # "Stopped"
    BY <2>2 DEF TimerInv, StopSound
  <2>4. ASSUME pc # "Callback", NEW c \in visit, IsNext(c)
        PROVE  c \notin refused \cup (Once \cap calls)
    <3>1. PICK d \in visit : IsNext(d) /\ onTimeout(d)
      BY <2>1, <2>4 DEF VisitCall
    <3>2. c \in registered /\ d \in registered /\ c \in Clients /\ d \in Clients
      BY DEF TimerInv, CopiesSound, TypeOK
    <3>3. handler[c].id \in Nat /\ handler[d].id \in Nat
      BY <3>2 DEF TimerInv, TypeOK, Handler
    <3>4. handler[c].id = handler[d].id
      BY <2>4, <3>1, <3>3 DEF IsNext
    <3>5. c = d
      BY <2>3, <3>2, <3>4 DEF TimerInv, IdsSound
    <3> QED BY <3>1, <3>5 DEF onTimeout, TimerInv, CancelsSound
  <2> QED BY <2>3, <2>4
<1> QED BY <1>1, TimerInvariant, PTL DEF Spec, CallsEnd, NotAfterCancel, NotAfterStop
================================================================================
