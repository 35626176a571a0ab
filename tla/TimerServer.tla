------------------------------ MODULE TimerServer ------------------------------
(***************************************************************************)
(* tw::common::TimerServer: one thread that calls the registered clients   *)
(* when their time has come.                                               *)
(*                                                                         *)
(* Two locks meet here.  The server's own _lock guards the table of        *)
(* clients and is held by stop() while it joins the thread.  A client is   *)
(* called through ConsumerProxy under the lock of StrategyContainer, and   *)
(* clients register from code that holds that lock, in a callback of the   *)
(* timer or in a thread that delivers a quote or an order response.        *)
(***************************************************************************)
EXTENDS Integers

CONSTANTS
  Clients,     \* registrations; a client that registers again is another one
  Period,      \* milliseconds a client asks for
  Once,        \* clients that ask for a single call
  Users,       \* threads that register clients under the container's lock
  Stops,       \* TRUE when the server may be stopped
  MaxTime      \* bound: the clock

ASSUME TimerAssumption ==
  /\ Period \in [Clients -> Nat]
  /\ Once \subseteq Clients
  /\ Stops \in BOOLEAN
  /\ MaxTime \in Nat

VARIABLES
  now,          \* the clock
  table,        \* the clients in _clients, a map keyed by their ids
  handler,      \* each client's TimerClientHandler
  lastId,       \* _lastId
  pc,           \* ThreadMain
  timestamp,    \* the time this pass of ThreadMain began
  clients,      \* the copy of the table this pass works on
  visit,        \* what is left of it
  anyCancelled, \* a client of this pass is to be erased
  done,         \* _done
  lock,         \* who holds the server's _lock across steps
  container,    \* who holds the container's lock
  user,         \* the client each thread is about to register
  stopPc,       \* the thread that calls start() and stop()
  registered,   \* history: clients that have registered
  calls,        \* history: clients that have been called
  refused       \* history: clients that returned false

thread == <<pc, timestamp, clients, visit, anyCancelled>>
locks == <<lock, container>>
history == <<registered, calls, refused>>
server == <<table, handler, lastId>>
vars == <<now, server, thread, done, locks, user, stopPc, history>>

\* Nobody holds the lock; no client.
None == "None"

\* The timer's thread and the thread in stop(), as holders of a lock.
Timer == "Timer"
Stopper == "Stopper"

\* A lock's holder is told from every other, and a client from none.
ASSUME HoldersAssumption ==
  None \notin Users /\ Timer \notin Users /\ Stopper \notin Users /\ None \notin Clients

Handler == [id : Nat, cancelled : BOOLEAN, timestamp : 0 .. MaxTime]

Init ==
  /\ now = 0
  /\ table = {} /\ lastId = 0
  /\ handler = [c \in Clients |-> [id |-> 0, cancelled |-> FALSE, timestamp |-> 0]]
  /\ pc = "Off" /\ timestamp = 0 /\ clients = {} /\ visit = {}
  /\ anyCancelled = FALSE /\ done = FALSE
  /\ lock = None /\ container = None
  /\ user = [u \in Users |-> None]
  /\ stopPc = "Created"
  /\ registered = {} /\ calls = {} /\ refused = {}

\* The bound leaves time for the clients that are about to be registered.
Tick ==
  /\ now < MaxTime
  /\ \A u \in Users : user[u] # None => now + Period[user[u]] < MaxTime
  /\ now' = now + 1
  /\ UNCHANGED <<server, thread, done, locks, user, stopPc, history>>

--------------------------------------------------------------------------------
(***************************************************************************)
(* registerClient, by a thread that holds the container's lock             *)
(***************************************************************************)

registerClient(c) ==
  /\ lock = None
  /\ lastId' = lastId + 1
  /\ table' = table \cup {c}
  /\ handler' = [handler EXCEPT ![c].id = lastId + 1, ![c].timestamp = now]
  /\ registered' = registered \cup {c}

\* Only what can still come due within the bound of the clock is registered.
CanRegister(c) ==
  /\ c \notin registered /\ now + Period[c] <= MaxTime
  /\ \A u \in Users : user[u] # c

UserEnter(u, c) ==
  /\ container = None /\ user[u] = None /\ CanRegister(c)
  /\ container' = u
  /\ user' = [user EXCEPT ![u] = c]
  /\ UNCHANGED <<now, server, thread, done, lock, stopPc, history>>

UserRegister(u) ==
  /\ container = u
  /\ registerClient(user[u])
  /\ container' = None
  /\ user' = [user EXCEPT ![u] = None]
  /\ UNCHANGED <<now, thread, done, lock, stopPc, calls, refused>>

\* The same inside the callback of another client.
CallbackRegister(c) ==
  /\ pc = "Callback" /\ CanRegister(c)
  /\ registerClient(c)
  /\ UNCHANGED <<now, thread, done, locks, user, stopPc, calls, refused>>

--------------------------------------------------------------------------------
(***************************************************************************)
(* ThreadMain                                                              *)
(***************************************************************************)

TestDone ==
  /\ pc = "Test"
  /\ IF done THEN pc' = "Exited" /\ UNCHANGED timestamp
             ELSE pc' = "Copy" /\ timestamp' = now
  /\ UNCHANGED <<now, server, clients, visit, anyCancelled, done, locks, user,
                 stopPc, history>>

CopyClients ==
  /\ pc = "Copy" /\ lock = None
  /\ clients' = table /\ visit' = table
  /\ pc' = "Visit"
  /\ UNCHANGED <<now, server, timestamp, anyCancelled, done, locks, user, stopPc,
                 history>>

\* The difference of the two times is read as unsigned: a client that registered
\* after the pass began counts as overdue.
Due(c) ==
  LET delta == timestamp - handler[c].timestamp IN delta < 0 \/ delta >= Period[c]

\* TimerClientHandler::onTimeout up to its call of the client.
onTimeout(c) == Due(c) /\ ~handler[c].cancelled

\* The client whose turn it is in this pass: the map is walked in the order of ids.
IsNext(c) == c \in visit /\ \A d \in visit : handler[c].id <= handler[d].id

\* The client is not called; ThreadMain notes whether it is cancelled.
VisitSkip ==
  /\ pc = "Visit"
  /\ \E c \in visit :
       /\ IsNext(c) /\ ~onTimeout(c)
       /\ anyCancelled' = (anyCancelled \/ handler[c].cancelled)
       /\ visit' = visit \ {c}
  /\ UNCHANGED <<now, server, pc, timestamp, clients, done, locks, user, stopPc,
                 history>>

\* StrategyContainer::onTimeout takes the container's lock and calls the client.
VisitCall ==
  /\ pc = "Visit" /\ \E c \in visit : IsNext(c) /\ onTimeout(c)
  /\ container = None
  /\ container' = Timer
  /\ pc' = "Callback"
  /\ UNCHANGED <<now, server, timestamp, clients, visit, anyCancelled, done, lock,
                 user, stopPc, history>>

CallbackReturn_AnswerIgnored(again) ==
  /\ pc = "Callback"
  /\ container' = None
  /\ \E c \in visit :
       /\ IsNext(c)
       /\ handler' = [handler EXCEPT ![c] =
            IF c \in Once THEN [@ EXCEPT !.cancelled = TRUE]
                          ELSE [@ EXCEPT !.timestamp = timestamp]]
       /\ anyCancelled' = (anyCancelled \/ handler'[c].cancelled)
       /\ calls' = calls \cup {c}
       /\ refused' = IF again THEN refused ELSE refused \cup {c}
       /\ visit' = visit \ {c}
  /\ pc' = "Visit"
  /\ UNCHANGED <<now, table, lastId, timestamp, clients, done, lock, user, stopPc,
                 registered>>

\* The client says whether it wants to be called again.
CallbackReturn(again) ==
  /\ pc = "Callback"
  /\ container' = None
  /\ \E c \in visit :
       /\ IsNext(c)
       /\ handler' = [handler EXCEPT ![c] =
            IF ~again \/ c \in Once THEN [@ EXCEPT !.cancelled = TRUE]
                                    ELSE [@ EXCEPT !.timestamp = timestamp]]
       /\ anyCancelled' = (anyCancelled \/ handler'[c].cancelled)
       /\ calls' = calls \cup {c}
       /\ refused' = IF again THEN refused ELSE refused \cup {c}
       /\ visit' = visit \ {c}
  /\ pc' = "Visit"
  /\ UNCHANGED <<now, table, lastId, timestamp, clients, done, lock, user, stopPc,
                 registered>>

Visited ==
  /\ pc = "Visit" /\ visit = {}
  /\ pc' = IF anyCancelled THEN "Erase" ELSE "Sleep"
  /\ UNCHANGED <<now, server, timestamp, clients, visit, anyCancelled, done, locks,
                 user, stopPc, history>>

EraseCancelled_NotRewound ==
  /\ pc = "Erase" /\ lock = None
  /\ anyCancelled' = FALSE
  /\ pc' = "Sleep"
  /\ UNCHANGED <<now, server, timestamp, clients, visit, done, locks, user, stopPc,
                 history>>

EraseCancelled_FromCopy ==
  /\ pc = "Erase" /\ lock = None
  /\ table' = {c \in clients : ~handler[c].cancelled}
  /\ anyCancelled' = FALSE
  /\ pc' = "Sleep"
  /\ UNCHANGED <<now, handler, lastId, timestamp, clients, visit, done, locks, user,
                 stopPc, history>>

\* The clients of the copy that are cancelled are erased by their ids: one that
\* registered meanwhile stays.
EraseCancelled ==
  /\ pc = "Erase" /\ lock = None
  /\ table' = {c \in table :
       \A d \in clients : handler[d].cancelled => handler[d].id # handler[c].id}
  /\ anyCancelled' = FALSE
  /\ pc' = "Sleep"
  /\ UNCHANGED <<now, handler, lastId, timestamp, clients, visit, done, locks, user,
                 stopPc, history>>

SleepOver ==
  /\ pc = "Sleep" /\ pc' = "Test"
  /\ UNCHANGED <<now, server, timestamp, clients, visit, anyCancelled, done, locks,
                 user, stopPc, history>>

ThreadMain ==
  \/ TestDone \/ CopyClients \/ VisitSkip \/ VisitCall \/ Visited \/ EraseCancelled
  \/ SleepOver
  \/ \E again \in BOOLEAN : CallbackReturn(again)

--------------------------------------------------------------------------------
(***************************************************************************)
(* start and stop                                                          *)
(***************************************************************************)

start ==
  /\ stopPc = "Created"
  /\ pc' = "Test" /\ stopPc' = "Running"
  /\ UNCHANGED <<now, server, timestamp, clients, visit, anyCancelled, done, locks,
                 user, history>>

\* StrategyContainer::stop calls it without the container's lock.
stop ==
  /\ Stops /\ stopPc = "Running" /\ lock = None
  /\ lock' = Stopper
  /\ done' = TRUE
  /\ stopPc' = "Join"
  /\ UNCHANGED <<now, server, thread, container, user, history>>

\* The join returns, and clear() forgets the clients.
StopJoin ==
  /\ stopPc = "Join" /\ pc = "Exited"
  /\ table' = {} /\ lastId' = 0 /\ done' = FALSE
  /\ lock' = None
  /\ stopPc' = "Stopped"
  /\ UNCHANGED <<now, handler, thread, container, user, history>>

Next ==
  \/ Tick \/ ThreadMain \/ start \/ stop \/ StopJoin
  \/ \E c \in Clients : CallbackRegister(c)
  \/ \E u \in Users : UserRegister(u) \/ \E c \in Clients : UserEnter(u, c)

Spec == Init /\ [][Next]_vars

--------------------------------------------------------------------------------
(***************************************************************************)
(* Properties                                                              *)
(***************************************************************************)

Holders == {None, Timer, Stopper} \cup Users

\* Every variable keeps its type.
TypeOK ==
  /\ now \in 0 .. MaxTime /\ timestamp \in 0 .. MaxTime
  /\ table \subseteq Clients /\ clients \subseteq Clients /\ visit \subseteq clients
  /\ lastId \in Nat
  /\ handler \in [Clients -> Handler]
  /\ pc \in {"Off", "Test", "Copy", "Visit", "Callback", "Erase", "Sleep", "Exited"}
  /\ anyCancelled \in BOOLEAN /\ done \in BOOLEAN
  /\ lock \in Holders /\ container \in Holders
  /\ user \in [Users -> Clients \cup {None}]
  /\ stopPc \in {"Created", "Running", "Join", "Stopped"}
  /\ registered \subseteq Clients /\ calls \subseteq registered /\ refused \subseteq calls

\* A client that asked for a single call, or that returned false ("return 'false'
\* to cancel firing timeout events"), is never called again, although a pass works
\* on a copy of the table that may be older than the answer.
NotAfterCancel ==
  [][pc' = "Callback" /\ pc # "Callback" =>
       \A c \in visit : IsNext(c) => c \notin refused \cup (Once \cap calls)]_vars

\* No client is called once stop() has returned: its owner may be gone.
NotAfterStop == [][pc' = "Callback" => stopPc # "Stopped"]_vars

\* While the server runs, a registered client stays in the table until it is
\* cancelled: the erase at the end of a pass does not take away a client that
\* registered during the pass.
Kept ==
  stopPc = "Running" =>
    \A c \in registered : handler[c].cancelled \/ c \in table

(***************************************************************************)
(* Fairness: the thread, the clock and the threads inside the container    *)
(* keep running.  No caller ever waits behind an endless queue for one of  *)
(* the two locks, so weak fairness is enough.                              *)
(***************************************************************************)
FairSpec ==
  /\ Spec
  /\ WF_vars(Tick) /\ WF_vars(ThreadMain) /\ WF_vars(start) /\ WF_vars(StopJoin)
  /\ \A u \in Users : WF_vars(UserRegister(u))

Stopping == stopPc \in {"Join", "Stopped"}

\* Every client that registers is called, unless the server is stopped first.
Served == \A c \in Clients : c \in registered ~> Stopping \/ c \in calls

\* A cancelled client leaves the table, unless the server is stopped first.
Erased == \A c \in Clients : handler[c].cancelled ~> Stopping \/ c \notin table

--------------------------------------------------------------------------------
\* No two clients in the table share an id: none is overwritten, and an erase by id
\* takes away the client it means.
IdsUnique == \A c, d \in table : handler[c].id = handler[d].id => c = d

\* The table is what its clients made it, whatever a pass erases from it.
TableSound == TypeOK /\ IdsUnique /\ Kept

\* Calls end: with the client's cancel, and with stop().
CallsEnd == NotAfterCancel /\ NotAfterStop

\* While the server runs, clients are called and cancelled ones leave the table.
ClientsServed == Served /\ Erased
================================================================================
