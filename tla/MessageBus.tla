----------------------------- MODULE MessageBus -----------------------------
(***************************************************************************)
(* The TCP message bus (common_comm): a TcpIpServer with its accept        *)
(* thread, its thread for disconnected connections and its owner, and      *)
(* TcpIpServerConnections, each with a receive and a send thread.  A       *)
(* connection is known by its socket descriptor, which the kernel hands    *)
(* out again as soon as it is closed.  The text of messages, the socket    *)
(* options and the 4K buffer are left out: a message is "H" (heartbeat) or *)
(* "M", and what a peer sends is a number of complete lines.               *)
(*                                                                         *)
(* The client of the server is told of connections, their data and their   *)
(* loss from three different threads; no lock is held while it is called,  *)
(* but a client that replies takes the lock of the server.                 *)
(***************************************************************************)
EXTENDS Naturals, Sequences, FiniteSets, FiniteSetsExt, Functions

CONSTANTS
    MaxConns,           \* connections ever accepted
    NumFds,             \* descriptors the process may have open
    MaxQueue,           \* MAX_MSG_QUEUE_SIZE
    MaxEvents           \* what peers (line, close) and owner (sendToAll, stop) do, in all

ASSUME BusAssumption ==
    /\ MaxConns \in Nat \ {0} /\ NumFds \in Nat \ {0} /\ MaxQueue \in Nat
    /\ MaxEvents \in Nat

VARIABLES
    conns,      \* the TcpIpServerConnection objects
    owner,      \* kernel: the connection a descriptor belongs to, 0 when it is free
    _connections, \* TcpIpServer::_connections, descriptor -> connection
    queue,      \* _queueDisconnectedConnections: descriptors, and whether it is stopped
    thr,        \* where the receive and send threads and the owner's thread are; the
                \* connection it has met an error of, the id it replies to
    acc,        \* the accept thread
    disc,       \* the thread for disconnected connections
    closing,    \* progress of TcpIpServerConnection::stop() in the threads that call it
    main,       \* the owner: what it does, connections still to serve
    env         \* whether the client answers from onConnectionData; events so far

vars == <<conns, owner, _connections, queue, thr, acc, disc, closing, main, env>>

Conns == 1..MaxConns
Fds == 1..NumFds
NoFd == 0                       \* the code's -1
Executors == {"disc", "acc", "main"}
Threads == ({"recv", "send"} \X Conns) \cup {<<"call", 0>>}
Caller == <<"call", 0>>

\* bound: one more event of a peer or of the owner
Event == env.events < MaxEvents /\ env' = [env EXCEPT !.events = @ + 1]

(***************************************************************************)
(* onConnectionError(): test _connected, tell the parent, clear _connected *)
(* are three steps of whichever thread met the error, with no lock.        *)
(***************************************************************************)
At(t, pc) == [thr EXCEPT ![t] = [@ EXCEPT !.pc = pc, !.id = NoFd]]

AfterError(t, c, next) ==
    IF conns[c].connected
    THEN [thr EXCEPT ![t] = [pc |-> "push", then |-> next, c |-> c, id |-> NoFd]]
    ELSE At(t, next)

PushError(t) ==
    /\ thr[t].pc = "push"
    /\ queue' = [queue EXCEPT !.ids = Append(@, conns[thr[t].c].sock)]
    /\ thr' = [thr EXCEPT ![t].pc = "clear"]
    /\ UNCHANGED <<conns, owner, _connections, acc, disc, closing, main, env>>

ClearConnected(t) ==
    /\ thr[t].pc = "clear"
    /\ conns' = [conns EXCEPT ![thr[t].c].connected = FALSE]
    /\ thr' = [thr EXCEPT ![t].pc = thr[t].then]
    /\ UNCHANGED <<owner, _connections, queue, acc, disc, closing, main, env>>

onConnectionError(t) == PushError(t) \/ ClearConnected(t)

(***************************************************************************)
(* send(): nothing for a closed connection; one that has let more than     *)
(* MAX_MSG_QUEUE_SIZE messages pile up is reported as lost.                *)
(***************************************************************************)
send(t, c, m, next) ==
    IF conns[c].sock = NoFd THEN conns' = conns /\ thr' = At(t, next)
    ELSE IF Len(conns[c].q) > MaxQueue
    THEN conns' = conns /\ thr' = AfterError(t, c, next)
    ELSE /\ conns' = [conns EXCEPT ![c].q = Append(@, m)]
         /\ thr' = At(t, next)

(***************************************************************************)
(* The threads of a connection.                                            *)
(***************************************************************************)
\* recv() fails on a bad descriptor and after a reset.  The descriptor may by
\* now belong to another connection.
KernelOwner(c) == IF conns[c].sock = NoFd THEN 0 ELSE owner[conns[c].sock]

threadMainRecv(c) ==
    LET t == <<"recv", c>>  o == KernelOwner(c)
    IN /\ thr[t].pc = "loop"
       /\ \/ /\ conns[c].sock = NoFd                    \* isValid() at the loop's head
             /\ thr' = [thr EXCEPT ![t].pc = "dead"] /\ conns' = conns
          \/ /\ o = 0 \/ (o # 0 /\ conns[o].data = 0 /\ conns[o].peer = "reset")
             /\ thr' = AfterError(t, c, "dead") /\ conns' = conns
          \/ /\ o # 0 /\ conns[o].data > 0
             /\ conns' = [conns EXCEPT ![o].data = @ - 1]
             /\ thr' = [thr EXCEPT ![t].pc = "cb"]
       /\ UNCHANGED <<owner, _connections, queue, acc, disc, closing, main, env>>

\* It returns 0 when the peer has closed: errno is then whatever an earlier call
\* left there, and the thread may go round for ever on a stale EAGAIN.
recvClosed(c) ==
    LET t == <<"recv", c>>  o == KernelOwner(c)
    IN /\ thr[t].pc = "loop" /\ o # 0 /\ conns[o].data = 0 /\ conns[o].peer = "closed"
       /\ thr' = AfterError(t, c, "dead")
       /\ UNCHANGED <<conns, owner, _connections, queue, acc, disc, closing, main, env>>

\* Every heartbeat interval the receive thread queues a heartbeat.  The test
\* for an idle connection compares a 16-bit counter with 5000000, so it never
\* ends the thread.
\* MUTANT: the heartbeat is only sent when something was received.
onTimeout_OnlyIfHeard(c) ==
    /\ thr[<<"recv", c>>].pc = "loop" /\ conns[c].sock # NoFd /\ conns[c].data > 0
    /\ \A i \in DOMAIN conns[c].q : conns[c].q[i] # "H"
    /\ send(<<"recv", c>>, c, "H", "loop")
    /\ UNCHANGED <<owner, _connections, queue, acc, disc, closing, main, env>>

onTimeout(c) ==
    /\ thr[<<"recv", c>>].pc = "loop" /\ conns[c].sock # NoFd
    /\ \/ Len(conns[c].q) > MaxQueue
       \/ \A i \in DOMAIN conns[c].q : conns[c].q[i] # "H"      \* bound: one heartbeat queued
    /\ send(<<"recv", c>>, c, "H", "loop")
    /\ UNCHANGED <<owner, _connections, queue, acc, disc, closing, main, env>>

\* The lock of the server: its clear() holds it while it destroys connections, and has
\* set _client to NULL.
Locked == main.pc = "clear"

\* process() and onData(): the client is called, if there still is one.
process(c) ==
    LET t == <<"recv", c>>
    IN /\ thr[t].pc = "cb"
       /\ thr' = IF env.replies /\ ~Locked
                 THEN [thr EXCEPT ![t] = [@ EXCEPT !.pc = "reply", !.id = conns[c].sock]]
                 ELSE [thr EXCEPT ![t].pc = "loop"]
       /\ UNCHANGED <<conns, owner, _connections, queue, acc, disc, closing, main, env>>

\* A client that replies does it with sendToConnection(id), which needs the lock and may
\* find another connection.
sendToConnection(c) ==
    LET t == <<"recv", c>>  id == thr[t].id
    IN /\ thr[t].pc = "reply" /\ ~Locked
       /\ IF id \in DOMAIN _connections
          THEN send(t, _connections[id], "M", "loop")
          ELSE thr' = At(t, "loop") /\ conns' = conns
       /\ UNCHANGED <<owner, _connections, queue, acc, disc, closing, main, env>>

\* A first message after the peer closed is accepted and answered by a reset.
doSend(c) ==
    LET o == KernelOwner(c)
    IN [ok |-> o # 0 /\ conns[o].peer # "reset",
        conns |-> LET popped == [conns EXCEPT ![c].q = Tail(@)]
                  IN IF o # 0 /\ conns[o].peer = "closed"
                     THEN [popped EXCEPT ![o].peer = "reset"] ELSE popped]

threadMainSend(c) ==
    LET t == <<"send", c>>
    IN /\ thr[t].pc = "loop"
       /\ IF conns[c].qstop THEN thr' = [thr EXCEPT ![t].pc = "dead"] /\ conns' = conns
          ELSE /\ conns[c].q # <<>>
               /\ conns' = doSend(c).conns
               /\ thr' = IF doSend(c).ok THEN thr ELSE AfterError(t, c, "dead")
       /\ UNCHANGED <<owner, _connections, queue, acc, disc, closing, main, env>>

(***************************************************************************)
(* TcpIpServerConnection::stop(), in the thread that drops the connection. *)
(***************************************************************************)
CloseSocket(e) ==
    LET c == closing[e].c
    IN /\ closing[e].pc = "close"
       /\ IF conns[c].sock = NoFd
          THEN closing' = [closing EXCEPT ![e].pc = "none"] /\ UNCHANGED <<conns, owner>>
          ELSE /\ owner' = [owner EXCEPT ![conns[c].sock] = 0]
               /\ conns' = [conns EXCEPT ![c].peer = "none", ![c].data = 0]
               /\ closing' = [closing EXCEPT ![e].pc = "unset"]
       /\ UNCHANGED <<_connections, queue, thr, acc, disc, main, env>>

UnsetSocket(e) ==
    /\ closing[e].pc = "unset"
    /\ conns' = [conns EXCEPT ![closing[e].c].sock = NoFd]
    /\ closing' = [closing EXCEPT ![e].pc = "recv"]
    /\ UNCHANGED <<owner, _connections, queue, thr, acc, disc, main, env>>

\* MUTANT: the send queue is not stopped before the send thread is joined.
JoinRecv_QueueOpen(e) ==
    /\ closing[e].pc = "recv" /\ thr[<<"recv", closing[e].c>>].pc = "dead"
    /\ closing' = [closing EXCEPT ![e].pc = "send"]
    /\ UNCHANGED <<conns, owner, _connections, queue, thr, acc, disc, main, env>>

JoinRecv(e) ==
    /\ closing[e].pc = "recv" /\ thr[<<"recv", closing[e].c>>].pc = "dead"
    /\ conns' = [conns EXCEPT ![closing[e].c].qstop = TRUE]
    /\ closing' = [closing EXCEPT ![e].pc = "send"]
    /\ UNCHANGED <<owner, _connections, queue, thr, acc, disc, main, env>>

JoinSend(e) ==
    /\ closing[e].pc = "send" /\ thr[<<"send", closing[e].c>>].pc = "dead"
    /\ conns' = [conns EXCEPT ![closing[e].c].q = <<>>]
    /\ closing' = [closing EXCEPT ![e].pc = "none"]
    /\ UNCHANGED <<owner, _connections, queue, thr, acc, disc, main, env>>

ConnectionStop(e) == CloseSocket(e) \/ UnsetSocket(e) \/ JoinRecv(e) \/ JoinSend(e)

(***************************************************************************)
(* The accept thread.  accept() starts the connection's threads; only then *)
(* is it put into the map, and the client told of it.                      *)
(***************************************************************************)
FreeFds == {f \in Fds : owner[f] = 0}

accept ==
    LET c == acc.c + 1  fd == Min(FreeFds)
    IN /\ acc.pc = "accept" /\ c \in Conns /\ FreeFds # {} /\ ~main.isDone
       /\ owner' = [owner EXCEPT ![fd] = c]
       /\ conns' = [conns EXCEPT ![c].sock = fd, ![c].connected = TRUE, ![c].peer = "open"]
       /\ thr' = [t \in Threads |-> IF t # Caller /\ t[2] = c THEN [pc |-> "loop", then |-> "dead", c |-> c, id |-> NoFd]
                                    ELSE thr[t]]
       /\ acc' = [pc |-> "insert", c |-> c]
       /\ UNCHANGED <<_connections, queue, disc, closing, main, env>>

\* A connection accepted while stop() was called is dropped, which stops it.
runInsert ==
    /\ acc.pc = "insert"
    /\ IF main.isDone
       THEN /\ closing' = [closing EXCEPT !["acc"] = [pc |-> "close", c |-> acc.c]]
            /\ acc' = [acc EXCEPT !.pc = "accept"]
            /\ UNCHANGED _connections
       ELSE /\ _connections' = [f \in DOMAIN _connections \cup {conns[acc.c].sock} |->
                                   IF f = conns[acc.c].sock THEN acc.c ELSE _connections[f]]
            /\ acc' = [acc EXCEPT !.pc = "up"] /\ UNCHANGED closing
    /\ UNCHANGED <<conns, owner, queue, thr, disc, main, env>>

runUp ==
    /\ acc.pc = "up" /\ acc' = [acc EXCEPT !.pc = "accept"]
    /\ UNCHANGED <<conns, owner, _connections, queue, thr, disc, closing, main, env>>

\* accept() times out every two seconds, and the loop then sees _isDone.
runDone ==
    /\ acc.pc = "accept" /\ main.isDone /\ closing["acc"].pc = "none"
    /\ acc' = [acc EXCEPT !.pc = "dead"]
    /\ UNCHANGED <<conns, owner, _connections, queue, thr, disc, closing, main, env>>

run == accept \/ runInsert \/ runUp \/ runDone

(***************************************************************************)
(* The thread for disconnected connections: tell the client, erase the     *)
(* entry under the lock, then stop the connection.                         *)
(***************************************************************************)
discRead ==
    /\ disc.pc \in {"top", "more"} /\ closing["disc"].pc = "none"
    /\ \/ /\ queue.ids # <<>> /\ (disc.pc = "top" => ~queue.stopped)
          /\ disc' = [pc |-> IF Head(queue.ids) = NoFd THEN "more" ELSE "down", id |-> Head(queue.ids)]
          /\ queue' = [queue EXCEPT !.ids = Tail(@)]
       \/ /\ disc.pc = "more" /\ queue.ids = <<>> /\ queue' = queue
          /\ disc' = [disc EXCEPT !.pc = "top"]
       \/ /\ disc.pc = "top" /\ queue.stopped /\ queue' = queue
          /\ disc' = [disc EXCEPT !.pc = "dead"]
    /\ UNCHANGED <<conns, owner, _connections, thr, acc, closing, main, env>>

discDown ==
    /\ disc.pc = "down" /\ disc' = [disc EXCEPT !.pc = "remove"]
    /\ UNCHANGED <<conns, owner, _connections, queue, thr, acc, closing, main, env>>

\* MUTANT: the connection is stopped before its entry is erased.
removeConnection_StopFirst ==
    /\ disc.pc = "remove" /\ closing["disc"].pc \in {"none", "recv", "send"}
    /\ IF disc.id \in DOMAIN _connections /\ closing["disc"].pc = "none"
       THEN /\ closing' = [closing EXCEPT !["disc"] = [pc |-> "close", c |-> _connections[disc.id]]]
            /\ UNCHANGED <<disc, _connections>>
       ELSE /\ _connections' = [f \in DOMAIN _connections \ {disc.id} |-> _connections[f]]
            /\ disc' = [disc EXCEPT !.pc = "more"] /\ UNCHANGED closing
    /\ UNCHANGED <<conns, owner, queue, thr, acc, main, env>>

removeConnection ==
    /\ disc.pc = "remove"
    /\ disc' = [disc EXCEPT !.pc = "more"]
    /\ IF disc.id \in DOMAIN _connections
       THEN /\ _connections' = [f \in DOMAIN _connections \ {disc.id} |-> _connections[f]]
            /\ closing' = [closing EXCEPT !["disc"] = [pc |-> "close", c |-> _connections[disc.id]]]
       ELSE UNCHANGED <<_connections, closing>>
    /\ UNCHANGED <<conns, owner, queue, thr, acc, main, env>>

doOnConnectionError == discDown \/ removeConnection

(***************************************************************************)
(* The owner's thread: sendToAll() serves a copy of the map; stop() ends   *)
(* the threads of the server in turn and destroys what is left.            *)
(***************************************************************************)
sendToAll ==
    \/ /\ main.pc = "idle" /\ ~main.isDone /\ _connections # <<>> /\ Event
       /\ main' = [main EXCEPT !.pc = "all", !.todo = Range(_connections)]
       /\ UNCHANGED <<conns, owner, _connections, queue, thr, acc, disc, closing>>
    \/ /\ main.pc = "all" /\ thr[Caller].pc = "loop"
       /\ IF main.todo = {} THEN main' = [main EXCEPT !.pc = "idle"] /\ UNCHANGED <<conns, thr>>
          ELSE \E c \in main.todo :
                 /\ send(Caller, c, "M", "loop")
                 /\ main' = [main EXCEPT !.todo = @ \ {c}]
       /\ UNCHANGED <<owner, _connections, queue, acc, disc, closing, env>>

stopBegin ==
    /\ main.pc = "idle" /\ ~main.isDone /\ Event
    /\ main' = [main EXCEPT !.pc = "joinAcc", !.isDone = TRUE]
    /\ UNCHANGED <<conns, owner, _connections, queue, thr, acc, disc, closing>>

stopJoinAccept ==
    /\ main.pc = "joinAcc" /\ acc.pc = "dead"
    /\ main' = [main EXCEPT !.pc = "joinDisc"]
    /\ queue' = [queue EXCEPT !.stopped = TRUE]
    /\ UNCHANGED <<conns, owner, _connections, thr, acc, disc, closing, env>>

stopJoinDisconnected ==
    /\ main.pc = "joinDisc" /\ disc.pc = "dead"
    /\ queue' = [queue EXCEPT !.ids = <<>>]
    /\ main' = [main EXCEPT !.pc = "clear", !.todo = Range(_connections)]
    /\ _connections' = <<>>
    /\ UNCHANGED <<conns, owner, thr, acc, disc, closing, env>>

\* clear() under the lock: destroying a connection stops it.
stopClear ==
    /\ main.pc = "clear" /\ closing["main"].pc = "none"
    /\ IF main.todo = {} THEN main' = [main EXCEPT !.pc = "idle"] /\ UNCHANGED closing
       ELSE \E c \in main.todo :
              /\ closing' = [closing EXCEPT !["main"] = [pc |-> "close", c |-> c]]
              /\ main' = [main EXCEPT !.todo = @ \ {c}]
    /\ UNCHANGED <<conns, owner, _connections, queue, thr, acc, disc, env>>

stop == stopBegin \/ stopJoinAccept \/ stopJoinDisconnected \/ stopClear

(***************************************************************************)
(* The peers.                                                              *)
(***************************************************************************)
PeerSends(c) ==
    /\ conns[c].peer = "open" /\ Event
    /\ conns' = [conns EXCEPT ![c].data = @ + 1]
    /\ UNCHANGED <<owner, _connections, queue, thr, acc, disc, closing, main>>

PeerCloses(c) ==
    /\ conns[c].peer = "open" /\ Event
    /\ conns' = [conns EXCEPT ![c].peer = "closed"]
    /\ UNCHANGED <<owner, _connections, queue, thr, acc, disc, closing, main>>

Init ==
    /\ conns = [c \in Conns |-> [sock |-> NoFd, connected |-> FALSE, peer |-> "none",
                                 data |-> 0, q |-> <<>>, qstop |-> FALSE]]
    /\ owner = [f \in Fds |-> 0]
    /\ _connections = <<>>
    /\ queue = [ids |-> <<>>, stopped |-> FALSE]
    /\ thr = [t \in Threads |-> [pc |-> IF t = Caller THEN "loop" ELSE "off", then |-> "loop",
                             c |-> 0, id |-> NoFd]]
    /\ acc = [pc |-> "accept", c |-> 0]
    /\ disc = [pc |-> "top", id |-> NoFd]
    /\ closing = [e \in Executors |-> [pc |-> "none", c |-> 0]]
    /\ main = [pc |-> "idle", todo |-> {}, isDone |-> FALSE]
    /\ env \in [replies: BOOLEAN, events: {0}]

Next ==
    \/ \E t \in Threads : onConnectionError(t)
    \/ \E c \in Conns : threadMainRecv(c) \/ recvClosed(c) \/ onTimeout(c) \/ threadMainSend(c)
    \/ \E c \in Conns : process(c) \/ sendToConnection(c)
    \/ \E e \in Executors : ConnectionStop(e)
    \/ run \/ discRead \/ doOnConnectionError \/ sendToAll \/ stop
    \/ \E c \in Conns : PeerSends(c) \/ PeerCloses(c)

\* Every thread of the server keeps running, and heartbeats keep coming; the
\* peers, the accepting of a connection and the calls of the owner are not owed.
Fairness ==
    /\ \A c \in Conns : /\ WF_vars(\/ threadMainRecv(c) \/ process(c) \/ sendToConnection(c)
                                   \/ onConnectionError(<<"recv", c>>))
                        /\ WF_vars(onTimeout(c))
                        /\ WF_vars(threadMainSend(c) \/ onConnectionError(<<"send", c>>))
    /\ WF_vars(runInsert \/ runUp \/ runDone \/ ConnectionStop("acc"))
    /\ WF_vars(discRead \/ doOnConnectionError \/ ConnectionStop("disc"))
    /\ WF_vars(main.pc # "idle" /\ (sendToAll \/ stop \/ ConnectionStop("main") \/ onConnectionError(Caller)))

Spec == Init /\ [][Next]_vars
FairSpec == Spec /\ Fairness

(***************************************************************************)
(* Properties.                                                             *)
(***************************************************************************)

\* A descriptor in the server's map belongs, in the kernel as well, to the
\* connection the map gives for it: whatever is sent to an id goes to the
\* connection that was announced under it.  This rests on removeConnection()
\* erasing the entry before it closes the descriptor, which accept() may hand
\* out again at once.
MapValid ==
    \A f \in DOMAIN _connections :
        owner[f] = _connections[f] /\ conns[_connections[f]].sock = f

\* The one way in which stop() may hang: a client replies from onConnectionData, and its
\* thread waits in sendToConnection() for the lock that clear() keeps while it joins that
\* thread (tcp_ip_server.cpp:25, :144).
ReplyStopsStop == Locked /\ \E c \in Conns : thr[<<"recv", c>>].pc = "reply"

\* Once the server knows a connection, its peer's going away is noticed by some
\* thread and ends in its being closed, unless a reply stops stop().
\* (Left out, because the code does not do it: a connection whose error was
\* handled before the accept thread had put it into the map.)
Reaped ==
    \A c \in Conns :
        ( /\ c \in Range(_connections) /\ conns[c].connected /\ conns[c].peer \in {"closed", "reset"}
          /\ \A t \in Threads : ~(thr[t].c = c /\ thr[t].pc = "clear") )
        ~> (conns[c].sock = NoFd \/ ReplyStopsStop)

\* stop() returns, with no connection open: every thread it joins ends, those of a client
\* that replies too, unless one of them has called the client before clear() took the
\* lock and gets to sendToConnection() after it.
StopReturns ==
    main.isDone ~> ((main.pc = "idle" /\ \A f \in Fds : owner[f] = 0) \/ ReplyStopsStop)
=============================================================================
