--------------------------- MODULE MessageBusProofs ----------------------------
(***************************************************************************)
(* Proofs about the TCP message bus, for any number of connections,        *)
(* descriptors and events: an entry of the server's map always names the   *)
(* connection the descriptor belongs to, and the thread that drops a       *)
(* connection closes no descriptor but that connection's own.              *)
(***************************************************************************)
EXTENDS MessageBus, WellFoundedInduction, TLAPS

\* A TcpIpServerConnection, and where a thread of one is.
Connection ==
  [sock : Fds \cup {NoFd}, connected : BOOLEAN, peer : {"none", "open", "closed", "reset"},
   data : Nat, q : Seq({"H", "M"}), qstop : BOOLEAN]

Thread ==
  [pc : {"off", "loop", "cb", "reply", "push", "clear", "dead"}, then : {"loop", "dead"},
   c : Conns \cup {0}, id : Fds \cup {NoFd}]

\* The connections handed out so far, and the sockets they hold.
SocketTypes ==
  /\ conns \in [Conns -> Connection]
  /\ owner \in [Fds -> Conns \cup {0}]

\* The server's map and the threads that add to it and take from it.
ServerTypes ==
  /\ _connections \in [DOMAIN _connections -> Conns] /\ DOMAIN _connections \subseteq Fds
  /\ closing \in [Executors -> [pc : {"none", "close", "unset", "recv", "send"},
                                c : Conns \cup {0}]]
  /\ \A e \in Executors : closing[e].pc # "none" => closing[e].c \in Conns
  /\ acc \in [pc : {"accept", "insert", "up", "dead"}, c : Conns \cup {0}]
  /\ acc.pc = "insert" => acc.c \in Conns
  /\ main \in [pc : {"idle", "all", "joinAcc", "joinDisc", "clear"}, todo : SUBSET Conns,
               isDone : BOOLEAN]
  /\ disc \in [pc : {"top", "more", "down", "remove", "dead"}, id : Fds \cup {NoFd}]
  /\ queue \in [ids : Seq(Fds \cup {NoFd}), stopped : BOOLEAN]

\* The threads of the connections and the caller of sendToAll().
ThreadTypes ==
  /\ thr \in [Threads -> Thread]
  /\ \A t \in Threads : thr[t].pc \in {"push", "clear"} => thr[t].c \in Conns

\* The thread e is dropping the connection c.
Drops(e, c) == closing[e].pc # "none" /\ closing[e].c = c

\* stop() is destroying what was left in the map, c among it.
Left(c) == main.pc = "clear" /\ c \in main.todo

\* A descriptor belongs to the connection that has it as its socket; a connection has
\* a socket that is no longer its own only between close() and the assignment after it.
SocketsSound ==
  /\ \A f \in Fds : owner[f] # 0 => conns[owner[f]].sock = f
  /\ \A c \in Conns : \/ conns[c].sock = NoFd
                      \/ owner[conns[c].sock] = c
                      \/ \E e \in Executors : closing[e].pc = "unset" /\ closing[e].c = c
  /\ \A e \in Executors : closing[e].pc = "unset" => \A f \in Fds : owner[f] # closing[e].c

\* Connections that were not accepted yet are nowhere.
FreshSound ==
  \A c \in Conns : c > acc.c =>
    /\ conns[c].sock = NoFd
    /\ \A f \in DOMAIN _connections : _connections[f] # c
    /\ \A e \in Executors : ~Drops(e, c)
    /\ ~Left(c)

\* A connection is in the hands of one thread only: in the map, about to be put
\* there, being dropped, or left to clear().
OneHolder ==
  /\ \A f \in DOMAIN _connections :
       /\ \A e \in Executors : ~Drops(e, _connections[f])
       /\ acc.pc = "insert" => _connections[f] # acc.c
  /\ \A e \in Executors : acc.pc = "insert" => ~Drops(e, acc.c)
  /\ \A e, d \in Executors : e # d /\ closing[e].pc # "none" => ~Drops(d, closing[e].c)
  /\ \A c \in Conns : Left(c) => /\ \A e \in Executors : ~Drops(e, c)
                                 /\ acc.pc = "insert" => c # acc.c
  /\ main.pc = "clear" => _connections = <<>>

\* A thread takes the next connection to drop only when it is done with the last.
ThreadsSound ==
  /\ closing["acc"].pc # "none" => acc.pc \in {"accept", "dead"} /\ main.isDone
  /\ disc.pc \in {"down", "remove"} => closing["disc"].pc = "none"
  /\ main.pc \in {"joinAcc", "joinDisc", "clear"} => main.isDone
  /\ acc.pc = "insert" => conns[acc.c].sock # NoFd

BusInv ==
  /\ SocketTypes /\ ServerTypes /\ ThreadTypes
  /\ MapValid /\ SocketsSound /\ FreshSound /\ OneHolder /\ ThreadsSound

--------------------------------------------------------------------------------
(***************************************************************************)
(* What the helpers of the model do to the types.                          *)
(***************************************************************************)

\* The sockets of all connections are what they were.
SocketsKept == \A c \in Conns : conns'[c].sock = conns[c].sock

\* A field of a connection changes.
LEMMA ConnectionField ==
  ASSUME NEW x \in Connection
  PROVE  /\ \A s \in Seq({"H", "M"}) : /\ [x EXCEPT !.q = s] \in Connection
                                       /\ [x EXCEPT !.q = s].sock = x.sock
         /\ \A n \in Nat : /\ [x EXCEPT !.data = n] \in Connection
                           /\ [x EXCEPT !.data = n].sock = x.sock
         /\ \A s \in {"none", "open", "closed", "reset"} :
              /\ [x EXCEPT !.peer = s] \in Connection
              /\ [x EXCEPT !.peer = s].sock = x.sock
         /\ [x EXCEPT !.connected = FALSE] \in Connection
         /\ [x EXCEPT !.connected = FALSE].sock = x.sock
         /\ [x EXCEPT !.qstop = TRUE] \in Connection
         /\ [x EXCEPT !.qstop = TRUE].sock = x.sock
         /\ [x EXCEPT !.sock = NoFd] \in Connection
         /\ [x EXCEPT !.sock = NoFd].sock = NoFd
BY DEF Connection

\* One connection changes, but not its socket.
LEMMA OneConnection ==
  ASSUME SocketTypes, owner' = owner, NEW c \in Conns, NEW r \in Connection,
         r.sock = conns[c].sock, conns' = [conns EXCEPT ![c] = r]
  PROVE  SocketTypes' /\ SocketsKept
BY DEF SocketTypes, SocketsKept

\* No connection changes.
LEMMA NoConnection ==
  ASSUME SocketTypes, owner' = owner, conns' = conns
  PROVE  SocketTypes' /\ SocketsKept
BY DEF SocketTypes, SocketsKept

\* One thread moves on.
LEMMA OneThread ==
  ASSUME ThreadTypes, NEW t \in Threads, NEW r \in Thread,
         r.pc \in {"push", "clear"} => r.c \in Conns, thr' = [thr EXCEPT ![t] = r]
  PROVE  ThreadTypes'
BY DEF ThreadTypes

\* A thread of a connection goes on without an error to report.
LEMMA ThreadMoved ==
  ASSUME ThreadTypes, NEW t \in Threads, NEW s \in {"loop", "cb", "dead"},
         thr' = [thr EXCEPT ![t].pc = s] \/ thr' = At(t, s)
  PROVE  ThreadTypes'
<1>1. thr[t] \in Thread
  BY DEF ThreadTypes
<1>2. CASE thr' = [thr EXCEPT ![t].pc = s]
  <2> DEFINE r == [thr[t] EXCEPT !.pc = s]
  <2>1. r \in Thread /\ r.pc = s
    BY <1>1 DEF Thread
  <2>2. thr' = [thr EXCEPT ![t] = r]
    BY <1>2
  <2> HIDE DEF r
  <2> QED BY <2>1, <2>2, OneThread
<1>3. CASE thr' = At(t, s)
  <2> DEFINE r == [thr[t] EXCEPT !.pc = s, !.id = NoFd]
  <2>1. r \in Thread /\ r.pc = s
    BY <1>1 DEF Thread
  <2>2. thr' = [thr EXCEPT ![t] = r]
    BY <1>3 DEF At
  <2> HIDE DEF r
  <2> QED BY <2>1, <2>2, OneThread
<1> QED BY <1>2, <1>3

\* A thread that met an error goes on to report it, or to what it does next.
LEMMA AfterErrorTyped ==
  ASSUME SocketTypes, ThreadTypes, NEW t \in Threads, NEW c \in Conns,
         NEW next \in {"loop", "dead"}, thr' = AfterError(t, c, next)
  PROVE  ThreadTypes'
<1> DEFINE r == [pc |-> "push", then |-> next, c |-> c, id |-> NoFd]
<1>1. r \in Thread /\ r.c \in Conns
  BY DEF Thread
<1>2. thr' = [thr EXCEPT ![t] = r] \/ thr' = At(t, next)
  BY DEF AfterError
<1> HIDE DEF r
<1> QED BY <1>1, <1>2, OneThread, ThreadMoved

\* send() queues a message or reports the connection as lost.
LEMMA SendTyped ==
  ASSUME SocketTypes, ThreadTypes, NEW t \in Threads, NEW c \in Conns,
         NEW m \in {"H", "M"}, NEW next \in {"loop", "dead"},
         send(t, c, m, next), owner' = owner
  PROVE  SocketTypes' /\ ThreadTypes' /\ SocketsKept
<1>1. thr' = AfterError(t, c, next) \/ thr' = At(t, next)
  BY DEF send
<1>2. ThreadTypes'
  BY <1>1, AfterErrorTyped, ThreadMoved
<1> DEFINE r == [conns[c] EXCEPT !.q = Append(@, m)]
<1>3. r \in Connection /\ r.sock = conns[c].sock
  <2>1. conns[c] \in Connection
    BY DEF SocketTypes
  <2>2. Append(conns[c].q, m) \in Seq({"H", "M"})
    BY <2>1 DEF Connection
  <2> QED BY <2>1, <2>2, ConnectionField
<1>4. conns' = conns \/ conns' = [conns EXCEPT ![c] = r]
  BY DEF send
<1> HIDE DEF r
<1>5. SocketTypes' /\ SocketsKept
  BY <1>3, <1>4, OneConnection, NoConnection
<1> QED BY <1>2, <1>5

\* doSend() takes a message from the queue and tells the peer.
LEMMA DoSendTyped ==
  ASSUME SocketTypes, NEW c \in Conns, conns[c].q # <<>>, conns' = doSend(c).conns,
         owner' = owner
  PROVE  SocketTypes' /\ SocketsKept
<1> DEFINE popped == [conns EXCEPT ![c].q = Tail(@)]
           o == KernelOwner(c)
<1>1. o \in Conns \cup {0}
  BY DEF KernelOwner, SocketTypes, NoFd, Connection
<1>2. conns' = popped \/ (o # 0 /\ conns' = [popped EXCEPT ![o].peer = "reset"])
  BY DEF doSend
<1>3. popped \in [Conns -> Connection] /\ \A d \in Conns : popped[d].sock = conns[d].sock
  <2> DEFINE r == [conns[c] EXCEPT !.q = Tail(@)]
  <2>1. r \in Connection /\ r.sock = conns[c].sock
    <3>1. conns[c] \in Connection
      BY DEF SocketTypes
    <3>2. Tail(conns[c].q) \in Seq({"H", "M"})
      BY <3>1 DEF Connection
    <3> QED BY <3>1, <3>2, ConnectionField
  <2>2. popped = [conns EXCEPT ![c] = r]
    OBVIOUS
  <2> HIDE DEF r, popped
  <2> QED BY <2>1, <2>2 DEF SocketTypes
<1> HIDE DEF popped, o
<1>4. CASE conns' = popped
  BY <1>3, <1>4 DEF SocketTypes, SocketsKept
<1>5. CASE o # 0 /\ conns' = [popped EXCEPT ![o].peer = "reset"]
  <2> DEFINE r == [popped[o] EXCEPT !.peer = "reset"]
  <2>1. o \in Conns /\ popped[o] \in Connection
    BY <1>1, <1>3, <1>5
  <2>2. r \in Connection /\ r.sock = popped[o].sock
    BY <2>1 DEF Connection
  <2>3. conns' = [popped EXCEPT ![o] = r]
    BY <1>5
  <2> HIDE DEF r
  <2> QED BY <1>3, <2>1, <2>2, <2>3 DEF SocketTypes, SocketsKept
<1> QED BY <1>2, <1>4, <1>5

\* accept() is given a free descriptor.
LEMMA FreeFd == ASSUME FreeFds # {}, SocketTypes PROVE Min(FreeFds) \in FreeFds
<1>1. FreeFds \subseteq Nat
  BY BusAssumption DEF FreeFds, Fds
<1>2. PICK f \in FreeFds : \A g \in FreeFds : ~(<<g, f>> \in OpToRel(<, Nat))
  BY <1>1, NatLessThanWellFounded, WFMin
<1>3. \A g \in FreeFds : ~(g < f)
  BY <1>1, <1>2, Zenon DEF OpToRel
<1>4. \A g \in FreeFds : f =< g
  BY <1>1, <1>3
<1> QED BY <1>4 DEF Min

--------------------------------------------------------------------------------
(***************************************************************************)
(* Steps that move no socket and hand over no connection.                  *)
(***************************************************************************)

Types == SocketTypes /\ ServerTypes /\ ThreadTypes

\* A thread that drops a connection has none of it left to close, or joins its threads.
JoinsOn ==
  \A e \in Executors :
    \/ closing'[e] = closing[e]
    \/ /\ closing[e].pc \in {"close", "recv", "send"} /\ closing'[e].pc \in {"send", "none"}
       /\ closing'[e].c = closing[e].c

\* The server's own threads take no connection.
TakesNone ==
  /\ acc'.c = acc.c /\ (acc'.pc = "insert" => acc.pc = "insert")
  /\ main'.pc = "clear" => main.pc = "clear" /\ main'.todo = main.todo

\* A step that moves no socket and takes no connection keeps the invariant.
LEMMA NothingMoves ==
  ASSUME BusInv, Types', SocketsKept, UNCHANGED <<owner, _connections>>, JoinsOn, TakesNone,
         ThreadsSound'
  PROVE  BusInv'
<1> USE DEF BusInv
<1>1. MapValid'
  BY DEF MapValid, SocketsKept, ServerTypes
<1>2. SocketsSound'
  <2>1. \A f \in Fds : owner'[f] # 0 => conns'[owner'[f]].sock = f
    BY DEF SocketsSound, SocketsKept, SocketTypes
  <2>2. \A e \in Executors : closing'[e].pc = "unset" <=> closing[e].pc = "unset"
    BY DEF JoinsOn
  <2>3. \A e \in Executors : closing'[e].c = closing[e].c
    BY DEF JoinsOn
  <2> QED BY <2>1, <2>2, <2>3 DEF SocketsSound, SocketsKept
<1>3. \A e \in Executors, c \in Conns : Drops(e, c)' => Drops(e, c)
  BY DEF Drops, JoinsOn
<1>4. \A c \in Conns : Left(c)' => Left(c)
  BY DEF Left, TakesNone
<1>5. FreshSound'
  BY <1>3, <1>4 DEF FreshSound, SocketsKept, TakesNone
<1>6. OneHolder'
  <2>1. \A f \in DOMAIN _connections : _connections[f] \in Conns
    BY DEF ServerTypes
  <2>2. \A e \in Executors : closing'[e].pc # "none" => closing[e].pc # "none" /\ closing'[e].c = closing[e].c
    BY DEF JoinsOn
  <2>3. \A e \in Executors : closing[e].pc # "none" => closing[e].c \in Conns
    BY DEF ServerTypes
  <2>4. acc.pc = "insert" => acc.c \in Conns
    BY DEF ServerTypes
  <2> QED BY <1>3, <1>4, <2>1, <2>2, <2>3, <2>4 DEF OneHolder, TakesNone
<1> QED BY <1>1, <1>2, <1>5, <1>6 DEF Types

\* The threads of a connection, the peers and the caller of sendToAll() leave the
\* server alone.
LEMMA ServerStays ==
  ASSUME BusInv, SocketTypes', ThreadTypes', SocketsKept, queue' = queue,
         UNCHANGED <<owner, _connections, acc, disc, closing, main>>
  PROVE  BusInv'
<1>1. Types' /\ JoinsOn /\ TakesNone
  BY DEF Types, BusInv, ServerTypes, JoinsOn, TakesNone
<1>2. ThreadsSound'
  BY DEF BusInv, ThreadsSound, SocketsKept, ServerTypes
<1> QED BY <1>1, <1>2, NothingMoves

\* The receive and send threads of a connection, and its peer, keep the invariant.
LEMMA ConnectionThreadsKeep ==
  ASSUME BusInv, NEW c \in Conns,
         \/ threadMainRecv(c) \/ recvClosed(c) \/ onTimeout(c) \/ process(c)
         \/ sendToConnection(c) \/ threadMainSend(c) \/ PeerSends(c) \/ PeerCloses(c)
  PROVE  BusInv'
<1> USE DEF BusInv
<1> SUFFICES SocketTypes' /\ ThreadTypes' /\ SocketsKept
  BY ServerStays DEF threadMainRecv, recvClosed, onTimeout, process, sendToConnection,
     threadMainSend, PeerSends, PeerCloses
<1>1. <<"recv", c>> \in Threads /\ <<"send", c>> \in Threads
  BY DEF Threads
<1>2. KernelOwner(c) \in Conns \cup {0} /\ conns[c] \in Connection
  BY DEF KernelOwner, SocketTypes, NoFd, Connection
<1>3. ASSUME NEW o \in Conns, NEW n \in Nat, conns' = [conns EXCEPT ![o].data = n], owner' = owner
      PROVE  SocketTypes' /\ SocketsKept
  <2> DEFINE r == [conns[o] EXCEPT !.data = n]
  <2>1. r \in Connection /\ r.sock = conns[o].sock
    BY ConnectionField DEF SocketTypes
  <2>2. conns' = [conns EXCEPT ![o] = r]
    BY <1>3
  <2> HIDE DEF r
  <2> QED BY <1>3, <2>1, <2>2, OneConnection
<1>4. CASE threadMainRecv(c)
  <2> DEFINE t == <<"recv", c>>
             o == KernelOwner(c)
  <2>1. CASE conns' = conns
    <3>1. thr' = [thr EXCEPT ![t].pc = "dead"] \/ thr' = AfterError(t, c, "dead")
               \/ thr' = [thr EXCEPT ![t].pc = "cb"]
      BY <1>4 DEF threadMainRecv
    <3>2. ThreadTypes'
      BY <1>1, <3>1, AfterErrorTyped, ThreadMoved
    <3> QED BY <1>4, <2>1, <3>2, NoConnection DEF threadMainRecv
  <2>2. CASE /\ o # 0 /\ conns[o].data > 0 /\ conns' = [conns EXCEPT ![o].data = @ - 1]
             /\ thr' = [thr EXCEPT ![t].pc = "cb"]
    <3>1. ThreadTypes'
      BY <1>1, <2>2, ThreadMoved
    <3>2. o \in Conns /\ conns[o].data - 1 \in Nat /\ owner' = owner
      BY <1>2, <1>4, <2>2 DEF SocketTypes, Connection, threadMainRecv
    <3>3. conns' = [conns EXCEPT ![o].data = conns[o].data - 1]
      BY <2>2
    <3> HIDE DEF o
    <3> QED BY <3>1, <3>2, <3>3, <1>3
  <2> QED BY <1>4, <2>1, <2>2 DEF threadMainRecv
<1>5. CASE recvClosed(c)
  <2>1. ThreadTypes'
    BY <1>1, <1>5, AfterErrorTyped DEF recvClosed
  <2> QED BY <1>5, <2>1, NoConnection DEF recvClosed
<1>6. CASE onTimeout(c)
  BY <1>1, <1>6, SendTyped DEF onTimeout
<1>7. CASE process(c)
  <2> DEFINE r == [thr[<<"recv", c>>] EXCEPT !.pc = "reply", !.id = conns[c].sock]
  <2>1. r \in Thread /\ r.pc = "reply"
    BY <1>1, <1>2 DEF ThreadTypes, Thread, Connection
  <2>2. \/ thr' = [thr EXCEPT ![<<"recv", c>>].pc = "loop"]
        \/ thr' = [thr EXCEPT ![<<"recv", c>>] = r]
    BY <1>7 DEF process
  <2> HIDE DEF r
  <2>3. ThreadTypes'
    BY <1>1, <2>1, <2>2, ThreadMoved, OneThread
  <2> QED BY <1>7, <2>3, NoConnection DEF process
<1>8. CASE threadMainSend(c)
  <2>1. CASE thr' = [thr EXCEPT ![<<"send", c>>].pc = "dead"] /\ conns' = conns
    <3>1. ThreadTypes'
      BY <1>1, <2>1, ThreadMoved
    <3> QED BY <1>8, <2>1, <3>1, NoConnection DEF threadMainSend
  <2>2. CASE /\ conns[c].q # <<>> /\ conns' = doSend(c).conns
             /\ thr' = IF doSend(c).ok THEN thr ELSE AfterError(<<"send", c>>, c, "dead")
    <3>1. SocketTypes' /\ SocketsKept
      BY <1>8, <2>2, DoSendTyped DEF threadMainSend
    <3>2. thr' = thr \/ thr' = AfterError(<<"send", c>>, c, "dead")
      BY <2>2
    <3>3. ThreadTypes'
      BY <1>1, <3>2, AfterErrorTyped DEF ThreadTypes
    <3> QED BY <3>1, <3>3
  <2> QED BY <1>8, <2>1, <2>2 DEF threadMainSend
<1>9. CASE PeerSends(c)
  <2>1. conns[c].data + 1 \in Nat /\ conns' = [conns EXCEPT ![c].data = conns[c].data + 1]
    BY <1>2, <1>9 DEF PeerSends, Connection
  <2>2. SocketTypes' /\ SocketsKept
    BY <1>3, <1>9, <2>1 DEF PeerSends
  <2> QED BY <1>9, <2>2 DEF PeerSends, ThreadTypes
<1>10. CASE PeerCloses(c)
  <2> DEFINE r == [conns[c] EXCEPT !.peer = "closed"]
  <2>1. r \in Connection /\ r.sock = conns[c].sock
    BY <1>2, ConnectionField
  <2>2. conns' = [conns EXCEPT ![c] = r]
    BY <1>10 DEF PeerCloses
  <2> HIDE DEF r
  <2>3. SocketTypes' /\ SocketsKept
    BY <1>10, <2>1, <2>2, OneConnection DEF PeerCloses
  <2> QED BY <1>10, <2>3 DEF PeerCloses, ThreadTypes
<1>11. CASE sendToConnection(c)
  <2> DEFINE t == <<"recv", c>>
             id == thr[t].id
  <2>1. CASE thr' = At(t, "loop") /\ conns' = conns
    <3>1. ThreadTypes'
      BY <1>1, <2>1, ThreadMoved
    <3> QED BY <1>11, <2>1, <3>1, NoConnection DEF sendToConnection
  <2>2. CASE id \in DOMAIN _connections /\ send(t, _connections[id], "M", "loop")
    <3>1. _connections[id] \in Conns /\ owner' = owner
      BY <1>11, <2>2 DEF ServerTypes, sendToConnection
    <3> HIDE DEF id
    <3> QED BY <1>1, <2>2, <3>1, SendTyped
  <2> QED BY <1>11, <2>1, <2>2 DEF sendToConnection
<1> QED BY <1>4, <1>5, <1>6, <1>7, <1>8, <1>9, <1>10, <1>11

\* onConnectionError() tells the parent and clears _connected.
LEMMA ErrorKeeps ==
  ASSUME BusInv, NEW t \in Threads, onConnectionError(t)
  PROVE  BusInv'
<1> USE DEF BusInv
<1>1. thr[t] \in Thread
  BY DEF ThreadTypes
<1>2. thr[t].pc \in {"push", "clear"} /\ thr[t].c \in Conns
  BY DEF onConnectionError, PushError, ClearConnected, ThreadTypes
<1>3. conns[thr[t].c] \in Connection
  BY <1>2 DEF SocketTypes
<1>4. CASE PushError(t)
  <2> DEFINE r == [thr[t] EXCEPT !.pc = "clear"]
  <2>1. r \in Thread /\ r.c \in Conns
    BY <1>1, <1>2 DEF Thread
  <2>2. thr' = [thr EXCEPT ![t] = r]
    BY <1>4 DEF PushError
  <2> HIDE DEF r
  <2>3. ThreadTypes'
    BY <2>1, <2>2, OneThread
  <2>4. SocketTypes' /\ SocketsKept
    BY <1>4, NoConnection DEF PushError
  <2>5. queue' \in [ids : Seq(Fds \cup {NoFd}), stopped : BOOLEAN]
    <3>1. conns[thr[t].c].sock \in Fds \cup {NoFd}
      BY <1>3 DEF Connection
    <3>2. queue.ids \in Seq(Fds \cup {NoFd}) /\ queue.stopped \in BOOLEAN
      BY DEF ServerTypes
    <3>3. Append(queue.ids, conns[thr[t].c].sock) \in Seq(Fds \cup {NoFd})
      BY <3>1, <3>2
    <3>4. queue' = [queue EXCEPT !.ids = Append(queue.ids, conns[thr[t].c].sock)]
      BY <1>4 DEF PushError
    <3> QED BY <3>2, <3>3, <3>4 DEF ServerTypes
  <2>6. UNCHANGED <<conns, owner, _connections, acc, disc, closing, main, env>>
    BY <1>4 DEF PushError
  <2>7. Types' /\ JoinsOn /\ TakesNone
    BY <2>3, <2>4, <2>5, <2>6 DEF Types, ServerTypes, JoinsOn, TakesNone
  <2>8. ThreadsSound'
    BY <2>6 DEF ThreadsSound
  <2> QED BY <2>4, <2>6, <2>7, <2>8, NothingMoves
<1>5. CASE ClearConnected(t)
  <2> DEFINE c == thr[t].c
             r == [conns[c] EXCEPT !.connected = FALSE]
  <2>1. r \in Connection /\ r.sock = conns[c].sock
    BY <1>3, ConnectionField
  <2>2. conns' = [conns EXCEPT ![c] = r] /\ owner' = owner
    BY <1>5 DEF ClearConnected
  <2> HIDE DEF r
  <2>3. SocketTypes' /\ SocketsKept
    BY <1>2, <2>1, <2>2, OneConnection
  <2>4. thr[t].then \in {"loop", "dead"}
    BY <1>1 DEF Thread
  <2>5. ThreadTypes'
    BY <1>5, <2>4, ThreadMoved DEF ClearConnected
  <2> QED BY <1>5, <2>3, <2>5, ServerStays DEF ClearConnected
<1> QED BY <1>4, <1>5 DEF onConnectionError

ClosingType ==
  [Executors -> [pc : {"none", "close", "unset", "recv", "send"}, c : Conns \cup {0}]]

\* A thread that drops a connection takes the next step of it.
LEMMA ClosingMoved ==
  ASSUME ServerTypes, NEW e \in Executors, NEW s \in {"none", "unset", "recv", "send"},
         closing' = [closing EXCEPT ![e].pc = s]
  PROVE  /\ closing' \in ClosingType /\ closing'[e].c = closing[e].c /\ closing'[e].pc = s
         /\ \A d \in Executors : d # e => closing'[d] = closing[d]
<1> DEFINE r == [closing[e] EXCEPT !.pc = s]
<1>1. /\ r \in [pc : {"none", "close", "unset", "recv", "send"}, c : Conns \cup {0}]
      /\ r.pc = s /\ r.c = closing[e].c
  BY DEF ServerTypes
<1>2. closing' = [closing EXCEPT ![e] = r]
  OBVIOUS
<1> HIDE DEF r
<1> QED BY <1>1, <1>2 DEF ServerTypes, ClosingType

\* A thread that drops a connection joins the connection's own threads.
LEMMA JoinsKeep ==
  ASSUME BusInv, NEW e \in Executors, JoinRecv(e) \/ JoinSend(e)
  PROVE  BusInv'
<1> USE DEF BusInv
<1> DEFINE c == closing[e].c
<1>1. closing[e].pc \in {"recv", "send"} /\ c \in Conns
  BY DEF JoinRecv, JoinSend, ServerTypes
<1>2. conns[c] \in Connection /\ <<>> \in Seq({"H", "M"})
  BY <1>1 DEF SocketTypes
<1>3. PICK r \in Connection : r.sock = conns[c].sock /\ conns' = [conns EXCEPT ![c] = r]
  <2>1. CASE JoinRecv(e)
    <3> DEFINE r == [conns[c] EXCEPT !.qstop = TRUE]
    <3>1. r \in Connection /\ r.sock = conns[c].sock
      BY <1>2, ConnectionField
    <3>2. conns' = [conns EXCEPT ![c] = r]
      BY <2>1 DEF JoinRecv
    <3> HIDE DEF r
    <3> QED BY <3>1, <3>2
  <2>2. CASE JoinSend(e)
    <3> DEFINE r == [conns[c] EXCEPT !.q = <<>>]
    <3>1. r \in Connection /\ r.sock = conns[c].sock
      BY <1>2, ConnectionField
    <3>2. conns' = [conns EXCEPT ![c] = r]
      BY <2>2 DEF JoinSend
    <3> HIDE DEF r
    <3> QED BY <3>1, <3>2
  <2> QED BY <2>1, <2>2
<1>4. UNCHANGED <<owner, _connections, queue, thr, acc, disc, main, env>>
  BY DEF JoinRecv, JoinSend
<1>5. SocketTypes' /\ SocketsKept
  BY <1>1, <1>3, <1>4, OneConnection
<1>6. /\ closing' \in ClosingType
      /\ closing'[e].c = c /\ closing'[e].pc \in {"send", "none"}
      /\ \A d \in Executors : d # e => closing'[d] = closing[d]
  <2>1. PICK s \in {"send", "none"} : closing' = [closing EXCEPT ![e].pc = s]
    BY DEF JoinRecv, JoinSend
  <2> QED BY <2>1, ClosingMoved
<1>7. JoinsOn /\ TakesNone
  BY <1>1, <1>4, <1>6 DEF JoinsOn, TakesNone
<1>8. Types'
  BY <1>1, <1>4, <1>5, <1>6 DEF Types, ServerTypes, ThreadTypes, ClosingType
<1>9. ThreadsSound'
  <2>1. closing["acc"].pc = "none" => closing'["acc"].pc = "none"
    BY <1>1, <1>6 DEF Executors
  <2>2. closing["disc"].pc = "none" => closing'["disc"].pc = "none"
    BY <1>1, <1>6 DEF Executors
  <2> QED BY <1>4, <1>5, <2>1, <2>2 DEF ThreadsSound, SocketsKept, ServerTypes
<1> QED BY <1>4, <1>5, <1>7, <1>8, <1>9, NothingMoves

\* The steps of the server's threads and of its owner that touch no connection.
LEMMA ServerThreadsKeep ==
  ASSUME BusInv, runUp \/ runDone \/ discRead \/ discDown \/ stopBegin \/ stopJoinAccept
  PROVE  BusInv'
<1> USE DEF BusInv
<1>1. UNCHANGED <<conns, owner, _connections, thr, closing>>
  BY DEF runUp, runDone, discRead, discDown, stopBegin, stopJoinAccept
<1>2. SocketTypes' /\ SocketsKept /\ ThreadTypes' /\ JoinsOn
  BY <1>1, NoConnection DEF ThreadTypes, JoinsOn
<1>3. CASE runUp \/ runDone
  <2>1. UNCHANGED <<queue, disc, main>> /\ acc'.c = acc.c /\ acc'.pc \in {"accept", "dead"}
        /\ acc' \in [pc : {"accept", "insert", "up", "dead"}, c : Conns \cup {0}]
    BY <1>3 DEF runUp, runDone, ServerTypes
  <2>2. Types' /\ TakesNone
    BY <1>1, <1>2, <2>1 DEF Types, ServerTypes, TakesNone
  <2>3. ThreadsSound'
    BY <1>1, <2>1 DEF ThreadsSound
  <2> QED BY <1>1, <1>2, <2>2, <2>3, NothingMoves
<1>4. CASE discRead \/ discDown
  <2>1. UNCHANGED <<acc, main>>
    BY <1>4 DEF discRead, discDown
  <2>2. /\ queue' \in [ids : Seq(Fds \cup {NoFd}), stopped : BOOLEAN]
        /\ disc' \in [pc : {"top", "more", "down", "remove", "dead"}, id : Fds \cup {NoFd}]
    <3>1. queue.ids # <<>> => Head(queue.ids) \in Fds \cup {NoFd} /\ Tail(queue.ids) \in Seq(Fds \cup {NoFd})
      BY DEF ServerTypes
    <3>2. CASE queue' = queue /\ \E s \in {"top", "dead", "remove"} : disc' = [disc EXCEPT !.pc = s]
      BY <3>2 DEF ServerTypes
    <3>3. CASE /\ queue.ids # <<>> /\ queue' = [queue EXCEPT !.ids = Tail(@)]
               /\ \E s \in {"more", "down"} : disc' = [pc |-> s, id |-> Head(queue.ids)]
      <4> DEFINE q == Tail(queue.ids)
      <4>1. queue' = [queue EXCEPT !.ids = q] /\ q \in Seq(Fds \cup {NoFd})
        BY <3>1, <3>3
      <4> HIDE DEF q
      <4>2. queue' \in [ids : Seq(Fds \cup {NoFd}), stopped : BOOLEAN]
        BY <4>1 DEF ServerTypes
      <4>3. disc' \in [pc : {"top", "more", "down", "remove", "dead"}, id : Fds \cup {NoFd}]
        BY <3>1, <3>3
      <4> QED BY <4>2, <4>3
    <3> QED BY <1>4, <3>2, <3>3 DEF discRead, discDown
  <2>3. disc'.pc \in {"down", "remove"} => closing["disc"].pc = "none"
    <3>1. CASE discRead
      BY <3>1 DEF discRead
    <3>2. CASE discDown
      BY <3>2 DEF discDown, ThreadsSound
    <3> QED BY <1>4, <3>1, <3>2
  <2>4. Types' /\ TakesNone
    BY <1>1, <1>2, <2>1, <2>2 DEF Types, ServerTypes, TakesNone
  <2>5. ThreadsSound'
    BY <1>1, <2>1, <2>3 DEF ThreadsSound
  <2> QED BY <1>1, <1>2, <2>1, <2>4, <2>5, NothingMoves
<1>5. CASE stopBegin \/ stopJoinAccept
  <2>1. UNCHANGED <<acc, disc>> /\ main'.pc \in {"joinAcc", "joinDisc"} /\ main'.isDone
        /\ main' \in [pc : {"idle", "all", "joinAcc", "joinDisc", "clear"}, todo : SUBSET Conns,
                      isDone : BOOLEAN]
    BY <1>5 DEF stopBegin, stopJoinAccept, ServerTypes, ThreadsSound
  <2>2. queue' \in [ids : Seq(Fds \cup {NoFd}), stopped : BOOLEAN]
    BY <1>5 DEF stopBegin, stopJoinAccept, ServerTypes
  <2>3. Types' /\ TakesNone
    BY <1>1, <1>2, <2>1, <2>2 DEF Types, ServerTypes, TakesNone
  <2>4. ThreadsSound'
    BY <1>1, <2>1 DEF ThreadsSound
  <2> QED BY <1>1, <1>2, <2>1, <2>3, <2>4, NothingMoves
<1> QED BY <1>3, <1>4, <1>5

\* sendToAll() serves a copy of the map.
LEMMA SendToAllKeeps ==
  ASSUME BusInv, sendToAll
  PROVE  BusInv'
<1> USE DEF BusInv
<1>1. UNCHANGED <<owner, _connections, queue, acc, disc, closing>> /\ main.pc \in {"idle", "all"}
  BY DEF sendToAll
<1>2. /\ main'.pc \in {"idle", "all"} /\ main'.isDone = main.isDone
      /\ main' \in [pc : {"idle", "all", "joinAcc", "joinDisc", "clear"}, todo : SUBSET Conns,
                    isDone : BOOLEAN]
  <2>1. Range(_connections) \subseteq Conns
    BY DEF ServerTypes, Range
  <2>2. \/ main' = [main EXCEPT !.pc = "all", !.todo = Range(_connections)]
        \/ main' = [main EXCEPT !.pc = "idle"]
        \/ \E c \in main.todo : main' = [main EXCEPT !.todo = main.todo \ {c}]
    BY DEF sendToAll
  <2>3. PICK s \in {"idle", "all"}, S \in SUBSET Conns : main' = [main EXCEPT !.pc = s, !.todo = S]
    <3>1. CASE main' = [main EXCEPT !.pc = "all", !.todo = Range(_connections)]
      BY <2>1, <3>1
    <3>2. CASE main' = [main EXCEPT !.pc = "idle"]
      <4>1. main' = [main EXCEPT !.pc = "idle", !.todo = main.todo] /\ main.todo \in SUBSET Conns
        BY <3>2 DEF ServerTypes
      <4> QED BY <4>1
    <3>3. CASE \E c \in main.todo : main' = [main EXCEPT !.todo = main.todo \ {c}]
      <4>1. PICK c \in main.todo : main' = [main EXCEPT !.todo = main.todo \ {c}]
        BY <3>3
      <4>2. main' = [main EXCEPT !.pc = main.pc, !.todo = main.todo \ {c}]
        BY <4>1 DEF ServerTypes
      <4>3. main.todo \ {c} \in SUBSET Conns
        BY DEF ServerTypes
      <4> QED BY <1>1, <4>2, <4>3
    <3> QED BY <2>2, <3>1, <3>2, <3>3
  <2> QED BY <2>3 DEF ServerTypes
<1>3. SocketTypes' /\ SocketsKept /\ ThreadTypes'
  <2>1. CASE UNCHANGED <<conns, thr>>
    BY <1>1, <2>1, NoConnection DEF ThreadTypes
  <2>2. CASE \E c \in main.todo : send(Caller, c, "M", "loop")
    <3>1. PICK c \in main.todo : send(Caller, c, "M", "loop")
      BY <2>2
    <3>2. c \in Conns /\ Caller \in Threads
      BY DEF ServerTypes, Threads, Caller
    <3> QED BY <1>1, <3>1, <3>2, SendTyped
  <2> QED BY <2>1, <2>2 DEF sendToAll
<1>4. Types' /\ TakesNone /\ JoinsOn
  BY <1>1, <1>2, <1>3 DEF Types, ServerTypes, TakesNone, JoinsOn
<1>5. ThreadsSound'
  BY <1>1, <1>2, <1>3 DEF ThreadsSound, SocketsKept, ServerTypes
<1> QED BY <1>1, <1>3, <1>4, <1>5, NothingMoves

--------------------------------------------------------------------------------
(***************************************************************************)
(* Steps that close a socket or hand over a connection.                    *)
(***************************************************************************)

\* While connections are closed, nobody takes one.
LEMMA HoldersKept ==
  ASSUME BusInv, UNCHANGED <<_connections, acc, main>>,
         \A e \in Executors : closing'[e].pc # "none" =>
            closing[e].pc # "none" /\ closing'[e].c = closing[e].c,
         \A c \in Conns : conns'[c].sock \in {conns[c].sock, NoFd}
  PROVE  FreshSound' /\ OneHolder'
<1> USE DEF BusInv
<1>1. \A e \in Executors, c \in Conns : Drops(e, c)' => Drops(e, c)
  BY DEF Drops
<1>2. \A c \in Conns : Left(c)' <=> Left(c)
  BY DEF Left
<1>3. FreshSound'
  BY <1>1, <1>2 DEF FreshSound
<1>4. /\ \A f \in DOMAIN _connections : _connections[f] \in Conns
      /\ \A e \in Executors : closing[e].pc # "none" => closing[e].c \in Conns
      /\ acc.pc = "insert" => acc.c \in Conns
  BY DEF ServerTypes
<1>5. OneHolder'
  BY <1>1, <1>2, <1>4 DEF OneHolder
<1> QED BY <1>3, <1>5

\* The socket that stop() closes is the connection's own.
LEMMA OwnSocket ==
  ASSUME BusInv, NEW e \in Executors, closing[e].pc = "close",
         conns[closing[e].c].sock # NoFd
  PROVE  owner[conns[closing[e].c].sock] = closing[e].c
<1>1. closing[e].c \in Conns
  BY DEF BusInv, ServerTypes
<1>2. \A d \in Executors : ~(closing[d].pc = "unset" /\ closing[d].c = closing[e].c)
  <2> SUFFICES ASSUME NEW d \in Executors, closing[d].pc = "unset", closing[d].c = closing[e].c
               PROVE  FALSE
    OBVIOUS
  <2>1. d # e /\ Drops(d, closing[e].c)
    BY DEF Drops
  <2> QED BY <2>1 DEF BusInv, OneHolder
<1> QED BY <1>1, <1>2 DEF BusInv, SocketsSound

\* stop() closes the connection's socket.
LEMMA CloseKeeps ==
  ASSUME BusInv, NEW e \in Executors, CloseSocket(e)
  PROVE  BusInv'
<1> USE DEF BusInv
<1> DEFINE c == closing[e].c
           g == conns[c].sock
<1>1. /\ closing[e].pc = "close" /\ c \in Conns /\ conns[c] \in Connection
      /\ UNCHANGED <<_connections, queue, thr, acc, disc, main, env>>
  BY DEF CloseSocket, ServerTypes, SocketTypes
<1>2. CASE g = NoFd
  <2>1. closing' = [closing EXCEPT ![e].pc = "none"] /\ UNCHANGED <<conns, owner>>
    BY <1>2 DEF CloseSocket
  <2>2. /\ closing' \in ClosingType /\ closing'[e].c = c /\ closing'[e].pc = "none"
        /\ \A d \in Executors : d # e => closing'[d] = closing[d]
    BY <2>1, ClosingMoved
  <2>3. SocketTypes' /\ SocketsKept
    BY <2>1, NoConnection
  <2>4. Types' /\ JoinsOn /\ TakesNone
    BY <1>1, <2>2, <2>3, ZenonT(40) DEF Types, ServerTypes, ThreadTypes, ClosingType, JoinsOn, TakesNone
  <2>5. ThreadsSound'
    BY <1>1, <2>1, <2>2 DEF ThreadsSound, Executors
  <2> QED BY <1>1, <2>1, <2>3, <2>4, <2>5, NothingMoves
<1>3. CASE g # NoFd
  <2>1. g \in Fds /\ owner[g] = c
    BY <1>1, <1>3, OwnSocket DEF Connection
  <2>2. /\ owner' = [owner EXCEPT ![g] = 0]
        /\ conns' = [conns EXCEPT ![c].peer = "none", ![c].data = 0]
        /\ closing' = [closing EXCEPT ![e].pc = "unset"]
    BY <1>3 DEF CloseSocket
  <2>3. conns' \in [Conns -> Connection] /\ SocketsKept
    <3> DEFINE r == [conns[c] EXCEPT !.peer = "none", !.data = 0]
    <3>1. r \in Connection /\ r.sock = conns[c].sock
      BY <1>1 DEF Connection
    <3>2. conns' = [conns EXCEPT ![c] = r]
      BY <2>2
    <3> HIDE DEF r
    <3> QED BY <1>1, <3>1, <3>2 DEF SocketTypes, SocketsKept
  <2>4. /\ closing' \in ClosingType /\ closing'[e].c = c /\ closing'[e].pc = "unset"
        /\ \A d \in Executors : d # e => closing'[d] = closing[d]
    BY <2>2, ClosingMoved
  <2>5. /\ owner' \in [Fds -> Conns \cup {0}] /\ owner'[g] = 0
        /\ \A f \in Fds : f # g => owner'[f] = owner[f]
    BY <2>1, <2>2 DEF SocketTypes
  <2> HIDE DEF c, g
  <2>6. SocketTypes' /\ ServerTypes' /\ ThreadTypes'
    BY <1>1, <2>3, <2>4, <2>5 DEF SocketTypes, ServerTypes, ThreadTypes, ClosingType
  <2>7. closing[e].c = c /\ conns[c].sock = g /\ 0 \notin Conns
    BY DEF c, g, Conns
  <2>8. MapValid'
    <3>1. \A f \in DOMAIN _connections : _connections[f] # c
      BY <1>1, <2>7 DEF OneHolder, Drops
    <3>2. \A f \in DOMAIN _connections : f \in Fds /\ f # g /\ _connections[f] \in Conns
      BY <2>1, <3>1 DEF MapValid, ServerTypes
    <3> QED BY <1>1, <2>3, <2>5, <3>2 DEF MapValid, SocketsKept
  <2>9. SocketsSound'
    <3>1. \A f \in Fds : owner'[f] # 0 => conns'[owner'[f]].sock = f
      BY <2>3, <2>5 DEF SocketsSound, SocketsKept, SocketTypes
    <3>2. ASSUME NEW d \in Conns
          PROVE  \/ conns'[d].sock = NoFd
                 \/ owner'[conns'[d].sock] = d
                 \/ \E x \in Executors : closing'[x].pc = "unset" /\ closing'[x].c = d
      <4>1. conns'[d].sock = conns[d].sock /\ conns[d].sock \in Fds \cup {NoFd}
        BY <2>3 DEF SocketsKept, SocketTypes, Connection
      <4>2. CASE d = c
        BY <2>4, <4>2
      <4>3. CASE d # c
        <5>1. CASE owner[conns[d].sock] = d /\ conns[d].sock # NoFd
          BY <2>1, <2>5, <4>1, <4>3, <5>1
        <5>2. CASE \E x \in Executors : closing[x].pc = "unset" /\ closing[x].c = d
          BY <2>4, <2>7, <4>3, <5>2
        <5> QED BY <4>1, <5>1, <5>2 DEF SocketsSound
      <4> QED BY <4>2, <4>3
    <3>3. ASSUME NEW x \in Executors, closing'[x].pc = "unset", NEW f \in Fds
          PROVE  owner'[f] # closing'[x].c
      <4>1. CASE x = e
        <5>1. f # g => owner[f] # c
          BY <1>1, <2>7 DEF SocketsSound
        <5> QED BY <1>1, <2>4, <2>5, <2>7, <4>1, <5>1
      <4>2. CASE x # e
        BY <2>4, <2>5, <2>7, <3>3, <4>2 DEF SocketsSound, ServerTypes
      <4> QED BY <4>1, <4>2
    <3> QED BY <3>1, <3>2, <3>3 DEF SocketsSound
  <2>10. FreshSound' /\ OneHolder'
    <3>1. \A d \in Executors : closing'[d].pc # "none" => closing[d].pc # "none" /\ closing'[d].c = closing[d].c
      BY <1>1, <2>4, <2>7
    <3> QED BY <1>1, <2>3, <3>1, HoldersKept DEF SocketsKept
  <2>11. ThreadsSound'
    <3>1. /\ closing["acc"].pc = "none" <=> closing'["acc"].pc = "none"
          /\ closing["disc"].pc = "none" <=> closing'["disc"].pc = "none"
      BY <1>1, <2>4 DEF Executors
    <3> QED BY <1>1, <2>3, <3>1 DEF ThreadsSound, SocketsKept, ServerTypes
  <2> QED BY <2>6, <2>8, <2>9, <2>10, <2>11
<1> QED BY <1>2, <1>3

\* stop() then forgets the socket.
LEMMA UnsetKeeps ==
  ASSUME BusInv, NEW e \in Executors, UnsetSocket(e)
  PROVE  BusInv'
<1> USE DEF BusInv
<1> DEFINE c == closing[e].c
<1>1. /\ closing[e].pc = "unset" /\ c \in Conns /\ conns[c] \in Connection
      /\ UNCHANGED <<owner, _connections, queue, thr, acc, disc, main, env>>
  BY DEF UnsetSocket, ServerTypes, SocketTypes
<1>2. /\ conns' \in [Conns -> Connection] /\ conns'[c].sock = NoFd
      /\ \A d \in Conns : d # c => conns'[d] = conns[d]
  <2> DEFINE r == [conns[c] EXCEPT !.sock = NoFd]
  <2>1. r \in Connection /\ r.sock = NoFd
    BY <1>1, ConnectionField
  <2>2. conns' = [conns EXCEPT ![c] = r]
    BY DEF UnsetSocket
  <2> HIDE DEF r
  <2> QED BY <1>1, <2>1, <2>2 DEF SocketTypes
<1>3. /\ closing' \in ClosingType /\ closing'[e].c = c /\ closing'[e].pc = "recv"
      /\ \A d \in Executors : d # e => closing'[d] = closing[d]
  BY ClosingMoved DEF UnsetSocket
<1>4. SocketTypes' /\ ServerTypes' /\ ThreadTypes'
  BY <1>1, <1>2, <1>3, ZenonT(40) DEF SocketTypes, ServerTypes, ThreadTypes, ClosingType
<1>5. \A f \in Fds : owner[f] # c
  BY <1>1 DEF SocketsSound
<1>6. /\ \A f \in DOMAIN _connections : _connections[f] # c /\ _connections[f] \in Conns
      /\ acc.pc = "insert" => acc.c # c /\ acc.c \in Conns
  BY <1>1 DEF OneHolder, Drops, ServerTypes
<1>7. MapValid'
  BY <1>1, <1>2, <1>6 DEF MapValid
<1>8. SocketsSound'
  <2>1. \A f \in Fds : owner'[f] # 0 => conns'[owner'[f]].sock = f
    BY <1>1, <1>2, <1>5 DEF SocketsSound, SocketTypes
  <2>2. ASSUME NEW d \in Conns
        PROVE  \/ conns'[d].sock = NoFd
               \/ owner'[conns'[d].sock] = d
               \/ \E x \in Executors : closing'[x].pc = "unset" /\ closing'[x].c = d
    <3>1. CASE d = c
      BY <1>2, <3>1
    <3>2. CASE d # c
      BY <1>1, <1>2, <1>3, <3>2 DEF SocketsSound
    <3> QED BY <3>1, <3>2
  <2>3. \A x \in Executors : closing'[x].pc = "unset" => \A f \in Fds : owner'[f] # closing'[x].c
    BY <1>1, <1>3 DEF SocketsSound
  <2> QED BY <2>1, <2>2, <2>3 DEF SocketsSound
<1>9. FreshSound' /\ OneHolder'
  <2>1. \A d \in Executors : closing'[d].pc # "none" => closing[d].pc # "none" /\ closing'[d].c = closing[d].c
    BY <1>1, <1>3
  <2>2. \A d \in Conns : conns'[d].sock \in {conns[d].sock, NoFd}
    BY <1>2
  <2> QED BY <1>1, <2>1, <2>2, HoldersKept
<1>10. ThreadsSound'
  <2>1. /\ closing["acc"].pc = "none" <=> closing'["acc"].pc = "none"
        /\ closing["disc"].pc = "none" <=> closing'["disc"].pc = "none"
    BY <1>1, <1>3 DEF Executors
  <2> QED BY <1>1, <1>2, <1>6, <2>1 DEF ThreadsSound
<1> QED BY <1>4, <1>7, <1>8, <1>9, <1>10

\* accept() gives a new connection a descriptor that is free.
LEMMA AcceptKeeps ==
  ASSUME BusInv, accept
  PROVE  BusInv'
<1> USE DEF BusInv
<1> DEFINE c == acc.c + 1
           g == Min(FreeFds)
<1>1. c \in Conns /\ g \in Fds /\ owner[g] = 0 /\ conns[c] \in Connection /\ ~main.isDone
  BY FreeFd DEF accept, FreeFds, SocketTypes
<1>2. acc.c \in Nat /\ c > acc.c
  BY DEF ServerTypes, Conns
<1>3. /\ owner' = [owner EXCEPT ![g] = c] /\ acc' = [pc |-> "insert", c |-> c]
      /\ UNCHANGED <<_connections, queue, disc, closing, main>>
  BY DEF accept
<1>4. /\ conns' \in [Conns -> Connection] /\ conns'[c].sock = g
      /\ \A d \in Conns : d # c => conns'[d] = conns[d]
  <2> DEFINE r == [conns[c] EXCEPT !.sock = g, !.connected = TRUE, !.peer = "open"]
  <2>1. r \in Connection /\ r.sock = g
    BY <1>1 DEF Connection
  <2>2. conns' = [conns EXCEPT ![c] = r]
    BY DEF accept
  <2> HIDE DEF r, g, c
  <2> QED BY <1>1, <2>1, <2>2 DEF SocketTypes
<1>5. ThreadTypes'
  <2> DEFINE r == [pc |-> "loop", then |-> "dead", c |-> c, id |-> NoFd]
  <2>1. r \in Thread /\ r.pc = "loop"
    BY <1>1 DEF Thread
  <2>2. thr' = [t \in Threads |-> IF t # Caller /\ t[2] = c THEN r ELSE thr[t]]
    BY DEF accept
  <2> HIDE DEF r, c
  <2> QED BY <2>1, <2>2 DEF ThreadTypes
<1>6. g # NoFd /\ 0 \notin Conns
  BY <1>1 DEF Fds, NoFd, Conns
<1> DEFINE
     fresh == /\ conns[c].sock = NoFd
              /\ \A f \in DOMAIN _connections : _connections[f] # c
              /\ \A e \in Executors : closing[e].pc # "none" => closing[e].c # c
              /\ ~Left(c)
<1>7. fresh
  BY <1>1, <1>2 DEF FreshSound, Drops
<1>8. \A d \in Conns : d > acc'.c => d > acc.c /\ d # c
  BY <1>2, <1>3 DEF Conns
<1>9. /\ owner' \in [Fds -> Conns \cup {0}] /\ owner'[g] = c
      /\ \A f \in Fds : f # g => owner'[f] = owner[f]
  BY <1>1, <1>3 DEF SocketTypes
<1>10. acc'.pc = "insert" /\ acc'.c = c /\ acc' \in [pc : {"accept", "insert", "up", "dead"}, c : Conns \cup {0}]
  BY <1>1, <1>3
<1> HIDE DEF c, g
<1>11. SocketTypes' /\ ServerTypes'
  BY <1>1, <1>3, <1>4, <1>9, <1>10 DEF SocketTypes, ServerTypes
<1>12. MapValid'
  <2>1. \A f \in DOMAIN _connections : f \in Fds /\ _connections[f] \in Conns /\ f # g
    BY <1>1, <1>6 DEF MapValid, ServerTypes
  <2> QED BY <1>3, <1>4, <1>7, <1>9, <2>1 DEF MapValid
<1>13. SocketsSound'
  <2>1. ASSUME NEW f \in Fds, owner'[f] # 0 PROVE conns'[owner'[f]].sock = f
    <3>1. CASE f = g
      BY <1>4, <1>9, <3>1
    <3>2. CASE f # g
      <4>1. owner[f] \in Conns /\ conns[owner[f]].sock = f /\ f # NoFd
        BY <1>9, <2>1, <3>2 DEF SocketsSound, SocketTypes, Fds, NoFd
      <4> QED BY <1>4, <1>7, <1>9, <3>2, <4>1
    <3> QED BY <3>1, <3>2
  <2>2. ASSUME NEW d \in Conns
        PROVE  \/ conns'[d].sock = NoFd
               \/ owner'[conns'[d].sock] = d
               \/ \E x \in Executors : closing'[x].pc = "unset" /\ closing'[x].c = d
    <3>1. CASE d = c
      BY <1>4, <1>9, <3>1
    <3>2. CASE d # c
      <4>1. conns'[d].sock = conns[d].sock /\ conns[d].sock \in Fds \cup {NoFd}
        BY <1>4, <3>2 DEF SocketTypes, Connection
      <4>2. CASE owner[conns[d].sock] = d /\ conns[d].sock # NoFd
        BY <1>1, <1>6, <1>9, <4>1, <4>2
      <4> QED BY <1>3, <4>1, <4>2 DEF SocketsSound
    <3> QED BY <3>1, <3>2
  <2>3. \A x \in Executors : closing'[x].pc = "unset" => \A f \in Fds : owner'[f] # closing'[x].c
    BY <1>3, <1>7, <1>9 DEF SocketsSound
  <2> QED BY <2>1, <2>2, <2>3 DEF SocketsSound
<1>14. FreshSound'
  BY <1>3, <1>4, <1>8 DEF FreshSound, Drops, Left
<1>15. OneHolder'
  BY <1>3, <1>7, <1>10 DEF OneHolder, Drops, Left
<1>16. ThreadsSound'
  BY <1>1, <1>3, <1>4, <1>6, <1>10 DEF ThreadsSound
<1> QED BY <1>5, <1>11, <1>12, <1>13, <1>14, <1>15, <1>16

\* A thread that drops none so far starts to drop a connection.
LEMMA ClosingTaken ==
  ASSUME ServerTypes, NEW e \in Executors, NEW c \in Conns,
         closing' = [closing EXCEPT ![e] = [pc |-> "close", c |-> c]]
  PROVE  /\ closing' \in ClosingType /\ closing'[e].c = c /\ closing'[e].pc = "close"
         /\ \A d \in Executors : d # e => closing'[d] = closing[d]
BY DEF ServerTypes, ClosingType

\* What is known of the sockets does not change when a thread that drops none so far
\* starts to.
LEMMA SocketsStay ==
  ASSUME BusInv, NEW e \in Executors, closing[e].pc = "none", closing'[e].pc = "close",
         \A d \in Executors : d # e => closing'[d] = closing[d],
         UNCHANGED <<conns, owner>>
  PROVE  SocketsSound'
<1>1. \A d \in Executors : closing'[d].pc = "unset" <=> closing[d].pc = "unset"
  OBVIOUS
<1>2. \A d \in Executors : closing[d].pc = "unset" => closing'[d].c = closing[d].c
  OBVIOUS
<1> QED BY <1>1, <1>2 DEF BusInv, SocketsSound

\* Two threads never drop the same connection: one starts to drop a connection no
\* other does.
OneDrops ==
  \A e, d \in Executors : e # d /\ closing[e].pc # "none" => ~Drops(d, closing[e].c)

\* A thread starts to drop a connection that no thread drops.
LEMMA TakenOnce ==
  ASSUME BusInv, NEW e \in Executors, NEW c \in Conns, \A d \in Executors : ~Drops(d, c),
         closing'[e].c = c, \A d \in Executors : d # e => closing'[d] = closing[d]
  PROVE  OneDrops' /\ \A d \in Executors, b \in Conns : Drops(d, b)' => Drops(d, b) \/ b = c
<1>1. ASSUME NEW x \in Executors, NEW d \in Executors, x # d, closing'[x].pc # "none"
      PROVE  ~(closing'[d].pc # "none" /\ closing'[d].c = closing'[x].c)
  <2>1. CASE x = e
    BY <1>1, <2>1 DEF Drops
  <2>2. CASE d = e
    BY <1>1, <2>2 DEF Drops
  <2>3. CASE x # e /\ d # e
    BY <1>1, <2>3 DEF BusInv, OneHolder, Drops
  <2> QED BY <2>1, <2>2, <2>3
<1> QED BY <1>1 DEF OneDrops, Drops

\* The accept thread puts a new connection into the map, or drops it.
LEMMA InsertKeeps ==
  ASSUME BusInv, runInsert
  PROVE  BusInv'
<1> USE DEF BusInv
<1> DEFINE c == acc.c
           g == conns[c].sock
<1>1. /\ acc.pc = "insert" /\ c \in Conns /\ g \in Fds /\ closing["acc"].pc = "none"
      /\ UNCHANGED <<conns, owner, queue, thr, disc, main>>
  <2>1. acc.pc = "insert" /\ c \in Conns /\ UNCHANGED <<conns, owner, queue, thr, disc, main>>
    BY DEF runInsert, ServerTypes
  <2>2. g # NoFd /\ closing["acc"].pc = "none"
    BY <2>1 DEF ThreadsSound
  <2> QED BY <2>1, <2>2 DEF SocketTypes, Connection
<1>2. /\ \A f \in DOMAIN _connections : _connections[f] # c /\ _connections[f] \in Conns
      /\ \A e \in Executors : ~Drops(e, c)
      /\ ~Left(c)
  BY <1>1 DEF OneHolder, ServerTypes
<1>3. \A d \in Conns : d > c => d # c
  BY DEF Conns
<1>4. CASE main.isDone
  <2>1. /\ closing' = [closing EXCEPT !["acc"] = [pc |-> "close", c |-> c]]
        /\ acc' = [acc EXCEPT !.pc = "accept"] /\ _connections' = _connections
    BY <1>4 DEF runInsert
  <2>2. acc'.pc = "accept" /\ acc'.c = c /\ acc' \in [pc : {"accept", "insert", "up", "dead"}, c : Conns \cup {0}]
    BY <2>1 DEF ServerTypes
  <2>3. /\ "acc" \in Executors /\ "disc" \in Executors
        /\ closing' \in ClosingType /\ closing'["acc"].c = c /\ closing'["acc"].pc = "close"
        /\ \A d \in Executors : d # "acc" => closing'[d] = closing[d]
    BY <1>1, <2>1, ClosingTaken DEF Executors
  <2> HIDE DEF c, g
  <2>4. SocketTypes' /\ ServerTypes' /\ ThreadTypes'
    BY <1>1, <2>1, <2>2, <2>3 DEF SocketTypes, ServerTypes, ThreadTypes, ClosingType
  <2>5. MapValid' /\ SocketsSound'
    BY <1>1, <2>1, <2>3, SocketsStay DEF MapValid
  <2>6. OneDrops' /\ \A e \in Executors, d \in Conns : Drops(e, d)' => Drops(e, d) \/ d = c
    BY <1>1, <1>2, <2>3, TakenOnce
  <2>7. \A d \in Conns : Left(d)' <=> Left(d)
    BY <1>1 DEF Left
  <2>8. FreshSound'
    <3>1. c = acc.c
      BY DEF c
    <3> QED BY <1>1, <1>3, <2>1, <2>2, <2>6, <2>7, <3>1 DEF FreshSound
  <2>9. OneHolder'
    <3>1. (\A f \in DOMAIN _connections, e \in Executors : ~Drops(e, _connections[f]))'
      BY <1>2, <2>1, <2>6 DEF OneHolder
    <3>2. \A d \in Conns : Left(d)' => \A e \in Executors : ~Drops(e, d)'
      BY <1>2, <2>6, <2>7 DEF OneHolder
    <3>3. main'.pc = "clear" => _connections' = <<>>
      BY <1>1, <2>1 DEF OneHolder
    <3> QED BY <2>2, <2>6, <3>1, <3>2, <3>3 DEF OneHolder, OneDrops
  <2>10. ThreadsSound'
    BY <1>1, <1>4, <2>2, <2>3 DEF ThreadsSound
  <2> QED BY <2>4, <2>5, <2>8, <2>9, <2>10
<1>5. CASE ~main.isDone
  <2>1. /\ _connections' = [f \in DOMAIN _connections \cup {g} |-> IF f = g THEN c ELSE _connections[f]]
        /\ acc' = [acc EXCEPT !.pc = "up"] /\ closing' = closing
    BY <1>5 DEF runInsert
  <2>2. acc'.pc = "up" /\ acc'.c = c /\ acc' \in [pc : {"accept", "insert", "up", "dead"}, c : Conns \cup {0}]
    BY <2>1 DEF ServerTypes
  <2>3. owner[g] = c
    <3>1. g # NoFd
      BY <1>1 DEF Fds, NoFd
    <3> QED BY <1>1, <1>2, <3>1 DEF SocketsSound, Drops
  <2>4. conns[c].sock = g /\ c = acc.c
    OBVIOUS
  <2> HIDE DEF c, g
  <2>5. /\ DOMAIN _connections' = DOMAIN _connections \cup {g} /\ _connections'[g] = c
        /\ \A f \in DOMAIN _connections : f # g => _connections'[f] = _connections[f]
        /\ _connections' \in [DOMAIN _connections' -> Conns]
    BY <1>1, <1>2, <2>1
  <2>6. SocketTypes' /\ ServerTypes' /\ ThreadTypes'
    BY <1>1, <2>1, <2>2, <2>5 DEF SocketTypes, ServerTypes, ThreadTypes
  <2>7. MapValid'
    BY <1>1, <2>3, <2>4, <2>5 DEF MapValid
  <2>8. SocketsSound'
    BY <1>1, <2>1 DEF SocketsSound
  <2>9. FreshSound'
    BY <1>1, <1>3, <2>1, <2>2, <2>4, <2>5 DEF FreshSound, Drops, Left
  <2>10. main.pc # "clear"
    BY <1>5 DEF ThreadsSound
  <2>11. OneHolder'
    BY <1>1, <1>2, <2>1, <2>2, <2>5, <2>10 DEF OneHolder, Drops, Left
  <2>12. ThreadsSound'
    BY <1>1, <2>1, <2>2 DEF ThreadsSound
  <2> QED BY <2>6, <2>7, <2>8, <2>9, <2>11, <2>12
<1> QED BY <1>4, <1>5

\* removeConnection() takes the entry out of the map and starts to drop the connection.
LEMMA RemoveKeeps ==
  ASSUME BusInv, removeConnection
  PROVE  BusInv'
<1> USE DEF BusInv
<1> DEFINE g == disc.id
           c == _connections[g]
<1>1. /\ disc.pc = "remove" /\ closing["disc"].pc = "none" /\ disc'.pc = "more"
      /\ disc' \in [pc : {"top", "more", "down", "remove", "dead"}, id : Fds \cup {NoFd}]
      /\ UNCHANGED <<conns, owner, queue, thr, acc, main>>
  BY DEF removeConnection, ServerTypes, ThreadsSound
<1>2. CASE g \notin DOMAIN _connections
  <2>1. UNCHANGED <<_connections, closing>>
    BY <1>2 DEF removeConnection
  <2>2. SocketTypes' /\ SocketsKept
    BY <1>1, NoConnection
  <2>3. Types' /\ JoinsOn /\ TakesNone
    BY <1>1, <2>1, <2>2 DEF Types, ServerTypes, ThreadTypes, JoinsOn, TakesNone
  <2>4. ThreadsSound'
    BY <1>1, <2>1 DEF ThreadsSound
  <2> QED BY <1>1, <2>1, <2>2, <2>3, <2>4, NothingMoves
<1>3. CASE g \in DOMAIN _connections
  <2>1. /\ _connections' = [f \in DOMAIN _connections \ {g} |-> _connections[f]]
        /\ closing' = [closing EXCEPT !["disc"] = [pc |-> "close", c |-> c]]
    BY <1>3 DEF removeConnection
  <2>2. c \in Conns
    BY <1>3 DEF ServerTypes
  <2>3. /\ "acc" \in Executors /\ "disc" \in Executors
        /\ closing' \in ClosingType /\ closing'["disc"].c = c /\ closing'["disc"].pc = "close"
        /\ \A d \in Executors : d # "disc" => closing'[d] = closing[d]
    BY <2>1, <2>2, ClosingTaken DEF Executors
  <2>4. /\ \A e \in Executors : ~Drops(e, c)
        /\ acc.pc = "insert" => c # acc.c
        /\ main.pc # "clear"
        /\ ~(c > acc.c)
        /\ \A f \in DOMAIN _connections : f # g => _connections[f] # c
    <3>1. DOMAIN _connections # {}
      BY <1>3
    <3>2. _connections # <<>>
      BY <3>1
    <3> QED BY <1>3, <2>2, <3>2 DEF OneHolder, FreshSound, MapValid
  <2> HIDE DEF c, g
  <2>5. /\ DOMAIN _connections' = DOMAIN _connections \ {g}
        /\ \A f \in DOMAIN _connections' : _connections'[f] = _connections[f] /\ _connections[f] \in Conns
                                           /\ _connections[f] # c /\ f \in DOMAIN _connections
        /\ _connections' \in [DOMAIN _connections' -> Conns]
    BY <2>1, <2>4 DEF ServerTypes
  <2>6. SocketTypes' /\ ServerTypes' /\ ThreadTypes'
    BY <1>1, <2>2, <2>3, <2>5 DEF SocketTypes, ServerTypes, ThreadTypes, ClosingType
  <2>7. MapValid' /\ SocketsSound'
    BY <1>1, <2>3, <2>5, SocketsStay DEF MapValid
  <2>8. OneDrops' /\ \A e \in Executors, d \in Conns : Drops(e, d)' => Drops(e, d) \/ d = c
    BY <2>2, <2>3, <2>4, TakenOnce
  <2>9. \A d \in Conns : ~Left(d)'
    BY <1>1, <2>4 DEF Left
  <2>10. FreshSound'
    BY <1>1, <2>4, <2>5, <2>8, <2>9 DEF FreshSound
  <2>11. OneHolder'
    <3>1. (\A f \in DOMAIN _connections, e \in Executors : ~Drops(e, _connections[f]))'
      BY <2>5, <2>8 DEF OneHolder
    <3>2. (\A f \in DOMAIN _connections : acc.pc = "insert" => _connections[f] # acc.c)'
      BY <1>1, <2>5 DEF OneHolder
    <3>3. (\A e \in Executors : acc.pc = "insert" => ~Drops(e, acc.c))'
      BY <1>1, <2>4, <2>8 DEF OneHolder, ServerTypes
    <3> QED BY <1>1, <2>4, <2>8, <2>9, <3>1, <3>2, <3>3 DEF OneHolder, OneDrops
  <2>12. ThreadsSound'
    BY <1>1, <2>3 DEF ThreadsSound
  <2> QED BY <2>6, <2>7, <2>10, <2>11, <2>12
<1> QED BY <1>2, <1>3

\* stop() empties the map and keeps what was in it, to be destroyed.
LEMMA EmptyKeeps ==
  ASSUME BusInv, stopJoinDisconnected
  PROVE  BusInv'
<1> USE DEF BusInv
<1>1. /\ main.pc = "joinDisc" /\ main.isDone /\ _connections' = <<>>
      /\ UNCHANGED <<conns, owner, thr, acc, disc, closing>>
  BY DEF stopJoinDisconnected, ThreadsSound
<1>2. /\ main' \in [pc : {"idle", "all", "joinAcc", "joinDisc", "clear"}, todo : SUBSET Conns,
                    isDone : BOOLEAN]
      /\ main'.pc = "clear" /\ main'.isDone /\ main'.todo = Range(_connections)
  <2>1. Range(_connections) \subseteq Conns
    BY DEF ServerTypes, Range
  <2>2. main' = [main EXCEPT !.pc = "clear", !.todo = Range(_connections)]
    BY DEF stopJoinDisconnected
  <2> QED BY <1>1, <2>1, <2>2 DEF ServerTypes
<1>3. queue' \in [ids : Seq(Fds \cup {NoFd}), stopped : BOOLEAN]
  <2>1. PICK q \in Seq(Fds \cup {NoFd}) : queue' = [queue EXCEPT !.ids = q]
    <3>1. <<>> \in Seq(Fds \cup {NoFd}) /\ queue' = [queue EXCEPT !.ids = <<>>]
      BY DEF stopJoinDisconnected
    <3> QED BY <3>1
  <2> QED BY <2>1 DEF ServerTypes
<1>4. DOMAIN _connections' = {} /\ _connections' \in [DOMAIN _connections' -> Conns]
  BY <1>1
<1>5. SocketTypes' /\ ServerTypes' /\ ThreadTypes'
  BY <1>1, <1>2, <1>3, <1>4 DEF SocketTypes, ServerTypes, ThreadTypes
<1>6. MapValid' /\ SocketsSound'
  BY <1>1, <1>4 DEF MapValid, SocketsSound
<1>7. \A c \in Conns : Left(c)' => \E f \in DOMAIN _connections : _connections[f] = c
  BY <1>2 DEF Left, Range
<1>8. \A e \in Executors, c \in Conns : Drops(e, c)' <=> Drops(e, c)
  BY <1>1 DEF Drops
<1>9. FreshSound'
  BY <1>1, <1>4, <1>7, <1>8 DEF FreshSound
<1>10. OneHolder'
  <2>1. OneDrops' /\ (\A e \in Executors : acc.pc = "insert" => ~Drops(e, acc.c))'
    BY <1>1 DEF OneHolder, OneDrops, Drops
  <2>2. \A c \in Conns : Left(c)' => (\A e \in Executors : ~Drops(e, c)') /\ (acc'.pc = "insert" => c # acc'.c)
    BY <1>1, <1>7, <1>8 DEF OneHolder
  <2> QED BY <1>1, <1>4, <2>1, <2>2 DEF OneHolder, OneDrops
<1>11. ThreadsSound'
  BY <1>1, <1>2 DEF ThreadsSound
<1> QED BY <1>5, <1>6, <1>9, <1>10, <1>11

\* stop() destroys what was left, one connection after the other.
LEMMA ClearKeeps ==
  ASSUME BusInv, stopClear
  PROVE  BusInv'
<1> USE DEF BusInv
<1>1. /\ main.pc = "clear" /\ closing["main"].pc = "none"
      /\ UNCHANGED <<conns, owner, _connections, queue, thr, acc, disc>>
  BY DEF stopClear
<1>2. CASE main' = [main EXCEPT !.pc = "idle"] /\ closing' = closing
  <2>1. /\ main' \in [pc : {"idle", "all", "joinAcc", "joinDisc", "clear"}, todo : SUBSET Conns,
                      isDone : BOOLEAN]
        /\ main'.pc = "idle" /\ main'.isDone = main.isDone
    BY <1>2 DEF ServerTypes
  <2>2. SocketTypes' /\ SocketsKept
    BY <1>1, NoConnection
  <2>3. Types' /\ JoinsOn /\ TakesNone
    BY <1>1, <1>2, <2>1, <2>2 DEF Types, ServerTypes, ThreadTypes, JoinsOn, TakesNone
  <2>4. ThreadsSound'
    BY <1>1, <1>2, <2>1 DEF ThreadsSound
  <2> QED BY <1>1, <1>2, <2>2, <2>3, <2>4, NothingMoves
<1>3. CASE \E c \in main.todo : /\ closing' = [closing EXCEPT !["main"] = [pc |-> "close", c |-> c]]
                                /\ main' = [main EXCEPT !.todo = @ \ {c}]
  <2>1. PICK c \in main.todo : /\ closing' = [closing EXCEPT !["main"] = [pc |-> "close", c |-> c]]
                               /\ main' = [main EXCEPT !.todo = main.todo \ {c}]
    BY <1>3
  <2>2. c \in Conns /\ Left(c)
    BY <1>1 DEF ServerTypes, Left
  <2>3. /\ main' \in [pc : {"idle", "all", "joinAcc", "joinDisc", "clear"}, todo : SUBSET Conns,
                      isDone : BOOLEAN]
        /\ main'.pc = "clear" /\ main'.isDone = main.isDone /\ main'.todo = main.todo \ {c}
    <3> DEFINE S == main.todo \ {c}
    <3>1. main' = [main EXCEPT !.todo = S] /\ S \in SUBSET Conns
      BY <2>1 DEF ServerTypes
    <3>2. main'.todo = S
      BY <3>1 DEF ServerTypes
    <3> HIDE DEF S
    <3>3. main' \in [pc : {"idle", "all", "joinAcc", "joinDisc", "clear"}, todo : SUBSET Conns,
                     isDone : BOOLEAN]
          /\ main'.pc = "clear" /\ main'.isDone = main.isDone
      BY <1>1, <3>1 DEF ServerTypes
    <3> QED BY <3>2, <3>3 DEF S
  <2>4. /\ {"acc", "disc", "main"} \subseteq Executors
        /\ closing' \in ClosingType /\ closing'["main"].c = c /\ closing'["main"].pc = "close"
        /\ \A d \in Executors : d # "main" => closing'[d] = closing[d]
    BY <2>1, <2>2, ClosingTaken DEF Executors
  <2>5. /\ \A e \in Executors : ~Drops(e, c)
        /\ acc.pc = "insert" => c # acc.c
        /\ ~(c > acc.c)
        /\ _connections = <<>> /\ DOMAIN _connections = {}
    BY <1>1, <2>2 DEF OneHolder, FreshSound
  <2>6. SocketTypes' /\ ServerTypes' /\ ThreadTypes'
    BY <1>1, <2>2, <2>3, <2>4 DEF SocketTypes, ServerTypes, ThreadTypes, ClosingType
  <2>7. MapValid' /\ SocketsSound'
    BY <1>1, <2>4, <2>5, SocketsStay DEF MapValid
  <2>8. OneDrops' /\ \A e \in Executors, d \in Conns : Drops(e, d)' => Drops(e, d) \/ d = c
    BY <2>2, <2>4, <2>5, TakenOnce
  <2>9. \A d \in Conns : Left(d)' => Left(d) /\ d # c
    BY <1>1, <2>3 DEF Left
  <2>10. FreshSound'
    BY <1>1, <2>5, <2>8, <2>9 DEF FreshSound
  <2>11. OneHolder'
    <3>1. (\A e \in Executors : acc.pc = "insert" => ~Drops(e, acc.c))'
      BY <1>1, <2>5, <2>8 DEF OneHolder, ServerTypes
    <3>2. \A d \in Conns : Left(d)' => (\A e \in Executors : ~Drops(e, d)') /\ (acc'.pc = "insert" => d # acc'.c)
      BY <1>1, <2>8, <2>9 DEF OneHolder
    <3> QED BY <1>1, <2>5, <2>8, <3>1, <3>2 DEF OneHolder, OneDrops
  <2>12. ThreadsSound'
    BY <1>1, <2>3, <2>4 DEF ThreadsSound
  <2> QED BY <2>6, <2>7, <2>10, <2>11, <2>12
<1> QED BY <1>2, <1>3 DEF stopClear

--------------------------------------------------------------------------------
(***************************************************************************)
(* The theorems.                                                           *)
(***************************************************************************)

\* At the start there are no connections.
LEMMA InitBus == Init => BusInv
<1> SUFFICES ASSUME Init PROVE BusInv
  OBVIOUS
<1>1. SocketTypes
  BY DEF Init, SocketTypes, Connection, NoFd
<1>2. ThreadTypes
  BY DEF Init, ThreadTypes, Thread
<1>3. _connections = <<>> /\ DOMAIN _connections = {}
  BY DEF Init
<1>4. \A e \in Executors : closing[e] = [pc |-> "none", c |-> 0]
  BY DEF Init
<1>5. ServerTypes
  <2>1. closing \in ClosingType
    BY DEF Init, ClosingType
  <2>2. <<>> \in Seq(Fds \cup {NoFd})
    OBVIOUS
  <2> QED BY <1>3, <1>4, <2>1, <2>2 DEF Init, ServerTypes, ClosingType
<1>6. MapValid
  BY <1>3 DEF MapValid
<1>7. SocketsSound
  BY <1>4 DEF Init, SocketsSound, NoFd
<1>8. FreshSound
  BY <1>3, <1>4 DEF Init, FreshSound, Drops, Left
<1>9. OneHolder
  BY <1>3, <1>4 DEF Init, OneHolder, Drops, Left
<1>10. ThreadsSound
  BY <1>4 DEF Init, ThreadsSound, Executors
<1> QED BY <1>1, <1>2, <1>5, <1>6, <1>7, <1>8, <1>9, <1>10 DEF BusInv

\* Every step of every thread keeps the invariant.
LEMMA BusStep == BusInv /\ [Next]_vars => BusInv'
<1> SUFFICES ASSUME BusInv, [Next]_vars PROVE BusInv'
  OBVIOUS
<1>1. CASE UNCHANGED vars
  <2>1. SocketsKept /\ SocketTypes' /\ ThreadTypes'
    BY <1>1, NoConnection DEF BusInv, ThreadTypes, vars
  <2> QED BY <1>1, <2>1, ServerStays DEF vars
<1>2. CASE \E t \in Threads : onConnectionError(t)
  BY <1>2, ErrorKeeps
<1>3. CASE \E c \in Conns : \/ threadMainRecv(c) \/ recvClosed(c) \/ onTimeout(c) \/ process(c)
                            \/ sendToConnection(c) \/ threadMainSend(c)
                            \/ PeerSends(c) \/ PeerCloses(c)
  BY <1>3, ConnectionThreadsKeep
<1>4. CASE \E e \in Executors : ConnectionStop(e)
  BY <1>4, CloseKeeps, UnsetKeeps, JoinsKeep DEF ConnectionStop
<1>5. CASE run
  BY <1>5, AcceptKeeps, InsertKeeps, ServerThreadsKeep DEF run
<1>6. CASE discRead \/ doOnConnectionError
  BY <1>6, ServerThreadsKeep, RemoveKeeps DEF doOnConnectionError
<1>7. CASE sendToAll
  BY <1>7, SendToAllKeeps
<1>8. CASE stop
  BY <1>8, ServerThreadsKeep, EmptyKeeps, ClearKeeps DEF stop
<1> QED BY <1>1, <1>2, <1>3, <1>4, <1>5, <1>6, <1>7, <1>8 DEF Next

\* However the threads of the server, of its connections and of its owner interleave,
\* with any number of connections and of descriptors, the invariant BusInv holds.
THEOREM BusInvariant == Spec => []BusInv
BY InitBus, BusStep, PTL DEF Spec

\* A descriptor in TcpIpServer::_connections always belongs, in the kernel as well, to
\* the connection the map gives for it, although the kernel hands a descriptor out
\* again as soon as it is closed, by whichever of the three threads closes it.
THEOREM MapAlwaysValid == Spec => []MapValid
<1>1. BusInv => MapValid
  BY DEF BusInv
<1> QED BY <1>1, BusInvariant, PTL

\* The close() in TcpIpServerConnection::stop() is only ever of the connection's own
\* descriptor, never of one that was handed out again: no other thread has closed it,
\* although the disconnected thread, the accept thread and stop() all close connections.
ClosesOwnSocket ==
  \A e \in Executors :
    closing[e].pc = "close" /\ conns[closing[e].c].sock # NoFd
      => owner[conns[closing[e].c].sock] = closing[e].c

\* ClosesOwnSocket holds at every step of the bus.
THEOREM ClosesOwn == Spec => []ClosesOwnSocket
<1>1. BusInv => ClosesOwnSocket
  BY OwnSocket DEF ClosesOwnSocket
<1> QED BY <1>1, BusInvariant, PTL
================================================================================
