------------------------------- MODULE Bridge -------------------------------
(***************************************************************************)
(* The order routing bridge (channel_or_cme_bridge): RouteManagerCME with  *)
(* a FIX session per client (RouteClientCME) and per route to the exchange *)
(* (CmeRoute).  A new order goes to the next route; the bridge gives every *)
(* request an id of its own, remembers both ids with the order they belong *)
(* to, and translates the answers back.                                    *)
(*                                                                         *)
(* An id is <<"c", o, k>> for the client's k-th request on order o,        *)
(* <<"b", o, k>> for the bridge's and <<"x", o, 0>> for the exchange's     *)
(* OrderID.  A client's message sequence number is written as the ClOrdID  *)
(* of the message that has it.  Prices, quantities and partial fills (which *)
(* change none of the tables) are left out.                                *)
(***************************************************************************)
EXTENDS Naturals, Sequences, SequencesExt, FiniteSets

CONSTANTS
    Clients, Orders, Routes,    \* Routes == 1..n, in the order of _routeSessions
    ClientOf,                   \* the client of each order
    Configs,                    \* how many of the routes are configured; how often each
                                \* order is modified or cancelled, if it is sent at all
    MaxDrops,                   \* times a session is lost
    MaxRejs                     \* messages the exchange's sessions reject

ASSUME BridgeAssumption ==
    /\ ClientOf \in [Orders -> Clients]
    /\ Routes # {} /\ Routes = 1..Cardinality(Routes)
    /\ \A f \in Configs : /\ f.routes \in Routes /\ DOMAIN f.reqs \subseteq Orders
                           /\ \A o \in DOMAIN f.reqs : f.reqs[o] \in Nat
    /\ MaxDrops \in Nat /\ MaxRejs \in Nat

VARIABLES
    conf,       \* the configuration
    up,         \* routes that are logged on
    cup,        \* clients that are connected
    nextRoute,  \* _lastRouteSessionUsed
    routeInfos, \* RouteClientCME::_routeSessionInfos of each client: id -> route
    seqInfos,   \* CmeRoute::_seqIdSessionInfos of each route: id -> [o, seq]
    info,       \* OrderCmeBridgeInfo of each order
    inb,        \* per route, the reply its session thread has sent but not yet booked
    toEx, toBr, \* messages between the bridge and the exchange, per route
    toCl,       \* messages to each client
    ex,         \* the orders at the exchange
    cl,         \* the clients' view of their orders
    leaving,    \* RouteManagerCME::onStateChange of a client that went: the routes still to
                \* do, the one it is at and the orders listed there and not yet cancelled
    hist        \* drops, rejects; orders with a lost request, with a request rejected at session
                \* level, whose last cancel went out without an OrderID; routes that were down
                \* when a client was lost

vars == <<conf, up, cup, nextRoute, routeInfos, seqInfos, info, inb, toEx, toBr, toCl, ex, cl,
          leaving, hist>>

NoId == <<>>
NoInfo == [corr |-> NoId, corrB |-> NoId, orig |-> NoId, origB |-> NoId,
           ids |-> <<>>, orderID |-> NoId, n |-> 0]

Update(f, d, v) == [x \in DOMAIN f \cup d |-> IF x \in d THEN v ELSE f[x]]
Without(f, d) == [x \in DOMAIN f \ d |-> f[x]]

Terminal == {"NewRej", "Fill", "CxlAck"}

(***************************************************************************)
(* CmeRoute: requests.  Each is one step: what is translated and recorded  *)
(* under the lock is sent right after it, and nothing can be said of the   *)
(* new ids before they are sent.                                           *)
(***************************************************************************)
addSeqIdSessionInfo(r, o, id, b) ==
    [seqInfos EXCEPT ![r] = Update(@, {id, b}, [o |-> o, seq |-> id])]

translateNew(o, id, b) ==
    [NoInfo EXCEPT !.corr = id, !.corrB = b, !.orig = id, !.origB = b, !.n = 1]

routeSendNew(r, o, id) ==
    LET b == <<"b", o, 0>>
    IN /\ info' = [info EXCEPT ![o] = translateNew(o, id, b)]
       /\ seqInfos' = addSeqIdSessionInfo(r, o, id, b)
       /\ toEx' = [toEx EXCEPT ![r] = Append(@, [t |-> "New", id |-> b, orig |-> NoId, orderID |-> NoId, o |-> o])]

\* translateMod, translateCxl: both ids of the request are noted with the order.
translateChange(o, id, b) == [info EXCEPT ![o].ids = Update(@, {b}, id), ![o].n = @ + 1]

\* sendMod, sendCxl: o is the order that the client's OrigClOrdID is recorded for.
routeSendChange(r, t, o, id) ==
    LET b == <<"b", o, info[o].n>>
    IN /\ info' = translateChange(o, id, b)
       /\ seqInfos' = addSeqIdSessionInfo(r, o, id, b)
       /\ toEx' = [toEx EXCEPT ![r] = Append(@,
              [t |-> t, id |-> b, orig |-> info[o].origB, orderID |-> cl[o].orderID, o |-> o])]

(***************************************************************************)
(* RouteManagerCME::onInboundApplicationMsg and RouteClientCME.            *)
(***************************************************************************)
sendRej(c, id) ==
    /\ toCl' = [toCl EXCEPT ![c] = Append(@, [t |-> "Rej", ref |-> id])]
    /\ UNCHANGED <<seqInfos, info, toEx>>

\* getNextRouteSession: round robin over all routes, logged on or not.
getNextRouteSession == IF nextRoute >= conf.routes THEN 1 ELSE nextRoute + 1

\* The route is recorded before the order is sent, and stays recorded when the
\* route turns out to be down.
sendNew(o) ==
    LET c == ClientOf[o]  id == <<"c", o, 0>>  r == getNextRouteSession
    IN /\ o \in DOMAIN conf.reqs /\ c \in cup /\ cl[o].st = "idle"
       /\ nextRoute' = r
       /\ routeInfos' = [routeInfos EXCEPT ![c] = Update(@, {id}, r)]
       /\ cl' = [cl EXCEPT ![o].st = "pending"]
       /\ IF r \notin up THEN sendRej(c, id)
          ELSE routeSendNew(r, o, id) /\ toCl' = toCl
       /\ UNCHANGED <<conf, up, cup, inb, toBr, ex, leaving, hist>>

\* sendMod and sendCxl find the route by the OrderID, and the order on it by the
\* OrigClOrdID; a client changes an order once it has its OrderID.
sendChange(o, t) ==
    LET c == ClientOf[o]  id == <<"c", o, cl[o].reqs + 1>>
        known == cl[o].orderID \in DOMAIN routeInfos[c]
        r == routeInfos[c][cl[o].orderID]
    IN /\ c \in cup /\ cl[o].st = "working" /\ cl[o].reqs < conf.reqs[o]
       /\ cl' = [cl EXCEPT ![o].reqs = @ + 1]
       /\ IF known /\ r \in up /\ cl[o].cur \in DOMAIN seqInfos[r]
          THEN routeSendChange(r, t, seqInfos[r][cl[o].cur].o, id) /\ toCl' = toCl
          ELSE sendRej(c, id)
       /\ UNCHANGED <<conf, up, cup, nextRoute, routeInfos, inb, toBr, ex, leaving, hist>>

sendMod(o) == sendChange(o, "Mod")
sendCxl(o) == sendChange(o, "Cxl")

(***************************************************************************)
(* CmeRoute: answers of the exchange.                                      *)
(***************************************************************************)
\* getSeqIdSessionInfoForMsg: by OrigClOrdID, or else by ClOrdID.
Entry(r, m) == IF m.orig \in DOMAIN seqInfos[r] THEN {seqInfos[r][m.orig]}
               ELSE IF m.id \in DOMAIN seqInfos[r] THEN {seqInfos[r][m.id]} ELSE {}

IdsOf(o) == {info[o].corr, info[o].corrB} \cup DOMAIN info[o].ids
            \cup {info[o].ids[b] : b \in DOMAIN info[o].ids}

removeOrderCmeBridgeInfo(r, o) == [seqInfos EXCEPT ![r] = Without(@, IdsOf(o))]

\* What translateInboundApplicationMsg keeps of the answer.
\* MUTANT: the ids in force stay those of the first request.
Noted_OrigKept(o, m) ==
    CASE m.t = "NewAck" -> [info EXCEPT ![o].orderID = m.orderID]
      [] OTHER -> info

Noted(o, m) ==
    CASE m.t = "NewAck" -> [info EXCEPT ![o].orderID = m.orderID]
      [] m.t = "ModAck" ->
            IF m.id \in DOMAIN info[o].ids
            THEN [info EXCEPT ![o].origB = m.id, ![o].orig = info[o].ids[m.id]]
            ELSE [info EXCEPT ![o].origB = info[o].corrB, ![o].orig = info[o].corr]
      [] OTHER -> info

\* ... and the message it makes for the client.
Translated(o, m) ==
    [t |-> m.t, orderID |-> m.orderID, corr |-> info[o].corr,
     id |-> IF m.id \in DOMAIN info[o].ids THEN info[o].ids[m.id] ELSE info[o].corr,
     orig |-> Noted(o, m)[o].orig]

\* The session thread of a route hands the translated message to the client's
\* session and only then books the OrderID (see booked).
onInboundApplicationMsg(r) ==
    LET m == Head(toBr[r])  found == Entry(r, m)
    IN /\ r \in up /\ inb[r] = <<>> /\ toBr[r] # <<>> /\ m.t # "Rej"
       /\ toBr' = [toBr EXCEPT ![r] = Tail(@)]
       /\ IF found = {} THEN UNCHANGED <<seqInfos, info, inb, toCl>>
          ELSE \E e \in found :
                 LET c == ClientOf[e.o]  reply == Translated(e.o, m)
                 IN /\ seqInfos' = IF m.t \in Terminal THEN removeOrderCmeBridgeInfo(r, e.o) ELSE seqInfos
                    /\ info' = Noted(e.o, m)
                    /\ toCl' = [toCl EXCEPT ![c] = Append(@, reply)]
                    /\ inb' = [inb EXCEPT ![r] = <<[c |-> c, m |-> reply]>>]
       /\ UNCHANGED <<conf, up, cup, nextRoute, routeInfos, toEx, ex, cl, leaving, hist>>

\* A reject of the exchange's session names one of the bridge's messages.  The
\* number passed on is that of the entry found, which for a modify or a cancel
\* is the entry of its OrigClOrdID.
onInboundSessionMsg(r) ==
    LET m == Head(toBr[r])  found == Entry(r, m.req)
    IN /\ r \in up /\ inb[r] = <<>> /\ toBr[r] # <<>> /\ m.t = "Rej"
       /\ toBr' = [toBr EXCEPT ![r] = Tail(@)]
       /\ IF found = {} THEN UNCHANGED <<seqInfos, toCl>>
          ELSE \E e \in found :
                 /\ seqInfos' = IF m.req.t = "New" THEN removeOrderCmeBridgeInfo(r, e.o) ELSE seqInfos
                 /\ toCl' = [toCl EXCEPT ![ClientOf[e.o]] = Append(@, [t |-> "Rej", ref |-> e.seq])]
       /\ UNCHANGED <<conf, up, cup, nextRoute, routeInfos, info, inb, toEx, ex, cl, leaving, hist>>

\* The second half of RouteClientCME::onReply: a terminal answer takes the
\* order's ids out, any other adds its OrderID if it is new.
booked(r) ==
    LET c == inb[r][1].c  m == inb[r][1].m
    IN /\ inb[r] # <<>>
       /\ inb' = [inb EXCEPT ![r] = <<>>]
       /\ routeInfos' = [routeInfos EXCEPT ![c] =
              IF m.t \in Terminal THEN Without(@, {m.corr, m.orderID})
              ELSE IF m.orderID \in DOMAIN @ \/ m.id \notin DOMAIN @ THEN @
              ELSE Update(@, {m.orderID}, @[m.id])]
       /\ UNCHANGED <<conf, up, cup, nextRoute, seqInfos, info, toEx, toBr, toCl, ex, cl, leaving, hist>>

(***************************************************************************)
(* Sessions that are lost.                                                 *)
(***************************************************************************)
Drop == hist.drops < MaxDrops

\* The orders to cancel on one route: one for every id recorded for the client,
\* though an order has at least two.
\* MUTANT: only orders whose OrderID is known are cancelled.
ordersOf_AckedOnly(r, c) ==
    LET ks == {k \in DOMAIN seqInfos[r] : /\ ClientOf[seqInfos[r][k].o] = c
                                          /\ info[seqInfos[r][k].o].orderID # NoId}
    IN [i \in 1..Cardinality(ks) |-> seqInfos[r][SetToSeq(ks)[i]].o]

ordersOf(r, c) ==
    LET ks == {k \in DOMAIN seqInfos[r] : ClientOf[seqInfos[r][k].o] = c}
    IN [i \in 1..Cardinality(ks) |-> seqInfos[r][SetToSeq(ks)[i]].o]

Done == [routes |-> <<>>, at |-> 0, orders |-> <<>>]

\* RouteManagerCME::onStateChange: a disconnected client's orders are cancelled,
\* route by route.
onStateChangeClient(c) ==
    /\ c \in cup /\ Drop
    /\ cup' = cup \ {c}
    /\ leaving' = [leaving EXCEPT ![c].routes = [r \in 1..conf.routes |-> r]]
    /\ hist' = [hist EXCEPT !.drops = @ + 1, !.skipped[c] = {}]
    /\ UNCHANGED <<conf, up, nextRoute, routeInfos, seqInfos, info, inb, toEx, toBr, toCl, ex, cl>>

\* sendCxlAll on the next route: it is skipped when it is down; what is recorded
\* for the client is listed under the lock.
sendCxlAll(c) ==
    LET l == leaving[c]  r == Head(l.routes)
    IN /\ l.routes # <<>> /\ l.orders = <<>>
       /\ leaving' = [leaving EXCEPT ![c] =
              [routes |-> Tail(l.routes), at |-> r, orders |-> IF r \in up THEN ordersOf(r, c) ELSE <<>>]]
       /\ hist' = IF r \in up THEN hist ELSE [hist EXCEPT !.skipped[c] = @ \cup {r}]
       /\ UNCHANGED <<conf, up, cup, nextRoute, routeInfos, seqInfos, info, inb, toEx, toBr, toCl, ex, cl>>

\* The cancel of one order of the list, made under the lock taken again: it has
\* the OrderID the bridge knows by then, none before the order's acknowledgement.
translateCxl(c) ==
    LET l == leaving[c]  o == Head(l.orders)  b == <<"b", o, info[o].n>>
    IN /\ l.orders # <<>>
       /\ leaving' = [leaving EXCEPT ![c].orders = Tail(@)]
       /\ info' = translateChange(o, b, b)
       /\ toEx' = [toEx EXCEPT ![l.at] = Append(@,
              [t |-> "Cxl", id |-> b, orig |-> info[o].origB, orderID |-> info[o].orderID, o |-> o])]
       /\ hist' = [hist EXCEPT !.unknown = IF info[o].orderID = NoId THEN @ \cup {o} ELSE @ \ {o}]
       /\ UNCHANGED <<conf, up, cup, nextRoute, routeInfos, seqInfos, inb, toBr, toCl, ex, cl>>

clientReconnects(c) ==
    /\ c \notin cup /\ leaving[c].routes = <<>> /\ leaving[c].orders = <<>>
    /\ cup' = cup \cup {c}
    /\ UNCHANGED <<conf, up, nextRoute, routeInfos, seqInfos, info, inb, toEx, toBr, toCl, ex, cl,
                   leaving, hist>>

\* Of what was on its way, only cancels are sent again (shouldSend); what the
\* exchange sent is resent by its session.
routeDown(r) ==
    /\ r \in up /\ Drop
    /\ up' = up \ {r}
    /\ toEx' = [toEx EXCEPT ![r] = SelectSeq(@, LAMBDA m : m.t = "Cxl")]
    /\ hist' = [hist EXCEPT !.drops = @ + 1,
                            !.lost = @ \cup {m.o : m \in {m \in ToSet(toEx[r]) : m.t # "Cxl"}}]
    /\ UNCHANGED <<conf, cup, nextRoute, routeInfos, seqInfos, info, inb, toBr, toCl, ex, cl, leaving>>

routeUp(r) ==
    /\ r \in 1..conf.routes \ up /\ up' = up \cup {r}
    /\ UNCHANGED <<conf, cup, nextRoute, routeInfos, seqInfos, info, inb, toEx, toBr, toCl, ex, cl, leaving, hist>>

(***************************************************************************)
(* The exchange and the clients' programs.                                 *)
(***************************************************************************)
Answer(m, t) == [t |-> t, id |-> m.id, orig |-> m.orig, orderID |-> <<"x", m.o, 0>>]

\* It accepts or rejects a request, or rejects the message at session level.  A
\* cancel without an OrderID it may refuse although the order is live: the
\* repository's simulator finds orders by their OrderID.
exchangeTakes(r) ==
    LET m == Head(toEx[r])  live == ex[m.o].st = "live"
        answers == CASE m.t = "New" -> {"NewAck", "NewRej"}
                     [] m.t = "Mod" -> {"ModRej"} \cup (IF live THEN {"ModAck"} ELSE {})
                     [] m.t = "Cxl" -> (IF live THEN {"CxlAck"} ELSE {})
                                      \cup (IF live /\ m.orderID # NoId THEN {} ELSE {"CxlRej"})
    IN /\ r \in up /\ toEx[r] # <<>>
       /\ toEx' = [toEx EXCEPT ![r] = Tail(@)]
       /\ \/ \E t \in answers :
               /\ toBr' = [toBr EXCEPT ![r] = Append(@, Answer(m, t))]
               /\ ex' = CASE t = "NewAck" -> [ex EXCEPT ![m.o] = [st |-> "live", cur |-> m.id, route |-> r]]
                          [] t = "ModAck" -> [ex EXCEPT ![m.o].cur = m.id]
                          [] t = "CxlAck" -> [ex EXCEPT ![m.o].st = "done"]
                          [] OTHER -> ex
               /\ hist' = hist
          \/ /\ hist.rejs < MaxRejs
             /\ toBr' = [toBr EXCEPT ![r] = Append(@, [t |-> "Rej", req |-> m])]
             /\ hist' = [hist EXCEPT !.rejs = @ + 1,
                                     !.misread = IF m.t = "New" THEN @ ELSE @ \cup {m.o}]
             /\ ex' = ex
       /\ UNCHANGED <<conf, up, cup, nextRoute, routeInfos, seqInfos, info, inb, toCl, cl, leaving>>

exchangeFills(o) ==
    LET r == ex[o].route
    IN /\ ex[o].st = "live" /\ r \in up
       /\ ex' = [ex EXCEPT ![o].st = "done"]
       /\ toBr' = [toBr EXCEPT ![r] = Append(@, Answer([id |-> ex[o].cur, orig |-> NoId, o |-> o], "Fill"))]
       /\ UNCHANGED <<conf, up, cup, nextRoute, routeInfos, seqInfos, info, inb, toEx, toCl, cl, leaving, hist>>

\* A reject is turned into an answer to the message it names: for a new order
\* that is the end of it, for a change the order stays as it was.
processReject(o, m) == IF m.ref[3] = 0 THEN [cl[o] EXCEPT !.st = "done"] ELSE cl[o]

clientReceives(c) ==
    LET m == Head(toCl[c])  o == IF m.t = "Rej" THEN m.ref[2] ELSE m.corr[2]
    IN /\ c \in cup /\ toCl[c] # <<>>
       /\ toCl' = [toCl EXCEPT ![c] = Tail(@)]
       /\ cl' = [cl EXCEPT ![o] =
              CASE cl[o].st = "done" -> @
                [] m.t = "Rej" -> processReject(o, m)
                [] m.t = "NewAck" -> [@ EXCEPT !.st = "working", !.cur = m.id, !.orderID = m.orderID]
                [] m.t = "ModAck" -> [@ EXCEPT !.cur = m.id]
                [] m.t \in Terminal -> [@ EXCEPT !.st = "done"]
                [] OTHER -> @]
       /\ UNCHANGED <<conf, up, cup, nextRoute, routeInfos, seqInfos, info, inb, toEx, toBr, ex, leaving, hist>>

Init ==
    /\ conf \in Configs
    /\ up \in SUBSET (1..conf.routes)
    /\ cup = Clients
    /\ nextRoute = 0
    /\ routeInfos = [c \in Clients |-> <<>>]
    /\ seqInfos = [r \in Routes |-> <<>>]
    /\ info = [o \in Orders |-> NoInfo]
    /\ inb = [r \in Routes |-> <<>>]
    /\ toEx = [r \in Routes |-> <<>>]
    /\ toBr = [r \in Routes |-> <<>>]
    /\ toCl = [c \in Clients |-> <<>>]
    /\ ex = [o \in Orders |-> [st |-> "none", cur |-> NoId, route |-> 0]]
    /\ cl = [o \in Orders |-> [st |-> "idle", cur |-> NoId, orderID |-> NoId, reqs |-> 0]]
    /\ leaving = [c \in Clients |-> Done]
    /\ hist = [drops |-> 0, rejs |-> 0, lost |-> {}, misread |-> {}, unknown |-> {},
               skipped |-> [c \in Clients |-> {}]]

Next ==
    \/ \E o \in Orders : sendNew(o) \/ sendMod(o) \/ sendCxl(o) \/ exchangeFills(o)
    \/ \E r \in Routes : \/ onInboundApplicationMsg(r) \/ onInboundSessionMsg(r) \/ booked(r)
                         \/ exchangeTakes(r) \/ routeDown(r) \/ routeUp(r)
    \/ \E c \in Clients : \/ clientReceives(c) \/ clientReconnects(c)
                          \/ onStateChangeClient(c) \/ sendCxlAll(c) \/ translateCxl(c)

Spec == Init /\ [][Next]_vars

(***************************************************************************)
(* Properties.                                                             *)
(***************************************************************************)
Quiet ==
    /\ \A r \in Routes : toEx[r] = <<>> /\ toBr[r] = <<>> /\ inb[r] = <<>>
    /\ \A c \in cup : toCl[c] = <<>>
    /\ \A c \in Clients : leaving[c].routes = <<>> /\ leaving[c].orders = <<>>

\* When nothing is on its way, a connected client and the exchange agree on
\* which of its orders are live and under which id: no answer was dropped, sent
\* to another client or translated to a wrong id.  Left out are orders with a
\* request lost with a route's session (shouldSend() does not send it again and
\* nobody tells the client), and orders with a modify or cancel rejected at
\* session level, which the bridge reports as a reject of the new order.
Agree ==
    Quiet => \A o \in Orders \ (hist.lost \cup hist.misread) : ClientOf[o] \in cup =>
        /\ cl[o].st # "pending"
        /\ cl[o].st = "working" <=> ex[o].st = "live"
        /\ ex[o].st = "live" => info[o].origB = ex[o].cur /\ info[o].orig = cl[o].cur

\* When nothing is on its way, a route remembers the ids of exactly the orders
\* that are live on it (and of orders whose request was lost): nothing leaks,
\* and every later answer about a live order will find its client.
RoutesExact ==
    Quiet => \A r \in Routes :
        /\ \A k \in DOMAIN seqInfos[r] :
              LET o == seqInfos[r][k].o
              IN o \in hist.lost \/ (ex[o].st = "live" /\ ex[o].route = r)
        /\ \A o \in Orders : ex[o].st = "live" /\ ex[o].route = r
              => {info[o].corrB, info[o].origB} \subseteq DOMAIN seqInfos[r]

\* Once a client has gone and its cancels have been answered, none of its orders
\* is live, on any route that was logged on when its turn came: also not one
\* whose acknowledgement, whose modify or whose answer was still on its way.  Left
\* out are orders whose last cancel was made before the bridge had their OrderID,
\* which the exchange may refuse: they stay live (the channel keeps such a cancel
\* back, channel_or_onix.cpp:294; the bridge does not); and, as in Agree, orders
\* with a modify or cancel rejected at session level.
GoneCancelled ==
    Quiet => \A o \in Orders : ClientOf[o] \notin cup /\ ex[o].st = "live"
        => ex[o].route \in hist.skipped[ClientOf[o]] \/ o \in hist.misread \/ o \in hist.unknown

\* Client, bridge and exchange agree: on the live orders, their ids and their routes.
TablesAgree == Agree /\ RoutesExact
=============================================================================
