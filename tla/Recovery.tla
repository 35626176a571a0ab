------------------------------- MODULE Recovery --------------------------------
(***************************************************************************)
(* What is left of the orders when the trading process ends and starts     *)
(* again: OrderFlow's process, what it stores of its orders, fills and     *)
(* inbound FIX sequence numbers, StrategyContainer's start, which rebuilds *)
(* the open orders, and its stop, which cancels them.                      *)
(*                                                                         *)
(* ChannelOrStorage takes items from one queue and writes them in order    *)
(* (OrderStorage's StoredInOrder); a crash loses what is still queued.     *)
(* Its database does not fail here: after a failure stop() writes what is  *)
(* cached last item first (OrderStorage's StopJoinDb).                     *)
(* The exchange resends, when the session logs on again, the reports whose *)
(* sequence numbers did not reach the database.                            *)
(***************************************************************************)
EXTENDS OrderFlow, SequencesExt

CONSTANTS
  Tries,    \* sweeps of ThreadMain before it bails out
  MaxEnds,  \* bound: times the process ends
  MaxQueue  \* bound: items waiting to be written

ASSUME RecoveryAssumption == Tries \in Nat /\ MaxEnds \in Nat /\ MaxQueue \in Nat

VARIABLES
  phase,      \* "Run", "Sweep" (stop() cancels what is open) or "Down"
  clId,       \* Order::_clOrderId
  db,         \* the Orders table: an order and its two clOrdIds
  dbPos,      \* the Positions table
  queue,      \* items persisted and not yet written
  storeFirst, \* the session stores a sequence number before it calls the channel
  tries,      \* sweeps begun
  todo,       \* orders the sweep that holds the lock has yet to cancel
  swept,      \* orders the last sweep found
  ends,       \* times the process ended
  gone,       \* orders this run of the process has no pointer to
  torn,       \* history: orders a crash has separated from the exchange
  misfiled,   \* history: orders rebuilt under fewer clOrdIds than are in use
  botched     \* history: orders a failed start has tried to cancel

stored == <<clId, db, dbPos, queue>>
sweep == <<tries, todo, swept>>
run == <<ends, gone, torn, misfiled, botched>>
recoveryVars == <<vars, phase, storeFirst, stored, sweep, run>>

--------------------------------------------------------------------------------
(***************************************************************************)
(* Persisting                                                              *)
(***************************************************************************)

Image(r, orig, cl) == [rec |-> r, orig |-> orig, cl |-> cl]

\* A queued item: the image of an order, with the position of the fill that came
\* with it, or the sequence number of a report.  why says what persisted it.
OrderItem(o, why, image, dpos) ==
  [why |-> why, o |-> o, image |-> <<image>>, report |-> <<>>, dpos |-> dpos]

SeqItem(o, m) ==
  [why |-> "Seq", o |-> o, image |-> <<>>, report |-> <<m>>, dpos |-> 0]

RecoveryInit ==
  /\ Init
  /\ phase = "Run"
  /\ clId = [o \in Orders |-> NoId]
  /\ db = [o \in Orders |-> Image(ord[o], NoId, NoId)]
  /\ dbPos = 0 /\ queue = <<>>
  /\ storeFirst \in BOOLEAN
  /\ tries = 0 /\ todo = {} /\ swept = {}
  /\ ends = 0 /\ gone = {} /\ torn = {} /\ misfiled = {} /\ botched = {}

persist(items) ==
  /\ Len(queue) + Len(items) <= MaxQueue  \* bound
  /\ queue' = queue \o items
  /\ UNCHANGED <<db, dbPos>>

\* doFlushToDb: the first n items, each a REPLACE of an order's row and an
\* addition to the position.
Written(n) ==
  /\ db' = FoldLeft(LAMBDA d, i : IF i.image = <<>> THEN d
                                  ELSE [d EXCEPT ![i.o] = i.image[1]],
                    db, SubSeq(queue, 1, n))
  /\ dbPos' = FoldLeft(LAMBDA p, i : p + i.dpos, dbPos, SubSeq(queue, 1, n))

WriteItem ==
  /\ queue # <<>>
  /\ Written(1)
  /\ queue' = Tail(queue)
  /\ UNCHANGED <<vars, phase, storeFirst, clId, sweep, run>>

\* Order::_clOrderId: the translator puts the clOrdId it draws there, and
\* translateModAck the one it finds in the acknowledgement.
NewClId(o) ==
  CASE nextId'[o] # nextId[o] -> nextId[o]
    [] nextId'[o] = nextId[o] /\ picked[o] /\ Head(resp[o]).type = "ModAck" ->
         Head(resp[o]).id
    [] OTHER -> clId[o]

\* A sweep holds the container's lock until it has been through its orders.
LockFree == phase = "Run" \/ (phase = "Sweep" /\ todo = {})

\* sendNew, sendMod and sendCxl persist the order once the request has left.
Ask(o) ==
  /\ LockFree /\ o \notin gone
  /\ Strategy(o)
  /\ clId' = [clId EXCEPT ![o] = NewClId(o)]
  /\ persist(<<OrderItem(o, "Ask", Image(ord'[o], origId'[o], clId'[o]), 0)>>)
  /\ UNCHANGED <<phase, storeFirst, sweep, run>>

\* The session thread reads a report and looks its order up; storeInbound.
Read(o) ==
  /\ phase # "Down"
  /\ Receive(o)
  /\ IF storeFirst \/ ~picked'[o]
       THEN persist(<<SeqItem(o, Head(resp[o]))>>)
       ELSE UNCHANGED <<queue, db, dbPos>>
  /\ UNCHANGED <<phase, storeFirst, clId, sweep, run>>

\* The order as its handler persists it, before checkCancelOnAck.
Handled(o, m) ==
  CASE m.type = "NewAck" -> onNewAck(ord[o])
    [] m.type = "ModAck" ->
         onModAckPost(onModAck([ord[o] EXCEPT !.newPrice = m.price]))
    [] m.type = "ModRej" -> onModRejPost(onModRej(ord[o]), FALSE)
    [] OTHER -> ord'[o]

\* What onOrderResp persists: the order, with the fill if the report is one, and
\* the order again when checkCancelOnAck takes it through the chain.
HandledItems(o, m) ==
  LET r == Handled(o, m)
      cl == IF m.type = "ModAck" THEN m.id ELSE clId[o]
      delayed == m.type \in {"NewAck", "ModAck", "ModRej"} /\ r.cancelOnAck
                 /\ r.state # "Cancelling"
  IN  <<OrderItem(o, "Report", Image(r, origId'[o], cl), pos' - pos)>> \o
      IF delayed
        THEN <<OrderItem(o, "Ask", Image(ord'[o], origId'[o], clId'[o]), 0)>>
        ELSE <<>>

\* StrategyContainer::onOrderResp, and storeInbound if it has not been called.
Respond(o) ==
  LET m == Head(resp[o]) IN
  /\ LockFree
  /\ Inbound(o)
  /\ clId' = [clId EXCEPT ![o] = NewClId(o)]
  /\ persist(HandledItems(o, m) \o
             (IF storeFirst THEN <<>> ELSE <<SeqItem(o, m)>>))
  /\ UNCHANGED <<phase, storeFirst, sweep, run>>

--------------------------------------------------------------------------------
(***************************************************************************)
(* Stopping                                                                *)
(***************************************************************************)

\* StrategyContainer::stop: the timers and the strategies stop, the sweeps start.
Stop ==
  /\ phase = "Run" /\ ends < MaxEnds
  /\ phase' = "Sweep" /\ tries' = 0 /\ todo' = {} /\ swept' = {}
  /\ UNCHANGED <<vars, storeFirst, stored, run>>

OpenOrders == {o \in Orders : ord[o].inTable}

Sweep_SkipsModifying ==
  /\ phase = "Sweep" /\ todo = {}
  /\ tries < Tries /\ OpenOrders # {}
  /\ tries' = tries + 1 /\ swept' = OpenOrders
  /\ todo' = {o \in OpenOrders : ord[o].state # "Modifying"}
  /\ UNCHANGED <<vars, phase, storeFirst, stored, run>>

\* An iteration of ThreadMain: sendCxlAll on everything in the table.
Sweep ==
  /\ phase = "Sweep" /\ todo = {}
  /\ tries < Tries /\ OpenOrders # {}
  /\ tries' = tries + 1 /\ todo' = OpenOrders /\ swept' = OpenOrders
  /\ UNCHANGED <<vars, phase, storeFirst, stored, run>>

\* sendCxlForBatch calls sendCxl, which leaves an order alone that is Cancelling.
SweepCxl(o) ==
  /\ o \in todo
  /\ todo' = todo \ {o}
  /\ IF ord[o].state = "Cancelling"
       THEN UNCHANGED <<vars, stored>>
       ELSE /\ CxlLocked(o) /\ UNCHANGED cxlWait
            /\ clId' = [clId EXCEPT ![o] = NewClId(o)]
            /\ persist(<<OrderItem(o, "Ask", Image(ord'[o], origId'[o], clId'[o]), 0)>>)
  /\ UNCHANGED <<phase, storeFirst, tries, swept, run>>

\* What the process knew is gone; the exchange and the wire stay.
Forget ==
  /\ ord' = [o \in Orders |-> [db'[o].rec EXCEPT !.inTable = FALSE, !.booked = 0]]
  /\ bids' = 0 /\ asks' = 0 /\ pos' = 0
  /\ up' = FALSE
  /\ chan' = [o \in Orders |-> {}]
  /\ picked' = [o \in Orders |-> FALSE]
  /\ origId' = [o \in Orders |-> db'[o].orig]
  /\ clId' = [o \in Orders |-> db'[o].cl]
  /\ phase' = "Down" /\ ends' = ends + 1
  /\ queue' = <<>> /\ todo' = {}
  /\ UNCHANGED <<nextId, downs, breaks, ex, cxlWait, lost, crossed, late,
                 storeFirst, tries, gone, misfiled, botched>>

\* ChannelOrOnix::stop returns when the session thread is through with its reports.
LoggedOut == \A o \in Orders : ~picked[o]

\* The rest of stop(): the session logs out and the storage writes its queue.
Exit ==
  /\ phase = "Sweep" /\ todo = {}
  /\ tries = Tries \/ OpenOrders = {}
  /\ LoggedOut
  /\ Written(Len(queue))
  /\ Forget
  /\ UNCHANGED <<req, resp, torn, swept>>

--------------------------------------------------------------------------------
(***************************************************************************)
(* Crashing and starting again                                             *)
(***************************************************************************)

Lost(o, why) == SelectSeq(queue, LAMBDA i : i.o = o /\ i.why = why)

\* The reports of o that the exchange sends again, those it had not sent yet and
\* the one whose handler was running behind them.
Resent(o) ==
  LET seqs == Lost(o, "Seq") IN
  [i \in DOMAIN seqs |-> seqs[i].report[1]] \o
  (IF picked[o] /\ storeFirst THEN Tail(resp[o]) ELSE resp[o])

\* The crash separates o from the exchange: it loses a request's image, or keeps
\* one of a report's sequence number and what the report did to the order.
Tears(o) ==
  \/ Lost(o, "Ask") # <<>>
  \/ Len(Lost(o, "Seq")) #
       Len(Lost(o, "Report")) + (IF picked[o] /\ storeFirst THEN 1 ELSE 0)

\* The process dies.  Requests still in its socket may not get out.
Crash ==
  /\ phase # "Down" /\ ends < MaxEnds
  /\ \E n \in [Orders -> 0 .. MaxIds + Tries] :
       /\ \A o \in Orders : n[o] <= Len(req[o])
       /\ req' = [o \in Orders |-> SubSeq(req[o], 1, n[o])]
  /\ resp' = [o \in Orders |-> Resent(o)]
  /\ torn' = torn \cup {o \in Orders : Tears(o) \/ req'[o] # req[o]}
  /\ swept' = {}
  /\ UNCHANGED <<db, dbPos>>
  /\ Forget

\* Orders_GetAllOpen.
openOrdersForAccount ==
  {o \in Orders : db[o].rec.state \notin {"Unknown", "Cancelled", "Rejected", "Filled"}}

rebuildOrder_NotCounted(o) ==
  IF o \in openOrdersForAccount
    THEN [db[o].rec EXCEPT !.inTable = TRUE, !.booked = 0]
    ELSE [db[o].rec EXCEPT !.inTable = FALSE, !.booked = 0]

\* ProcessorOrders::rebuildOrder.
rebuildOrder(o) ==
  IF o \in openOrdersForAccount
    THEN add([db[o].rec EXCEPT !.booked = 0])
    ELSE [db[o].rec EXCEPT !.inTable = FALSE, !.booked = 0]

addOrderForRebuild_ClOrderIdOnly(o) ==
  IF o \in openOrdersForAccount THEN {db[o].cl} ELSE {}

\* ChannelOrOnix::rebuildOrder, with addOrder and addOrderForRebuild.
addOrderForRebuild(o) ==
  CASE o \notin openOrdersForAccount -> {}
    [] o \in openOrdersForAccount
       /\ db[o].rec.state \in {"Modifying", "Cancelling"} -> {db[o].cl, db[o].orig}
    [] OTHER -> {db[o].cl}

\* Requests the exchange has not answered, or whose answers are not handled.
InFlight(o) ==
  Len(req[o]) + Len(SelectSeq(resp[o], LAMBDA m :
    m.type \in {"NewAck", "NewRej", "ModAck", "ModRej", "CxlRej"} \/
    (m.type = "CxlAck" /\ m.orig # NoId)))

\* The cases in which _clOrderId and _origClOrderId are not all the clOrdIds the
\* exchange uses for an order: two requests at once, of which translateModAck
\* may have put the older one's back, and a rejected request, whose clOrdId stays
\* in _clOrderId while the order works under another.
Misfiled(o) ==
  \/ InFlight(o) > 1
  \/ db[o].rec.state \in {"Modifying", "Cancelling"} /\ db[o].cl = db[o].orig
  \/ db[o].rec.state \in {"Pending", "Working"} /\ db[o].cl # db[o].orig

\* The open orders into the table, the counters and the channel; then positions.
doCrashRecovery ==
  /\ ord' = [o \in Orders |-> rebuildOrder(o)]
  /\ bids' = MapThenSumSet(LAMBDA o : rebuildOrder(o).booked, OfSide("Buy"))
  /\ asks' = MapThenSumSet(LAMBDA o : rebuildOrder(o).booked, OfSide("Sell"))
  /\ pos' = dbPos
  /\ chan' = [o \in Orders |-> addOrderForRebuild(o)]

\* start(): the storage, doCrashRecovery, then the strategies and the channels.
Start ==
  /\ phase = "Down"
  /\ phase' = "Run"
  /\ doCrashRecovery
  /\ gone' = {o \in Orders \ openOrdersForAccount : nextId[o] # NoId + 1}
  /\ misfiled' = misfiled \cup {o \in openOrdersForAccount : Misfiled(o)}
  /\ swept' = {} /\ tries' = 0
  /\ UNCHANGED <<session, nextId, origId, req, resp, picked, ex, cxlWait, history,
                 storeFirst, stored, todo, ends, torn, botched>>

\* A cancel of the sweeps of a start that failed: the channel is not logged on.
CxlRefused(r) ==
  LET v == sendCxl(r) IN
  IF r.state = "Cancelling" \/ ~v.ok THEN r ELSE onCxlRej(v.order)

\* doCrashRecovery fails (an order of an unknown strategy or instrument) after it
\* has rebuilt some orders, and stop() runs its sweeps on those.
StartFails ==
  /\ phase = "Down"
  /\ botched = {}  \* bound: one failed start
  /\ \E rebuilt \in SUBSET openOrdersForAccount :
       LET after(o) == IF o \notin rebuilt THEN db[o]
                       ELSE [db[o] EXCEPT !.rec =
                               FoldLeft(LAMBDA r, i : CxlRefused(r), @,
                                        [i \in 1 .. Tries |-> i])]
       IN  /\ db' = [o \in Orders |-> after(o)]
           /\ ord' = [o \in Orders |-> [db'[o].rec EXCEPT !.inTable = FALSE, !.booked = 0]]
           /\ botched' = botched \cup rebuilt
  /\ UNCHANGED <<counters, session, wire, resp, picked, ex, cxlWait, history, phase,
                 storeFirst, clId, dbPos, queue, sweep, ends, gone, torn, misfiled>>

\* The session logs on once the channel has been started.
LogOn ==
  /\ phase = "Run" /\ SessionUp
  /\ UNCHANGED <<phase, storeFirst, stored, sweep, run>>

Elsewhere(o) ==
  Exchange(o) /\ UNCHANGED <<phase, storeFirst, stored, sweep, run>>

RecoveryNext ==
  \/ \E o \in Orders :
       Ask(o) \/ Read(o) \/ Respond(o) \/ Elsewhere(o) \/ SweepCxl(o)
  \/ WriteItem \/ Stop \/ Sweep \/ Exit \/ Crash \/ Start \/ StartFails \/ LogOn

RecoverySpec == RecoveryInit /\ [][RecoveryNext]_recoveryVars

--------------------------------------------------------------------------------
(***************************************************************************)
(* Properties                                                              *)
(***************************************************************************)

\* The refusal of a request that crossed the end of its order concerns nobody.
Concerns(o, m) == isOrderLive(ord[o]) \/ m.type \notin {"ModRej", "CxlRej"}

Tracked(o) ==
  /\ ex[o].status = "Open" => ord[o].inTable
  /\ resp[o] # <<>> /\ ~picked[o] /\ Concerns(o, Head(resp[o])) =>
       {Head(resp[o]).id, Head(resp[o]).orig} \cap chan[o] # {}
  /\ resp[o] = <<>> => ord[o].cumQty = ex[o].cum

Settles(o) ==
  /\ ord[o].state = "Pending" =>
       Sent(o, {"New"}) \/ Answered(o, {"NewAck", "NewRej"})
  /\ ord[o].state = "Cancelling" =>
       Sent(o, {"Cxl"}) \/ Answered(o, {"CxlAck", "CxlRej", "Fill"})
  /\ ord[o].inTable /\ o \notin crossed =>
       /\ ord[o].state = "Modifying" <=> ModsInFlight(o) > 0
       /\ ord[o].state = "Working" => ord[o].price = ex[o].price

\* Whatever was in flight when the process ended, and wherever the storage was,
\* the next run has every order that is open at the exchange, finds it for every
\* report still to come, and ends with the exchange's quantities; and unless a
\* start failed in between, no order waits for an answer nobody owes.  Left out
\* are orders of which the crash lost a request or half of a report, and the two
\* kinds of order rebuilt under too few clOrdIds.
RecoveredExact ==
  \A o \in Orders \ (torn \cup misfiled) : phase # "Down" =>
    /\ Tracked(o)
    /\ o \in botched \/ Settles(o)

\* _bids and _asks are the open quantity of the table, also when it has been
\* rebuilt, and the position is the exchange's once every report is handled.
AccountRebuilt ==
  phase # "Down" =>
    /\ CountersOpen
    /\ torn = {} /\ misfiled = {} => PosExact

\* An order that stop() leaves open is one it could do nothing more about: its
\* cancel is on the way or kept back for the ack, or the exchange or the chain
\* refused one.
LeftOnlyIfRefused ==
  phase = "Down" =>
    \A o \in swept \ (torn \cup misfiled) : o \in openOrdersForAccount =>
      \/ db[o].rec.cxlRejCounter > 0 \/ db[o].rec.cancelOnAck
      \/ Sent(o, {"Cxl"}) \/ Answered(o, {"CxlAck", "CxlRej", "Fill"})
================================================================================
