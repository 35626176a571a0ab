------------------------------ MODULE Publisher ------------------------------
(***************************************************************************)
(* The quote publisher (mains/channel_pf_simple_publisher), a client of    *)
(* the quotes: it sends them to the connections that subscribed, or hands  *)
(* them to a thread that writes a recording, which a publisher in replay   *)
(* mode sends to ChannelPfHistorical.                                      *)
(*                                                                         *)
(* The publisher is a record: its mode ("off" where none runs); the        *)
(* instruments of every connection; the last quote of each instrument sent *)
(* to it; the queue to the writing thread, the file as it is written and   *)
(* whether it is open; and _isDone.                                        *)
(***************************************************************************)
EXTENDS QuoteStore

CONSTANT Connections

PublisherInit(mode) ==
    [mode |-> mode, subs |-> [c \in Connections |-> {}], sent |-> [c \in Connections |-> {}],
     queue |-> <<>>, file |-> <<>>, open |-> mode = "Record", done |-> FALSE]

(* levelUpdateBits(0).                                                     *)
isLevelUpdate0(q) == q.flags \cap ({"price", "size"} \X {<<1, "bid">>, <<1, "ask">>}) # {}
isNormalTrade(q) == isTrade(q) /\ q.trade.condition = "Unknown"
TopValid(q) == \A s \in {"bid", "ask"} : q.book[<<1, s>>].price # Inv /\ q.book[<<1, s>>].size > 0

Publishable(q) ==
    /\ isNormalTrade(q) \/ isLevelUpdate0(q)
    /\ isTrade(q) => isNormalTrade(q)
    /\ TopValid(q)
    /\ q.status \in {"Success", "ExchangeSlow"}

(* serializeQuote, and the message is sent to connections cs.              *)
Send(p, cs, q) ==
    [p EXCEPT !.sent = [c \in Connections |->
                          IF c \in cs THEN {r \in @[c] : r.id # q.id} \cup {q} ELSE @[c]]]

(* A bug: a quote without a trade is not sent.                             *)
onQuote_TradesOnly(p, q) ==
    IF ~Publishable(q) THEN p
    ELSE IF p.mode = "Record" THEN [p EXCEPT !.queue = Append(@, q)]
    ELSE Send(p, {c \in Connections : q.id \in p.subs[c] /\ isNormalTrade(q)}, q)

onQuote(p, q) ==
    IF ~Publishable(q) THEN p
    ELSE IF p.mode = "Record" THEN [p EXCEPT !.queue = Append(@, q)]
    ELSE Send(p, {c \in Connections : q.id \in p.subs[c]}, q)

(* onConnectionData: kSub answers with the quote as it is in the store.    *)
onSub(p, c, q) == Send([p EXCEPT !.subs[c] = @ \cup {q.id}], {c}, q)
onUnsub(p, c, i) == [p EXCEPT !.subs[c] = @ \ {i}]

onConnectionDown(p, c) == [p EXCEPT !.subs[c] = {}, !.sent[c] = {}]

(* threadMainRecord: one item; a closed file takes nothing.                *)
recordNext(p) ==
    [p EXCEPT !.queue = Tail(@), !.file = IF p.open THEN Append(@, Head(p.queue)) ELSE @]

(* Publisher::clear: the file is closed before the thread is told to end.  *)
clear(p) == [p EXCEPT !.subs = [c \in Connections |-> {}], !.open = FALSE]
terminateThreadRecord(p) == [p EXCEPT !.done = TRUE]
=============================================================================
