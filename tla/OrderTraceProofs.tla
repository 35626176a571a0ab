--------------------------- MODULE OrderTraceProofs ----------------------------
(***************************************************************************)
(* Proof that every message in flight can be traced: until a trade is      *)
(* busted, the clOrdIds of requests and answers rise, every response       *)
(* carries one that the channel's table holds when the session thread      *)
(* comes to it, and the fills on the way are exactly what the exchange has *)
(* traded and the process has not booked.                                  *)
(*                                                                         *)
(* The argument follows one order at a time, as in OrderBooksProofs: one   *)
(* lemma for each thing that can happen to its messages, then one step     *)
(* per action.                                                             *)
(***************************************************************************)
EXTENDS OrderBooksProofs

--------------------------------------------------------------------------------
(***************************************************************************)
(* Messages                                                                *)
(***************************************************************************)

\* The fields of the messages of a queue.
LEMMA RequestFields ==
  ASSUME NEW q \in Seq(Request)
  PROVE  /\ \A i \in DOMAIN q : q[i].id \in Nat /\ q[i].orig \in Nat
         /\ DOMAIN q = 1 .. Len(q) /\ Len(q) \in Nat
<1>1. \A m \in Request : m.id \in Nat /\ m.orig \in Nat
  BY DEF Request
<1>2. \A i \in DOMAIN q : q[i] \in Request
  OBVIOUS
<1> QED BY <1>1, <1>2

\* What a response carries.
LEMMA ResponseFields ==
  ASSUME NEW s \in Seq(Response)
  PROVE  /\ \A i \in DOMAIN s : /\ s[i].id \in Nat /\ s[i].orig \in Nat
                                /\ s[i].qty \in Nat /\ s[i].cum \in Nat
         /\ DOMAIN s = 1 .. Len(s) /\ Len(s) \in Nat
<1>1. \A m \in Response : /\ m.id \in Nat /\ m.orig \in Nat
                          /\ m.qty \in Nat /\ m.cum \in Nat
  BY DEF Response
<1>2. \A i \in DOMAIN s : s[i] \in Response
  OBVIOUS
<1> QED BY <1>1, <1>2

\* What is left of a queue once its first message is gone.
LEMMA Shifted ==
  ASSUME NEW S, NEW s \in Seq(S), s # <<>>
  PROVE  /\ 1 \in DOMAIN s /\ Head(s) = s[1] /\ Tail(s) \in Seq(S)
         /\ \A i \in DOMAIN Tail(s) :
              i \in Nat /\ 1 < i + 1 /\ i + 1 \in DOMAIN s /\ Tail(s)[i] = s[i + 1]
         /\ \A j \in DOMAIN s :
              \/ j = 1
              \/ /\ j - 1 \in DOMAIN Tail(s) /\ 1 < j /\ j \in Nat
                 /\ Tail(s)[j - 1] = s[j]
OBVIOUS

\* No message of some types between two places, before and after the shift.
LEMMA ShiftedNone ==
  ASSUME NEW s \in Seq(Response), s # <<>>, NEW A, NEW k \in Nat
  PROVE  /\ (\A j \in DOMAIN Tail(s) : k < j => Tail(s)[j].type \notin A) =>
              \A j \in DOMAIN s : k + 1 < j => s[j].type \notin A
         /\ \A i \in Nat :
              (\A j \in DOMAIN Tail(s) : k < j /\ j < i => Tail(s)[j].type \notin A) =>
                \A j \in DOMAIN s : k + 1 < j /\ j < i + 1 => s[j].type \notin A
<1> DEFINE z == Tail(s)
<1>1. \A j \in DOMAIN s :
        \/ j = 1
        \/ j - 1 \in DOMAIN z /\ 1 < j /\ j \in Nat /\ z[j - 1] = s[j]
  BY Shifted
<1> HIDE DEF z
<1>2. ASSUME NEW j \in DOMAIN s, k + 1 < j
      PROVE  /\ j - 1 \in DOMAIN z /\ z[j - 1] = s[j] /\ k < j - 1
             /\ \A i \in Nat : j < i + 1 => j - 1 < i
  BY <1>1, <1>2
<1> QED BY <1>2 DEF z

\* And once one more has been put at its end.
LEMMA Extended ==
  ASSUME NEW S, NEW s \in Seq(S), NEW m \in S
  PROVE  /\ Append(s, m) \in Seq(S)
         /\ DOMAIN Append(s, m) = 1 .. Len(s) + 1
         /\ Append(s, m)[Len(s) + 1] = m
         /\ \A i \in DOMAIN s :
              /\ i \in DOMAIN Append(s, m) /\ i \in Nat /\ i < Len(s) + 1
              /\ Append(s, m)[i] = s[i]
         /\ \A i \in DOMAIN Append(s, m) : i = Len(s) + 1 \/ i \in DOMAIN s
OBVIOUS

--------------------------------------------------------------------------------
(***************************************************************************)
(* Traced orders stay traced: what the process does                        *)
(***************************************************************************)

\* A handler that books no fill and brings no order to life.
LEMMA TracedHandler ==
  ASSUME NEW r, NEW t, NEW q, NEW s, NEW e, NEW n, NEW g, NEW c, NEW p,
         Traced(r, q, s, e, n, g, c, p),
         isOrderLive(t) => isOrderLive(r),
         t.filled = r.filled, t.cumQty = r.cumQty
  PROVE  Traced(t, q, s, e, n, g, c, p)
<1>1. IdsRise(t, q, s, n, g)
  BY DEF Traced, IdsRise
<1>2. FillsChain(t, s, e)
  BY DEF Traced, FillsChain
<1> QED BY <1>1, <1>2 DEF Traced

\* A clOrdId is drawn and entered into the channel's table.
LEMMA TracedDrawn ==
  ASSUME NEW r, NEW q \in Seq(Request), NEW s \in Seq(Response), NEW e,
         NEW n \in Nat, NEW g \in Nat, NEW c, NEW p,
         Traced(r, q, s, e, n, g, c, p)
  PROVE  Traced(r, q, s, e, n + 1, g, c \cup {n}, p)
<1>1. IdsRise(r, q, s, n + 1, g)
  BY RequestFields, ResponseFields DEF Traced, IdsRise
<1>2. IdsHeld(q, s, e, g, c \cup {n}, p)
  BY DEF Traced, IdsHeld
<1> QED BY <1>1, <1>2 DEF Traced

\* A modify or a cancel leaves under that clOrdId.
LEMMA TracedSent ==
  ASSUME NEW r, NEW q \in Seq(Request), NEW s \in Seq(Response), NEW e,
         NEW n \in Nat, NEW g \in Nat, NEW c, NEW p, NEW m \in Request,
         m.type # "New", m.id = n, m.orig = g, isOrderLive(r),
         Traced(r, q, s, e, n, g, c, p)
  PROVE  Traced(r, Append(q, m), s, e, n + 1, g, c \cup {n}, p)
<1> DEFINE a == Append(q, m)
<1>1. /\ DOMAIN a = 1 .. Len(q) + 1
      /\ a[Len(q) + 1] = m
      /\ \A i \in DOMAIN q : i \in Nat /\ i < Len(q) + 1 /\ a[i] = q[i]
      /\ \A i \in DOMAIN a : i = Len(q) + 1 \/ i \in DOMAIN q
  BY Extended
<1>2. /\ \A i \in DOMAIN q : q[i].id \in Nat
      /\ \A i \in DOMAIN s : s[i].id \in Nat
      /\ DOMAIN q = 1 .. Len(q) /\ Len(q) \in Nat
  BY RequestFields, ResponseFields
<1>3. g < n /\ g # NoId
  BY DEF Traced, IdsRise
<1> HIDE DEF a
<1>4. IdsRise(r, a, s, n + 1, g)
  <2>1. \A i \in DOMAIN a :
          /\ a[i].id < n + 1
          /\ IF a[i].type = "New" THEN a[i].id = g /\ a[i].orig = NoId
               ELSE g < a[i].id /\ a[i].orig <= g /\ a[i].orig # NoId
    BY <1>1, <1>2, <1>3 DEF Traced, IdsRise
  <2>2. \A i, j \in DOMAIN a : i < j => a[i].id < a[j].id
    BY <1>1, <1>2 DEF Traced, IdsRise
  <2>3. \A i \in DOMAIN s, j \in DOMAIN a : ~Reported(s[i]) => s[i].id < a[j].id
    BY <1>1, <1>2 DEF Traced, IdsRise
  <2>4. \A i \in DOMAIN s : ~Reported(s[i]) => s[i].id < n + 1
    BY <1>2 DEF Traced, IdsRise
  <2> QED BY <1>3, <2>1, <2>2, <2>3, <2>4 DEF Traced, IdsRise
<1>5. IdsHeld(a, s, e, g, c \cup {n}, p)
  BY <1>1 DEF Traced, IdsHeld
<1> QED BY <1>4, <1>5 DEF Traced, a

\* The new of an order that has nothing in flight: refused, drawn and refused, or
\* sent.
LEMMA TracedNew ==
  ASSUME NEW r, NEW t, NEW q, NEW s, NEW e, NEW n \in Nat, NEW g \in Nat, NEW c,
         NEW p, NEW m \in Request, n # NoId,
         Traced(r, q, s, e, n, g, c, p), q = <<>>, s = <<>>, e.status = "None",
         t.filled = r.filled, t.cumQty = r.cumQty
  PROVE  /\ ~isOrderLive(t) => Traced(t, q, s, e, n, g, c, p)
         /\ ~isOrderLive(t) => Traced(t, q, s, e, n + 1, n, c, p)
         /\ Traced(t, q, s, e, n + 1, n, c \cup {n}, p)
         /\ m.type = "New" /\ m.id = n /\ m.orig = NoId =>
              Traced(t, Append(q, m), s, e, n + 1, n, c \cup {n}, p)
<1>1. DOMAIN q = {} /\ DOMAIN s = {}
  OBVIOUS
<1>2. FillsChain(t, s, e)
  BY <1>1 DEF Traced, FillsChain
<1>3. \A x : IdsKnown(s, e, x)
  BY <1>1 DEF IdsKnown
<1>4. \A x, k : IdsHeld(q, s, e, x, k, p)
  BY <1>1 DEF IdsHeld
<1>5. /\ ~isOrderLive(t) => IdsRise(t, q, s, n, g)
      /\ IdsRise(t, q, s, n + 1, n)
  BY <1>1 DEF Traced, IdsRise
<1>6. ASSUME m.type = "New", m.id = n, m.orig = NoId
      PROVE  Traced(t, Append(q, m), s, e, n + 1, n, c \cup {n}, p)
  <2> DEFINE a == <<m>>
  <2>1. Append(q, m) = a /\ DOMAIN a = {1} /\ a[1] = m
    OBVIOUS
  <2> HIDE DEF a
  <2>2. IdsRise(t, a, s, n + 1, n)
    BY <1>1, <1>6, <2>1 DEF IdsRise
  <2>3. IdsHeld(a, s, e, n, c \cup {n}, p)
    BY <1>1, <1>6, <2>1 DEF IdsHeld
  <2> QED BY <1>2, <1>3, <2>1, <2>2, <2>3 DEF Traced
<1> QED BY <1>2, <1>3, <1>4, <1>5, <1>6 DEF Traced

\* A request leaves the queue unanswered.
LEMMA TracedLost ==
  ASSUME NEW r, NEW q \in Seq(Request), q # <<>>, NEW s, NEW e,
         NEW n, NEW g, NEW c, NEW p,
         Traced(r, q, s, e, n, g, c, p)
  PROVE  Traced(r, Tail(q), s, e, n, g, c, p)
<1>1. \A i \in DOMAIN Tail(q) :
        i \in Nat /\ i + 1 \in DOMAIN q /\ Tail(q)[i] = q[i + 1]
  BY Shifted
<1>2. \A i, j \in DOMAIN Tail(q) : i < j => i + 1 < j + 1
  BY <1>1
<1>3. IdsRise(r, Tail(q), s, n, g)
  BY <1>1, <1>2 DEF Traced, IdsRise
<1>4. IdsHeld(Tail(q), s, e, g, c, p)
  BY <1>1 DEF Traced, IdsHeld
<1> QED BY <1>3, <1>4 DEF Traced

--------------------------------------------------------------------------------
(***************************************************************************)
(* Traced orders stay traced: what the session thread does                 *)
(***************************************************************************)

\* The session thread finds the order of the first response in the channel's
\* table, and what it takes out of the table is the clOrdId of nothing else in
\* flight.
LEMMA TracedReceived ==
  ASSUME NEW r, NEW q \in Seq(Request), NEW s \in Seq(Response), s # <<>>, NEW e,
         NEW b, NEW n \in Nat, NEW g \in Nat, NEW c, NEW F,
         Sound(r, q, s, e, b), Traced(r, q, s, e, n, g, c, FALSE),
         Head(s).type \in {"NewRej", "ModRej", "CxlRej"} => F \subseteq {Head(s).id},
         Head(s).type = "ModAck" => F \subseteq {Head(s).orig, g},
         Head(s).type \in {"CxlAck", "Fill"} => F \subseteq {Head(s).id, Head(s).orig},
         Head(s).type \in {"NewAck", "PartFill"} => F = {}
  PROVE  /\ {Head(s).id, Head(s).orig} \cap c # {}
         /\ Traced(r, q, s, e, n, g, c \ F, TRUE)
<1> DEFINE m == Head(s)
<1>1. 1 \in DOMAIN s /\ m = s[1]
  BY Shifted
<1>2. /\ \A i \in DOMAIN q : q[i].id \in Nat
      /\ \A i \in DOMAIN s : s[i].id \in Nat /\ s[i].orig \in Nat /\ i \in Nat
      /\ \A i \in DOMAIN s : i = 1 \/ 1 < i
  BY RequestFields, ResponseFields
<1>3. m.type \in RespTypes \ {"TradeBreak"}
  <2>1. m \in Response
    BY Shifted
  <2>2. m.type \in RespTypes
    BY <2>1 DEF Response
  <2> QED BY <1>1, <2>2 DEF Sound
<1>4. \A i \in DOMAIN q : q[i].type # "New"
  BY DEF Sound, NewSound
<1>5. Reported(m) => m.id = g /\ m.orig = NoId /\ m.type \in Closing
  <2>1. \A j \in DOMAIN s : ~(j < 1)
    BY <1>2
  <2> QED BY <1>1, <2>1 DEF Traced, IdsKnown, Reported, Closing
<1>6. ~Reported(m) =>
        /\ m.type \in NewAnswers => m.id = g /\ m.orig = NoId
        /\ m.type \notin NewAnswers => g < m.id /\ m.orig <= g
        /\ \A j \in DOMAIN s : 1 < j /\ ~Reported(s[j]) => m.id < s[j].id
        /\ \A j \in DOMAIN q : m.id < q[j].id
  BY <1>1 DEF Traced, IdsRise
<1>7. \A j \in DOMAIN s : 1 < j /\ ~Reported(s[j]) => g < s[j].id
  BY <1>2 DEF Traced, IdsRise
<1>8. \A j \in DOMAIN q : g < q[j].id
  BY <1>4 DEF Traced, IdsRise
<1>9. m.type \in Ending =>
        e.status = "Closed" /\ \A j \in DOMAIN s : 1 < j => s[j].type \notin Closing
  BY <1>1 DEF Sound, EndSound
<1>10. m.type \in Ending \cup {"ModRej", "CxlRej", "ModAck", "NewAck", "PartFill"}
  BY <1>3 DEF RespTypes, Ending
<1>11. /\ F \subseteq {m.id, m.orig, g}
       /\ F # {} => m.type \notin {"NewAck", "PartFill"}
       /\ g \in F => m.type \in Ending \cup {"ModAck"}
       /\ m.id \in F => m.type # "ModAck" \/ m.id = m.orig \/ m.id = g
  BY <1>2, <1>6, <1>10 DEF Reported, NewAnswers, Ending, Fills
<1>12. m.orig <= g /\ m.orig \in Nat
  BY <1>1, <1>2, <1>5, <1>6 DEF NoId
<1> HIDE DEF m
<1>13. {m.id, m.orig} \cap c # {}
  <2>1. ~Reported(m) => m.id \in c
    BY <1>1 DEF Traced, IdsHeld
  <2>2. Reported(m) => g \in c
    BY <1>1, <1>5 DEF Traced, IdsHeld
  <2> QED BY <1>5, <2>1, <2>2
<1>14. \A j \in DOMAIN q : q[j].id \in c \ F
  <2> SUFFICES ASSUME NEW j \in DOMAIN q
               PROVE  q[j].id \in c /\ q[j].id \notin F
    OBVIOUS
  <2>1. q[j].id \in c
    BY DEF Traced, IdsHeld
  <2>2. q[j].id # g /\ q[j].id # m.orig
    BY <1>2, <1>8, <1>12
  <2>3. q[j].id # m.id
    BY <1>1, <1>2, <1>5, <1>6, <1>8
  <2> QED BY <1>11, <2>1, <2>2, <2>3
<1>15. ASSUME NEW j \in DOMAIN s, ~Reported(s[j]), j = 1 => s[j].type = "ModAck"
       PROVE  s[j].id \in c \ F
  <2>1. s[j].id \in c
    BY <1>15 DEF Traced, IdsHeld
  <2>2. CASE j = 1
    <3>1. m = s[j] /\ m.type = "ModAck" /\ g < m.id
      BY <1>1, <1>6, <1>15, <2>2 DEF NewAnswers
    <3>2. m.id # g /\ m.id # m.orig /\ m.id \notin F
      BY <1>1, <1>2, <1>11, <1>12, <3>1
    <3> QED BY <2>1, <3>1, <3>2
  <2>3. CASE 1 < j
    <3>1. s[j].id # g /\ s[j].id # m.orig
      BY <1>2, <1>7, <1>12, <1>15, <2>3
    <3>2. s[j].id # m.id
      BY <1>1, <1>2, <1>5, <1>6, <1>7, <1>15, <2>3
    <3> QED BY <1>11, <2>1, <3>1, <3>2
  <2> QED BY <1>2, <2>2, <2>3
<1>16. ASSUME \/ e.status = "Open"
              \/ \E i \in DOMAIN s : s[i].type \in Closing /\ i # 1
       PROVE  s[1].type = "ModAck" \/ g \in c \ F
  <2>1. g \in c
    BY <1>16 DEF Traced, IdsHeld
  <2>2. m.type \notin Ending
    BY <1>2, <1>9, <1>16
  <2> QED BY <1>1, <1>11, <2>1, <2>2
<1>17. IdsHeld(q, s, e, g, c \ F, TRUE)
  BY <1>14, <1>15, <1>16 DEF IdsHeld
<1> QED BY <1>13, <1>17 DEF Traced, m

\* The container takes it: an acknowledged modify confirms its clOrdId.
LEMMA IdsTaken ==
  ASSUME NEW r, NEW q \in Seq(Request), NEW s \in Seq(Response), s # <<>>, NEW e,
         NEW b, NEW n \in Nat, NEW g \in Nat, NEW h \in Nat, NEW c,
         Sound(r, q, s, e, b), Traced(r, q, s, e, n, g, c, TRUE),
         h = IF Head(s).type = "ModAck" THEN Head(s).id ELSE g
  PROVE  /\ IdsRise(r, q, Tail(s), n, h)
         /\ IdsKnown(Tail(s), e, h)
         /\ IdsHeld(q, Tail(s), e, h, c, FALSE)
<1> DEFINE m == Head(s)
           z == Tail(s)
<1>1. /\ 1 \in DOMAIN s /\ m = s[1]
      /\ \A i \in DOMAIN z :
           i \in Nat /\ 1 < i + 1 /\ i + 1 \in DOMAIN s /\ z[i] = s[i + 1]
      /\ \A j \in DOMAIN s :
           \/ j = 1
           \/ j - 1 \in DOMAIN z /\ 1 < j /\ j \in Nat /\ z[j - 1] = s[j]
  BY Shifted
<1>2. /\ \A i \in DOMAIN q : q[i].id \in Nat /\ q[i].orig \in Nat
      /\ \A i \in DOMAIN s : s[i].id \in Nat /\ s[i].orig \in Nat /\ i \in Nat
  BY RequestFields, ResponseFields
<1>3. \A i \in DOMAIN q : q[i].type # "New"
  BY DEF Sound, NewSound
<1>4. m.type = "ModAck" => ~Reported(m) /\ m.type \notin NewAnswers
  BY DEF Reported, Fills, NewAnswers
<1>5. g <= h /\ h < n
  BY <1>1, <1>2, <1>4 DEF Traced, IdsRise
<1> HIDE DEF m, z
<1>6. \A j \in DOMAIN q : h < q[j].id /\ q[j].orig <= h
  <2>1. \A j \in DOMAIN q : g < q[j].id /\ q[j].orig <= g
    BY <1>3 DEF Traced, IdsRise
  <2>2. m.type = "ModAck" => \A j \in DOMAIN q : m.id < q[j].id
    BY <1>1, <1>4 DEF Traced, IdsRise
  <2> QED BY <1>2, <1>5, <2>1, <2>2 DEF m
<1>7. ASSUME NEW i \in DOMAIN z, ~Reported(z[i])
      PROVE  /\ z[i].id < n /\ z[i].type \notin NewAnswers
             /\ h < z[i].id /\ z[i].orig <= h
             /\ \A j \in DOMAIN z : i < j /\ ~Reported(z[j]) => z[i].id < z[j].id
             /\ \A j \in DOMAIN q : z[i].id < q[j].id
  <2>1. z[i] = s[i + 1] /\ i + 1 \in DOMAIN s /\ 1 < i + 1
    BY <1>1
  <2>2. z[i].id < n /\ z[i].type \notin NewAnswers
    BY <1>2, <1>7, <2>1 DEF Traced, IdsRise
  <2>3. g < z[i].id /\ z[i].orig <= g
    BY <1>7, <2>1, <2>2 DEF Traced, IdsRise
  <2>4. m.type = "ModAck" => m.id < z[i].id
    BY <1>1, <1>4, <1>7, <2>1 DEF Traced, IdsRise
  <2>5. \A j \in DOMAIN z : i < j /\ ~Reported(z[j]) => z[i].id < z[j].id
    <3>1. \A j \in DOMAIN z : i < j => i + 1 < j + 1
      BY <1>1
    <3> QED BY <1>1, <1>7, <2>1, <3>1 DEF Traced, IdsRise
  <2>6. \A j \in DOMAIN q : z[i].id < q[j].id
    BY <1>7, <2>1 DEF Traced, IdsRise
  <2>7. h < z[i].id /\ z[i].orig <= h
    BY <1>2, <1>5, <2>1, <2>3, <2>4 DEF m
  <2> QED BY <2>2, <2>5, <2>6, <2>7
<1>8. isOrderLive(r) => h # NoId
  BY <1>5 DEF Traced, IdsRise, NoId
<1>9. IdsRise(r, q, z, n, h)
  BY <1>3, <1>5, <1>6, <1>7, <1>8 DEF Traced, IdsRise
<1>10. m.type \in Acks => h = m.id
  <2>1. m.type = "NewAck" => ~Reported(m) /\ m.type \in NewAnswers
    BY DEF Reported, Fills, NewAnswers
  <2>2. m.type = "NewAck" => m.id = g
    BY <1>1, <2>1 DEF Traced, IdsRise
  <2> QED BY <2>2 DEF Acks, m
<1>11. m.type \notin Acks => h = g
  BY DEF Acks, m
<1>12. IdsKnown(z, e, h)
  <2>1. ASSUME NEW i \in DOMAIN z, Reported(z[i])
        PROVE  /\ z[i].orig = NoId
               /\ (\A j \in DOMAIN z : j < i => z[j].type \notin Acks) => z[i].id = h
               /\ \A k \in DOMAIN z :
                    /\ k < i /\ z[k].type \in Acks
                    /\ \A j \in DOMAIN z : k < j /\ j < i => z[j].type \notin Acks
                    => z[i].id = z[k].id
    <3>1. z[i] = s[i + 1] /\ i + 1 \in DOMAIN s /\ 1 < i + 1
      BY <1>1
    <3>2. z[i].orig = NoId
      BY <2>1, <3>1 DEF Traced, IdsKnown
    <3>3. ASSUME \A j \in DOMAIN z : j < i => z[j].type \notin Acks
          PROVE  z[i].id = h
      <4>1. \A j \in DOMAIN s : 1 < j /\ j < i + 1 => s[j].type \notin Acks
        <5>1. \A j \in DOMAIN z : 0 < j /\ j < i => z[j].type \notin Acks
          BY <3>3
        <5>2. \A j \in DOMAIN s : 0 + 1 < j /\ j < i + 1 => s[j].type \notin Acks
          BY <1>1, <5>1, ShiftedNone DEF z
        <5> QED BY <5>2
      <4>2. CASE m.type \in Acks
        <5>1. s[i + 1].id = s[1].id
          BY <1>1, <2>1, <3>1, <4>1, <4>2 DEF Traced, IdsKnown
        <5> QED BY <1>1, <1>10, <3>1, <4>2, <5>1
      <4>3. CASE m.type \notin Acks
        <5>1. \A j \in DOMAIN s : j < i + 1 => s[j].type \notin Acks
          BY <1>1, <4>1, <4>3
        <5> QED BY <1>11, <2>1, <3>1, <4>3, <5>1 DEF Traced, IdsKnown
      <4> QED BY <4>2, <4>3
    <3>4. ASSUME NEW k \in DOMAIN z, k < i, z[k].type \in Acks,
                 \A j \in DOMAIN z : k < j /\ j < i => z[j].type \notin Acks
          PROVE  z[i].id = z[k].id
      <4>1. \A j \in DOMAIN s : k + 1 < j /\ j < i + 1 => s[j].type \notin Acks
        BY <1>1, <3>4, ShiftedNone DEF z
      <4>2. k + 1 \in DOMAIN s /\ z[k] = s[k + 1] /\ k + 1 < i + 1
        BY <1>1, <3>4
      <4> QED BY <2>1, <3>1, <3>4, <4>1, <4>2 DEF Traced, IdsKnown
    <3> QED BY <3>2, <3>3, <3>4
  <2>2. ASSUME e.status = "Open"
        PROVE  /\ (\A j \in DOMAIN z : z[j].type \notin Acks) => e.id = h
               /\ \A k \in DOMAIN z :
                    /\ z[k].type \in Acks
                    /\ \A j \in DOMAIN z : k < j => z[j].type \notin Acks
                    => e.id = z[k].id
    <3>1. ASSUME \A j \in DOMAIN z : z[j].type \notin Acks
          PROVE  e.id = h
      <4>1. \A j \in DOMAIN s : 1 < j => s[j].type \notin Acks
        BY <1>1, <3>1
      <4>2. CASE m.type \in Acks
        BY <1>1, <1>10, <2>2, <4>1, <4>2 DEF Traced, IdsKnown
      <4>3. CASE m.type \notin Acks
        <5>1. \A j \in DOMAIN s : s[j].type \notin Acks
          BY <1>1, <4>1, <4>3
        <5> QED BY <1>11, <2>2, <4>3, <5>1 DEF Traced, IdsKnown
      <4> QED BY <4>2, <4>3
    <3>2. ASSUME NEW k \in DOMAIN z, z[k].type \in Acks,
                 \A j \in DOMAIN z : k < j => z[j].type \notin Acks
          PROVE  e.id = z[k].id
      <4>1. \A j \in DOMAIN s : k + 1 < j => s[j].type \notin Acks
        BY <1>1, <3>2, ShiftedNone DEF z
      <4>2. k + 1 \in DOMAIN s /\ z[k] = s[k + 1]
        BY <1>1
      <4> QED BY <2>2, <3>2, <4>1, <4>2 DEF Traced, IdsKnown
    <3> QED BY <3>1, <3>2
  <2> QED BY <2>1, <2>2 DEF IdsKnown
<1>13. IdsHeld(q, z, e, h, c, FALSE)
  <2>1. \A i \in DOMAIN q : q[i].id \in c
    BY DEF Traced, IdsHeld
  <2>2. \A i \in DOMAIN z : ~Reported(z[i]) => z[i].id \in c
    <3>1. \A i \in DOMAIN z : i + 1 # 1
      BY <1>1
    <3> QED BY <1>1, <3>1 DEF Traced, IdsHeld
  <2>3. ASSUME \/ e.status = "Open"
               \/ \E i \in DOMAIN z : z[i].type \in Closing
        PROVE  h \in c
    <3>1. \/ e.status = "Open"
          \/ \E i \in DOMAIN s : s[i].type \in Closing /\ i # 1
      BY <1>1, <2>3
    <3>2. s[1].type = "ModAck" \/ g \in c
      BY <3>1 DEF Traced, IdsHeld
    <3>3. m.type = "ModAck" => m.id \in c
      BY <1>1, <1>4 DEF Traced, IdsHeld
    <3> QED BY <1>1, <3>2, <3>3 DEF m
  <2> QED BY <2>1, <2>2, <2>3 DEF IdsHeld
<1> QED BY <1>9, <1>12, <1>13 DEF z

\* The reports of fills behind the first response.
LEMMA ChainTaken ==
  ASSUME NEW r, NEW t, NEW s \in Seq(Response), s # <<>>, NEW e,
         FillsChain(r, s, e), r.filled \in Int,
         IF Head(s).type \in Fills
           THEN /\ t.filled = r.filled + Head(s).qty
                /\ t.cumQty = r.cumQty + Head(s).qty
           ELSE t.filled = r.filled /\ t.cumQty = r.cumQty
  PROVE  FillsChain(t, Tail(s), e)
<1> DEFINE m == Head(s)
           z == Tail(s)
<1>1. /\ 1 \in DOMAIN s /\ m = s[1]
      /\ \A i \in DOMAIN z :
           i \in Nat /\ 1 < i + 1 /\ i + 1 \in DOMAIN s /\ z[i] = s[i + 1]
      /\ \A j \in DOMAIN s :
           \/ j = 1
           \/ j - 1 \in DOMAIN z /\ 1 < j /\ j \in Nat /\ z[j - 1] = s[j]
  BY Shifted
<1> HIDE DEF m, z
<1>2. m.type \in Fills => t.filled = m.cum
  <2>1. \A j \in DOMAIN s : ~(j < 1)
    BY ResponseFields
  <2> QED BY <1>1, <2>1 DEF FillsChain, m
<1>3. t.filled = t.cumQty
  BY DEF FillsChain
<1>4. ASSUME NEW i \in DOMAIN z, z[i].type \in Fills
      PROVE  /\ 1 <= z[i].qty
             /\ (\A j \in DOMAIN z : j < i => z[j].type \notin Fills) =>
                  z[i].cum = t.filled + z[i].qty
             /\ (\A j \in DOMAIN z : i < j => z[j].type \notin Fills) => z[i].cum = e.cum
             /\ \A k \in DOMAIN z :
                  /\ i < k /\ z[k].type \in Fills
                  /\ \A j \in DOMAIN z : i < j /\ j < k => z[j].type \notin Fills
                  => z[k].cum = z[i].cum + z[k].qty
  <2>1. z[i] = s[i + 1] /\ i + 1 \in DOMAIN s /\ 1 < i + 1 /\ i \in Nat
    BY <1>1
  <2>2. 1 <= z[i].qty
    BY <1>4, <2>1 DEF FillsChain
  <2>3. ASSUME \A j \in DOMAIN z : j < i => z[j].type \notin Fills
        PROVE  z[i].cum = t.filled + z[i].qty
    <3>1. \A j \in DOMAIN s : 1 < j /\ j < i + 1 => s[j].type \notin Fills
      <4>1. \A j \in DOMAIN z : 0 < j /\ j < i => z[j].type \notin Fills
        BY <2>3
      <4>2. \A j \in DOMAIN s : 0 + 1 < j /\ j < i + 1 => s[j].type \notin Fills
        BY <2>1, <4>1, ShiftedNone DEF z
      <4> QED BY <4>2
    <3>2. CASE m.type \in Fills
      <4>1. s[i + 1].cum = s[1].cum + s[i + 1].qty
        BY <1>1, <1>4, <2>1, <3>1, <3>2 DEF FillsChain
      <4> QED BY <1>1, <1>2, <2>1, <3>2, <4>1
    <3>3. CASE m.type \notin Fills
      <4>1. \A j \in DOMAIN s : j < i + 1 => s[j].type \notin Fills
        BY <1>1, <3>1, <3>3
      <4>2. s[i + 1].cum = r.filled + s[i + 1].qty
        BY <1>4, <2>1, <4>1 DEF FillsChain
      <4> QED BY <2>1, <3>3, <4>2 DEF m
    <3> QED BY <3>2, <3>3
  <2>4. ASSUME \A j \in DOMAIN z : i < j => z[j].type \notin Fills
        PROVE  z[i].cum = e.cum
    <3>1. \A j \in DOMAIN s : i + 1 < j => s[j].type \notin Fills
      BY <2>1, <2>4, ShiftedNone DEF z
    <3> QED BY <1>4, <2>1, <3>1 DEF FillsChain
  <2>5. ASSUME NEW k \in DOMAIN z, i < k, z[k].type \in Fills,
               \A j \in DOMAIN z : i < j /\ j < k => z[j].type \notin Fills
        PROVE  z[k].cum = z[i].cum + z[k].qty
    <3>1. z[k] = s[k + 1] /\ k + 1 \in DOMAIN s /\ i + 1 < k + 1 /\ k \in Nat
      BY <1>1, <2>1, <2>5
    <3>2. \A j \in DOMAIN s : i + 1 < j /\ j < k + 1 => s[j].type \notin Fills
      BY <2>1, <2>5, <3>1, ShiftedNone DEF z
    <3>3. s[i + 1].type \in Fills /\ s[k + 1].type \in Fills
      BY <1>4, <2>1, <2>5, <3>1
    <3>4. s[k + 1].cum = s[i + 1].cum + s[k + 1].qty
      BY <2>1, <3>1, <3>2, <3>3 DEF FillsChain
    <3> QED BY <2>1, <3>1, <3>4
  <2> QED BY <2>2, <2>3, <2>4, <2>5
<1>5. ASSUME \A j \in DOMAIN z : z[j].type \notin Fills
      PROVE  t.filled = e.cum
  <2>1. \A j \in DOMAIN s : 1 < j => s[j].type \notin Fills
    <3>1. \A j \in DOMAIN s : 0 + 1 < j => s[j].type \notin Fills
      BY <1>5, ShiftedNone DEF z
    <3> QED BY <3>1
  <2>2. CASE m.type \in Fills
    BY <1>1, <1>2, <2>1, <2>2 DEF FillsChain
  <2>3. CASE m.type \notin Fills
    <3>1. \A j \in DOMAIN s : s[j].type \notin Fills
      BY <1>1, <2>1, <2>3
    <3> QED BY <2>3, <3>1 DEF FillsChain, m
  <2> QED BY <2>2, <2>3
<1> QED BY <1>3, <1>4, <1>5 DEF FillsChain, z

\* The container takes the first response and turns the order into t, which is at
\* most as live and has booked the fill if it was one.
LEMMA TracedTaken ==
  ASSUME NEW r \in Order, NEW t, NEW q \in Seq(Request), NEW s \in Seq(Response),
         s # <<>>, NEW e, NEW b, NEW n \in Nat, NEW g \in Nat, NEW h \in Nat, NEW c,
         Sound(r, q, s, e, b), Traced(r, q, s, e, n, g, c, TRUE),
         h = IF Head(s).type = "ModAck" THEN Head(s).id ELSE g,
         isOrderLive(t) => isOrderLive(r),
         IF Head(s).type \in Fills
           THEN /\ t.filled = r.filled + Head(s).qty
                /\ t.cumQty = r.cumQty + Head(s).qty
           ELSE t.filled = r.filled /\ t.cumQty = r.cumQty
  PROVE  Traced(t, q, Tail(s), e, n, h, c, FALSE)
<1>1. /\ IdsRise(r, q, Tail(s), n, h)
      /\ IdsKnown(Tail(s), e, h)
      /\ IdsHeld(q, Tail(s), e, h, c, FALSE)
  BY IdsTaken
<1>2. IdsRise(t, q, Tail(s), n, h)
  BY <1>1 DEF IdsRise
<1>3. FillsChain(t, Tail(s), e)
  BY ChainTaken, OrderFields DEF Traced
<1> QED BY <1>1, <1>2, <1>3 DEF Traced

--------------------------------------------------------------------------------
(***************************************************************************)
(* Traced orders stay traced: what the exchange does                       *)
(***************************************************************************)

\* The reports of fills ahead of a new response, which is the last of them or none.
LEMMA ChainExtended ==
  ASSUME NEW r, NEW s \in Seq(Response), NEW e \in Exchanges, NEW f \in Exchanges,
         NEW m \in Response, FillsChain(r, s, e),
         IF m.type \in Fills
           THEN f.cum = e.cum + m.qty /\ m.cum = f.cum /\ 1 <= m.qty
           ELSE f.cum = e.cum
  PROVE  FillsChain(r, Append(s, m), f)
<1> DEFINE a == Append(s, m)
           l == Len(s) + 1
<1>1. /\ l \in DOMAIN a /\ a[l] = m /\ l \in Nat
      /\ \A i \in DOMAIN s : i \in DOMAIN a /\ i \in Nat /\ i < l /\ a[i] = s[i]
      /\ \A i \in DOMAIN a : i = l \/ i \in DOMAIN s
  BY Extended, ResponseFields
<1> HIDE DEF a, l
<1>2. CASE m.type \notin Fills
  <2>1. ASSUME NEW i \in DOMAIN a, a[i].type \in Fills
        PROVE  /\ 1 <= a[i].qty
               /\ (\A j \in DOMAIN a : j < i => a[j].type \notin Fills) =>
                    a[i].cum = r.filled + a[i].qty
               /\ (\A j \in DOMAIN a : i < j => a[j].type \notin Fills) =>
                    a[i].cum = f.cum
               /\ \A k \in DOMAIN a :
                    /\ i < k /\ a[k].type \in Fills
                    /\ \A j \in DOMAIN a : i < j /\ j < k => a[j].type \notin Fills
                    => a[k].cum = a[i].cum + a[k].qty
    <3>1. i \in DOMAIN s /\ a[i] = s[i]
      BY <1>1, <1>2, <2>1
    <3> QED BY <1>1, <1>2, <2>1, <3>1 DEF FillsChain
  <2>2. (\A j \in DOMAIN a : a[j].type \notin Fills) => r.filled = f.cum
    BY <1>1, <1>2 DEF FillsChain
  <2> QED BY <2>1, <2>2 DEF FillsChain, a
<1>3. CASE m.type \in Fills
  <2>1. ASSUME NEW i \in DOMAIN s, a[i].type \in Fills
        PROVE  /\ 1 <= a[i].qty
               /\ (\A j \in DOMAIN a : j < i => a[j].type \notin Fills) =>
                    a[i].cum = r.filled + a[i].qty
               /\ (\A j \in DOMAIN a : i < j => a[j].type \notin Fills) =>
                    a[i].cum = f.cum
               /\ \A k \in DOMAIN a :
                    /\ i < k /\ a[k].type \in Fills
                    /\ \A j \in DOMAIN a : i < j /\ j < k => a[j].type \notin Fills
                    => a[k].cum = a[i].cum + a[k].qty
    <3>1. a[i] = s[i] /\ i < l
      BY <1>1
    <3>2. ASSUME NEW k \in DOMAIN a, i < k, a[k].type \in Fills,
                 \A j \in DOMAIN a : i < j /\ j < k => a[j].type \notin Fills
          PROVE  a[k].cum = a[i].cum + a[k].qty
      <4>1. CASE k \in DOMAIN s
        <5>1. \A j \in DOMAIN s : i < j /\ j < k => s[j].type \notin Fills
          BY <1>1, <3>2
        <5>2. a[k] = s[k]
          BY <1>1, <4>1
        <5> QED BY <2>1, <3>1, <3>2, <4>1, <5>1, <5>2 DEF FillsChain
      <4>2. CASE k = l
        <5>1. \A j \in DOMAIN s : i < j => s[j].type \notin Fills
          BY <1>1, <3>2, <4>2
        <5>2. s[i].cum = e.cum
          BY <2>1, <3>1, <5>1 DEF FillsChain
        <5> QED BY <1>1, <1>3, <3>1, <4>2, <5>2
      <4> QED BY <1>1, <4>1, <4>2
    <3>3. 1 <= a[i].qty
      BY <2>1, <3>1 DEF FillsChain
    <3>4. (\A j \in DOMAIN a : j < i => a[j].type \notin Fills) =>
            a[i].cum = r.filled + a[i].qty
      BY <1>1, <2>1, <3>1 DEF FillsChain
    <3>5. ~(\A j \in DOMAIN a : i < j => a[j].type \notin Fills)
      BY <1>1, <1>3, <3>1
    <3> QED BY <3>2, <3>3, <3>4, <3>5
  <2>2. /\ 1 <= a[l].qty
        /\ (\A j \in DOMAIN a : j < l => a[j].type \notin Fills) =>
             a[l].cum = r.filled + a[l].qty
        /\ a[l].cum = f.cum
        /\ \A k \in DOMAIN a : ~(l < k)
    <3>1. (\A j \in DOMAIN a : j < l => a[j].type \notin Fills) => r.filled = e.cum
      BY <1>1 DEF FillsChain
    <3>2. \A k \in DOMAIN a : ~(l < k)
      BY <1>1
    <3> QED BY <1>1, <1>3, <3>1, <3>2
  <2>3. ~(\A j \in DOMAIN a : a[j].type \notin Fills)
    BY <1>1, <1>3
  <2>4. r.filled = r.cumQty
    BY DEF FillsChain
  <2> QED BY <1>1, <2>1, <2>2, <2>3, <2>4, ZenonT(40) DEF FillsChain, a
<1> QED BY <1>2, <1>3

\* The exchange answers the first request.
LEMMA TracedAnswered ==
  ASSUME NEW r, NEW q \in Seq(Request), q # <<>>, NEW s \in Seq(Response),
         NEW e \in Exchanges, NEW f \in Exchanges, NEW b, NEW n \in Nat,
         NEW g \in Nat, NEW c, NEW p \in BOOLEAN, p => s # <<>>,
         NEW m \in Response, m.id = Head(q).id, m.orig = Head(q).orig,
         f.cum = e.cum,
         \/ /\ Head(q).type = "New" /\ m.type = "NewAck"
            /\ f.status = "Open" /\ f.id = m.id
         \/ Head(q).type = "New" /\ m.type = "NewRej" /\ f.status = "Closed"
         \/ /\ Head(q).type = "Mod" /\ m.type = "ModAck"
            /\ e.status = "Open" /\ f.status = "Open" /\ f.id = m.id
         \/ Head(q).type \in {"Mod", "Cxl"} /\ m.type \in {"ModRej", "CxlRej"} /\ f = e
         \/ /\ Head(q).type = "Cxl" /\ m.type = "CxlAck"
            /\ e.status = "Open" /\ f.status = "Closed",
         Sound(r, q, s, e, b), Traced(r, q, s, e, n, g, c, p)
  PROVE  Traced(r, Tail(q), Append(s, m), f, n, g, c, p)
<1> DEFINE a == Append(s, m)
           l == Len(s) + 1
           z == Tail(q)
<1>1. /\ l \in DOMAIN a /\ a[l] = m /\ l \in Nat
      /\ \A i \in DOMAIN s : i \in DOMAIN a /\ i \in Nat /\ i < l /\ a[i] = s[i]
      /\ \A i \in DOMAIN a : i = l \/ i \in DOMAIN s
      /\ s = <<>> => l = 1 /\ DOMAIN s = {}
      /\ s # <<>> => 1 \in DOMAIN s
  BY Extended, ResponseFields
<1>2. /\ 1 \in DOMAIN q /\ q[1] = Head(q)
      /\ \A i \in DOMAIN z :
           i \in Nat /\ 1 < i + 1 /\ i + 1 \in DOMAIN q /\ z[i] = q[i + 1]
  BY Shifted
<1>3. /\ \A i \in DOMAIN q : q[i].id \in Nat /\ q[i].orig \in Nat
      /\ \A i \in DOMAIN s : s[i].id \in Nat /\ s[i].orig \in Nat
  BY RequestFields, ResponseFields
<1>4. /\ m.id < n /\ m.id \in c
      /\ m.type \in NewAnswers <=> Head(q).type = "New"
      /\ m.type \in NewAnswers => m.id = g /\ m.orig = NoId /\ s = <<>>
      /\ m.type \notin NewAnswers => g < m.id /\ m.orig <= g /\ m.orig # NoId
  <2>1. m.id < n /\ m.id \in c
    BY <1>2 DEF Traced, IdsRise, IdsHeld
  <2>2. m.type \in NewAnswers <=> Head(q).type = "New"
    BY DEF NewAnswers
  <2>3. Head(q).type = "New" => m.id = g /\ m.orig = NoId /\ s = <<>>
    BY <1>2 DEF Traced, IdsRise, Sound, NewSound
  <2>4. Head(q).type # "New" => g < m.id /\ m.orig <= g /\ m.orig # NoId
    BY <1>2 DEF Traced, IdsRise
  <2> QED BY <2>1, <2>2, <2>3, <2>4
<1>5. ~Reported(m) /\ m.type \notin Fills
  BY <1>4 DEF Reported, Fills, NewAnswers
<1> HIDE DEF a, l, z
<1>6. IdsRise(r, z, a, n, g)
  <2>1. /\ \A i \in DOMAIN z :
             /\ z[i].id < n
             /\ IF z[i].type = "New" THEN z[i].id = g /\ z[i].orig = NoId
                  ELSE g < z[i].id /\ z[i].orig <= g /\ z[i].orig # NoId
        /\ \A i, j \in DOMAIN z : i < j => z[i].id < z[j].id
    <3>1. \A i, j \in DOMAIN z : i < j => i + 1 < j + 1
      BY <1>2
    <3> QED BY <1>2, <3>1 DEF Traced, IdsRise
  <2>2. \A j \in DOMAIN z : m.id < z[j].id
    BY <1>2 DEF Traced, IdsRise
  <2>3. \A i \in DOMAIN s : ~Reported(s[i]) => s[i].id < m.id
    BY <1>2 DEF Traced, IdsRise
  <2>4. ASSUME NEW i \in DOMAIN a, ~Reported(a[i])
        PROVE  /\ a[i].id < n
               /\ IF a[i].type \in NewAnswers
                    THEN i = 1 /\ a[i].id = g /\ a[i].orig = NoId
                    ELSE g < a[i].id /\ a[i].orig <= g
               /\ \A j \in DOMAIN a : i < j /\ ~Reported(a[j]) => a[i].id < a[j].id
               /\ \A j \in DOMAIN z : a[i].id < z[j].id
    <3>1. CASE i = l
      <4>1. \A j \in DOMAIN a : ~(l < j)
        BY <1>1
      <4> QED BY <1>1, <1>4, <2>2, <3>1, <4>1
    <3>2. CASE i \in DOMAIN s
      <4>1. a[i] = s[i]
        BY <1>1, <3>2
      <4>2. /\ a[i].id < n
            /\ IF a[i].type \in NewAnswers
                 THEN i = 1 /\ a[i].id = g /\ a[i].orig = NoId
                 ELSE g < a[i].id /\ a[i].orig <= g
            /\ \A j \in DOMAIN s : i < j /\ ~Reported(s[j]) => s[i].id < s[j].id
            /\ \A j \in DOMAIN q : s[i].id < q[j].id
        BY <2>4, <3>2, <4>1 DEF Traced, IdsRise
      <4>3. \A j \in DOMAIN a : i < j /\ ~Reported(a[j]) => a[i].id < a[j].id
        BY <1>1, <2>3, <2>4, <3>2, <4>1, <4>2
      <4>4. \A j \in DOMAIN z : a[i].id < z[j].id
        BY <1>2, <4>1, <4>2
      <4> QED BY <4>2, <4>3, <4>4
    <3> QED BY <1>1, <3>1, <3>2
  <2> QED BY <2>1, <2>4 DEF Traced, IdsRise
<1>7. IdsKnown(a, f, g)
  <2>1. ASSUME NEW i \in DOMAIN a, Reported(a[i])
        PROVE  /\ a[i].orig = NoId
               /\ (\A j \in DOMAIN a : j < i => a[j].type \notin Acks) => a[i].id = g
               /\ \A k \in DOMAIN a :
                    /\ k < i /\ a[k].type \in Acks
                    /\ \A j \in DOMAIN a : k < j /\ j < i => a[j].type \notin Acks
                    => a[i].id = a[k].id
    <3>1. i \in DOMAIN s /\ a[i] = s[i] /\ i < l
      BY <1>1, <1>5, <2>1
    <3>2. \A k \in DOMAIN a : k < i => k \in DOMAIN s /\ a[k] = s[k]
      BY <1>1, <3>1
    <3> QED BY <1>1, <2>1, <3>1, <3>2, SMTT(40) DEF Traced, IdsKnown
  <2>2. ASSUME f.status = "Open"
        PROVE  /\ (\A j \in DOMAIN a : a[j].type \notin Acks) => f.id = g
               /\ \A k \in DOMAIN a :
                    /\ a[k].type \in Acks
                    /\ \A j \in DOMAIN a : k < j => a[j].type \notin Acks
                    => f.id = a[k].id
    <3>1. CASE m.type \in Acks
      <4>1. f.id = m.id
        BY <3>1 DEF Acks
      <4>2. ~(\A j \in DOMAIN a : a[j].type \notin Acks)
        BY <1>1, <3>1
      <4>3. \A k \in DOMAIN s : ~(\A j \in DOMAIN a : k < j => a[j].type \notin Acks)
        BY <1>1, <3>1
      <4> QED BY <1>1, <4>1, <4>2, <4>3
    <3>2. CASE m.type \notin Acks
      <4>1. f = e
        BY <2>2, <3>2 DEF Acks
      <4> QED BY <1>1, <2>2, <3>2, <4>1 DEF Traced, IdsKnown
    <3> QED BY <3>1, <3>2
  <2> QED BY <2>1, <2>2 DEF IdsKnown
<1>8. IdsHeld(z, a, f, g, c, p)
  <2>1. \A i \in DOMAIN z : z[i].id \in c
    BY <1>2 DEF Traced, IdsHeld
  <2>2. ASSUME NEW i \in DOMAIN a, ~Reported(a[i]), p /\ i = 1 => a[i].type = "ModAck"
        PROVE  a[i].id \in c
    <3>1. CASE i = l
      BY <1>1, <1>4, <3>1
    <3>2. CASE i \in DOMAIN s
      BY <1>1, <2>2, <3>2 DEF Traced, IdsHeld
    <3> QED BY <1>1, <3>1, <3>2
  <2>3. ASSUME \/ f.status = "Open"
               \/ \E i \in DOMAIN a : a[i].type \in Closing /\ (p => i # 1)
        PROVE  (p /\ a[1].type = "ModAck") \/ g \in c
    <3>1. CASE m.type \in NewAnswers
      BY <1>4, <3>1
    <3>2. CASE m.type \notin NewAnswers
      <4>1. \/ e.status = "Open"
            \/ \E i \in DOMAIN s : s[i].type \in Closing /\ (p => i # 1)
        <5>1. m.type \in Closing => e.status = "Open"
          BY DEF Closing, Fills
        <5>2. f.status = "Open" => e.status = "Open"
          BY <3>2 DEF NewAnswers
        <5> QED BY <1>1, <2>3, <5>1, <5>2
      <4>2. (p /\ s[1].type = "ModAck") \/ g \in c
        BY <4>1 DEF Traced, IdsHeld
      <4>3. p => a[1] = s[1]
        BY <1>1
      <4> QED BY <4>2, <4>3
    <3> QED BY <3>1, <3>2
  <2> QED BY <2>1, <2>2, <2>3 DEF IdsHeld
<1>9. FillsChain(r, a, f)
  BY <1>5, ChainExtended DEF Traced, a
<1> QED BY <1>6, <1>7, <1>8, <1>9 DEF Traced, a, z

\* The exchange reports a fill or the end of an open order.
LEMMA TracedReported ==
  ASSUME NEW r, NEW q \in Seq(Request), NEW s \in Seq(Response),
         NEW e \in Exchanges, NEW f \in Exchanges, NEW n \in Nat,
         NEW g \in Nat, NEW c, NEW p \in BOOLEAN, p => s # <<>>,
         NEW m \in Response, m.id = e.id, m.orig = NoId, e.status = "Open",
         \/ /\ m.type \in Fills /\ f.id = e.id
            /\ f.cum = e.cum + m.qty /\ m.cum = f.cum /\ 1 <= m.qty
         \/ m.type = "CxlAck" /\ f.status = "Closed" /\ f.cum = e.cum,
         Traced(r, q, s, e, n, g, c, p)
  PROVE  Traced(r, q, Append(s, m), f, n, g, c, p)
<1> DEFINE a == Append(s, m)
           l == Len(s) + 1
<1>1. /\ l \in DOMAIN a /\ a[l] = m /\ l \in Nat
      /\ \A i \in DOMAIN s : i \in DOMAIN a /\ i \in Nat /\ i < l /\ a[i] = s[i]
      /\ \A i \in DOMAIN a : i = l \/ i \in DOMAIN s
      /\ s # <<>> => 1 \in DOMAIN s
  BY Extended, ResponseFields
<1>2. Reported(m) /\ m.type \notin Acks
  BY DEF Reported, Acks, Fills
<1> HIDE DEF a, l
<1>3. IdsRise(r, q, a, n, g)
  <2>1. ASSUME NEW i \in DOMAIN a, ~Reported(a[i])
        PROVE  /\ a[i].id < n
               /\ IF a[i].type \in NewAnswers
                    THEN i = 1 /\ a[i].id = g /\ a[i].orig = NoId
                    ELSE g < a[i].id /\ a[i].orig <= g
               /\ \A j \in DOMAIN a : i < j /\ ~Reported(a[j]) => a[i].id < a[j].id
               /\ \A j \in DOMAIN q : a[i].id < q[j].id
    <3>1. i \in DOMAIN s /\ a[i] = s[i]
      BY <1>1, <1>2, <2>1
    <3> QED BY <1>1, <1>2, <2>1, <3>1 DEF Traced, IdsRise
  <2> QED BY <2>1 DEF Traced, IdsRise
<1>4. IdsKnown(a, f, g)
  <2>1. ASSUME NEW i \in DOMAIN a, Reported(a[i])
        PROVE  /\ a[i].orig = NoId
               /\ (\A j \in DOMAIN a : j < i => a[j].type \notin Acks) => a[i].id = g
               /\ \A k \in DOMAIN a :
                    /\ k < i /\ a[k].type \in Acks
                    /\ \A j \in DOMAIN a : k < j /\ j < i => a[j].type \notin Acks
                    => a[i].id = a[k].id
    <3>1. CASE i \in DOMAIN s
      <4>1. \A k \in DOMAIN a : k < i => k \in DOMAIN s /\ a[k] = s[k]
        BY <1>1, <3>1
      <4> QED BY <1>1, <2>1, <3>1, <4>1, SMTT(40) DEF Traced, IdsKnown
    <3>2. CASE i = l
      <4>1. \A k \in DOMAIN a : k < i <=> k \in DOMAIN s
        BY <1>1, <3>2
      <4> QED BY <1>1, <3>2, <4>1 DEF Traced, IdsKnown
    <3> QED BY <1>1, <3>1, <3>2
  <2>2. ASSUME f.status = "Open"
        PROVE  /\ (\A j \in DOMAIN a : a[j].type \notin Acks) => f.id = g
               /\ \A k \in DOMAIN a :
                    /\ a[k].type \in Acks
                    /\ \A j \in DOMAIN a : k < j => a[j].type \notin Acks
                    => f.id = a[k].id
    BY <1>1, <1>2, <2>2 DEF Traced, IdsKnown
  <2> QED BY <2>1, <2>2 DEF IdsKnown
<1>5. IdsHeld(q, a, f, g, c, p)
  <2>1. (p /\ s[1].type = "ModAck") \/ g \in c
    BY DEF Traced, IdsHeld
  <2>2. p => a[1] = s[1]
    BY <1>1
  <2>3. ASSUME NEW i \in DOMAIN a, ~Reported(a[i]), p /\ i = 1 => a[i].type = "ModAck"
        PROVE  a[i].id \in c
    BY <1>1, <1>2, <2>3 DEF Traced, IdsHeld
  <2>4. \A i \in DOMAIN q : q[i].id \in c
    BY DEF Traced, IdsHeld
  <2> QED BY <2>1, <2>2, <2>3, <2>4 DEF IdsHeld
<1>6. FillsChain(r, a, f)
  BY ChainExtended DEF Traced, a, Fills
<1> QED BY <1>3, <1>4, <1>5, <1>6 DEF Traced, a

--------------------------------------------------------------------------------
(***************************************************************************)
(* What a step makes of its order                                          *)
(***************************************************************************)

\* The order keeps its place in the table and its share of the counters.
Kept(r, t) ==
  /\ t.cumQty = r.cumQty /\ t.filled = r.filled /\ t.booked = r.booked
  /\ t.inTable = r.inTable
  /\ t.state = "Unknown" <=> r.state = "Unknown"
  /\ isOrderLive(t) <=> isOrderLive(r)

\* A new that passes ProcessorRisk enters the table.
Opened(o, r, t) ==
  /\ r.state = "Unknown" /\ t.state = "Pending" /\ t.inTable
  /\ t.cumQty = r.cumQty /\ t.filled = r.filled
  /\ t.booked = r.booked + (r.qty - r.cumQty)
  /\ RiskAllows(o, t)

\* One that anything refuses does not, and what it added to the counters is taken
\* off again.
Refused(o, r, t) ==
  /\ r.state = "Unknown" /\ t.state = "Rejected" /\ ~t.inTable
  /\ t.cumQty = r.cumQty /\ t.filled = r.filled
  /\ Book[o].price \in Prices => t.booked = r.booked

\* The order leaves the table with what it has open.
Ended(r, t) ==
  /\ r.inTable /\ ~t.inTable /\ t.state \in Dead
  /\ t.cumQty = r.cumQty /\ t.filled = r.filled
  /\ t.booked = r.booked - (r.qty - r.cumQty)

\* The order trades q, and leaves the table if that was all.
Traded(r, t, q) ==
  /\ r.inTable /\ r.cumQty + q <= r.qty
  /\ t.cumQty = r.cumQty + q /\ t.filled = r.filled + q /\ t.booked = r.booked - q
  /\ t.inTable <=> r.cumQty + q < r.qty
  /\ IF t.inTable THEN t.state = r.state ELSE t.state = "Filled"

\* A quiet handler keeps the order's share.
LEMMA QuietKept ==
  ASSUME NEW r, NEW t, Quiet(r, t)
  PROVE  Kept(r, t)
BY DEF Quiet, Kept

\* A cancel that leaves has been entered into the channel's table.
LEMMA SendsAdd ==
  ASSUME NEW r, NEW outcome \in Outcomes
  PROVE  /\ CxlChain(r, outcome).sends => CxlChain(r, outcome).adds
         /\ checkCancelOnAck(r, outcome).sends => checkCancelOnAck(r, outcome).adds
<1>1. \A x : CxlChain(x, outcome).sends => CxlChain(x, outcome).adds
  BY DEF CxlChain, CxlResult
<1> QED BY <1>1 DEF checkCancelOnAck, CxlResult

\* A new enters the table within the limit, or not at all.
LEMMA NewMoves ==
  ASSUME TypeOK, AllSound, NEW o \in Orders, SendNew(o)
  PROVE  /\ ord'[o] \in Order /\ Store(o, ord'[o])
         /\ Opened(o, ord[o], ord'[o]) \/ Refused(o, ord[o], ord'[o])
         /\ ord'[o].state = "Pending" =>
              /\ AddOrder(o) /\ origId' = [origId EXCEPT ![o] = nextId[o]]
              /\ Send(o, "New", NoId, ord'[o].price)
<1> DEFINE r == ord[o]
           v == sendNew(r)
           w == onNewRej(v.order)
           pending == [r EXCEPT !.state = "Pending"]
<1>1. r \in Order /\ ord \in [Orders -> Order]
  BY DEF TypeOK
<1>2. r.state = "Unknown"
  BY DEF SendNew
<1>3. /\ r.qty \in Int /\ r.cumQty \in Int /\ r.booked \in Int
      /\ r.qty = Book[o].qty /\ r.qty \in Nat /\ r.cumQty = 0
      /\ r.price = Book[o].price
  <2>1. Book[o].qty \in Nat
    BY FlowAssumption
  <2> QED BY <1>1, <1>2, <2>1, OrderFields DEF AllSound, Sound, BooksSound
<1>4. v.order \in Order /\ w \in Order
  BY <1>1, OutboundType, InboundType
<1>5. pending \in Order
  BY <1>1, StateType DEF States
<1>6. ~v.ok => Refused(o, r, v.order)
  <2> SUFFICES ASSUME ~v.ok
               PROVE  Refused(o, r, v.order)
    OBVIOUS
  <2>1. v.order = onNewRej(pending) /\ (r.qty <= 0 \/ r.price = InvalidPrice)
    BY <1>2 DEF sendNew, Verdict
  <2>2. /\ v.order.state = "Rejected" /\ ~v.order.inTable
        /\ v.order.cumQty = r.cumQty /\ v.order.filled = r.filled
        /\ v.order.booked = r.booked - (r.qty - r.cumQty)
    BY <1>1, <2>1 DEF onNewRej, remove, Order
  <2>3. Book[o].price \in Prices => v.order.booked = r.booked
    BY <1>3, <2>1, <2>2, PricesAssumption
  <2> QED BY <1>2, <2>2, <2>3 DEF Refused
<1>7. v.ok => /\ v.order.state = "Pending" /\ v.order.inTable
              /\ v.order.cumQty = r.cumQty /\ v.order.filled = r.filled
              /\ v.order.qty = r.qty
              /\ v.order.booked = r.booked + (r.qty - r.cumQty)
  <2>1. v.ok => v.order = add(pending)
    BY <1>2 DEF sendNew, Verdict
  <2>2. /\ add(pending).state = "Pending" /\ add(pending).inTable
        /\ add(pending).cumQty = r.cumQty /\ add(pending).filled = r.filled
        /\ add(pending).qty = r.qty
        /\ add(pending).booked = r.booked + (r.qty - r.cumQty)
    BY <1>1 DEF add, Order
  <2> QED BY <2>1, <2>2
<1> HIDE DEF v
<1>8. v.ok => Refused(o, r, w)
  <2> SUFFICES ASSUME v.ok
               PROVE  Refused(o, r, w)
    OBVIOUS
  <2> DEFINE u == v.order
  <2>1. u \in Order /\ u.state = "Pending" /\ w = onNewRej(u)
    BY <1>4, <1>7
  <2> HIDE DEF u, w
  <2>2. /\ w.state = "Rejected" /\ ~w.inTable
        /\ w.cumQty = u.cumQty /\ w.filled = u.filled
        /\ w.booked = u.booked - (u.qty - u.cumQty)
    BY <2>1 DEF onNewRej, remove, Order
  <2>3. w.booked = r.booked /\ w.cumQty = r.cumQty /\ w.filled = r.filled
    BY <1>3, <1>7, <2>2 DEF u
  <2> QED BY <1>2, <2>2, <2>3 DEF Refused
<1>9. v.ok /\ RiskAllows(o, v.order) => Opened(o, r, v.order)
  BY <1>2, <1>7 DEF Opened
<1> DEFINE sent == /\ AddOrder(o) /\ origId' = [origId EXCEPT ![o] = nextId[o]]
                   /\ Send(o, "New", NoId, v.order.price)
<1>10. \/ ~v.ok /\ Store(o, v.order)
       \/ v.ok /\ Store(o, w)
       \/ v.ok /\ RiskAllows(o, v.order) /\ Store(o, v.order) /\ sent
  BY DEF SendNew, v
<1>11. \A t : Store(o, t) => ord'[o] = t
  BY <1>1 DEF Store
<1> HIDE DEF w, r, sent
<1>12. \/ ord'[o] = v.order /\ Refused(o, r, v.order) /\ Store(o, v.order)
       \/ ord'[o] = w /\ Refused(o, r, w) /\ Store(o, w)
       \/ ord'[o] = v.order /\ Opened(o, r, v.order) /\ Store(o, v.order) /\ sent
  BY <1>6, <1>8, <1>9, <1>10, <1>11
<1>13. \A t : Refused(o, r, t) => t.state # "Pending"
  BY DEF Refused
<1> QED BY <1>4, <1>12, <1>13 DEF r, sent

\* A modify keeps the order's share, and leaves under the clOrdId just drawn.
LEMMA ModMoves ==
  ASSUME TypeOK, AllSound, NEW o \in Orders, NEW p \in Prices, SendMod(o, p)
  PROVE  /\ ord'[o] \in Order /\ Store(o, ord'[o]) /\ Kept(ord[o], ord'[o])
         /\ \/ UNCHANGED <<nextId, chan, req>>
            \/ AddOrder(o) /\ UNCHANGED req
            \/ /\ AddOrder(o) /\ Send(o, "Mod", origId[o], p)
               /\ isOrderLive(ord'[o])
<1> DEFINE x == [ord[o] EXCEPT !.newPrice = p]
           v == sendMod(x)
           w == onModRej(v.order)
<1>1. ord[o] \in Order /\ ord \in [Orders -> Order]
  BY DEF TypeOK
<1>2. x \in Order /\ Quiet(ord[o], x)
  BY <1>1 DEF Order, Quiet, isOrderLive
<1>3. v.order \in Order /\ Quiet(x, v.order)
  <2> HIDE DEF x
  <2> QED BY <1>2, OutboundType, QuietHandlers
<1>4. v.ok => v.order.state = "Modifying"
  BY <1>1 DEF sendMod, Verdict, Order
<1> HIDE DEF x, v
<1>5. Quiet(ord[o], v.order)
  BY <1>1, <1>2, <1>3, QuietTrans
<1>6. w \in Order /\ Quiet(v.order, w)
  BY <1>3, InboundType, QuietHandlers
<1> HIDE DEF w
<1>7. Quiet(ord[o], w)
  BY <1>1, <1>3, <1>5, <1>6, QuietTrans
<1>8. /\ onModRejPost(w, TRUE) \in Order /\ Quiet(w, onModRejPost(w, TRUE))
      /\ onModRejPost(w, FALSE) \in Order /\ Quiet(w, onModRejPost(w, FALSE))
  BY <1>6, InboundType, QuietHandlers
<1>9. /\ Kept(ord[o], onModRejPost(w, TRUE)) /\ Kept(ord[o], onModRejPost(w, FALSE))
      /\ Kept(ord[o], v.order)
  BY <1>1, <1>5, <1>6, <1>7, <1>8, QuietTrans, QuietKept
<1>10. \A t : Store(o, t) => ord'[o] = t
  BY <1>1 DEF Store
<1>11. \/ Store(o, onModRejPost(w, TRUE)) /\ UNCHANGED <<nextId, chan, req>>
       \/ /\ Store(o, onModRejPost(w, FALSE)) /\ UNCHANGED req
          /\ UNCHANGED <<nextId, chan>> \/ AddOrder(o)
       \/ /\ v.ok /\ Store(o, v.order)
          /\ AddOrder(o) /\ Send(o, "Mod", origId[o], p)
  BY DEF SendMod, v, w, x
<1>12. v.order.state = "Modifying" => isOrderLive(v.order)
  BY DEF isOrderLive
<1> QED BY <1>3, <1>4, <1>8, <1>9, <1>10, <1>11, <1>12

\* What the container puts on the wire while it handles a response: a cancel under
\* a clOrdId just drawn, for an order that lives, or nothing.
Released(o, c) ==
  /\ c.order = ord'[o]
  /\ c.sends => c.adds /\ isOrderLive(c.order)
  /\ Emit(o, c, origId'[o])

\* A response makes the order trade what a fill reports; any other one keeps its
\* share or ends it.
LEMMA InboundMoves ==
  ASSUME TypeOK, PickedThere, AllSound, NEW o \in Orders, Inbound(o)
  PROVE  /\ ord'[o] \in Order /\ Store(o, ord'[o])
         /\ IF Head(resp[o]).type \in Fills
              THEN Traded(ord[o], ord'[o], Head(resp[o]).qty)
              ELSE Kept(ord[o], ord'[o]) \/ Ended(ord[o], ord'[o])
         /\ origId' = [origId EXCEPT ![o] =
                         IF Head(resp[o]).type = "ModAck" THEN Head(resp[o]).id ELSE @]
         /\ \E c : Released(o, c)
<1> DEFINE m == Head(resp[o])
           r == ord[o]
<1>1. /\ r \in Order /\ ord \in [Orders -> Order]
      /\ resp[o] \in Seq(Response) /\ ex[o] \in Exchanges
      /\ origId \in [Orders -> Nat]
      /\ Book[o] \in [side : Sides, qty : Nat, price : Prices \cup {InvalidPrice}]
  BY FlowAssumption DEF TypeOK
<1>2. Sound(r, req[o], resp[o], ex[o], Book[o])
  BY DEF AllSound
<1>3. resp[o] # <<>>
  BY DEF Inbound, OnNewAck, OnNewAckReentrant, OnNewRej, OnModAck, OnModRej,
         OnCxlAck, OnCxlRej, OnFill, OnBust, Take, PickedThere
<1>4. /\ m \in Response /\ 1 \in DOMAIN resp[o] /\ m = resp[o][1]
      /\ m.price \in Prices \cup {InvalidPrice} /\ m.qty \in Nat /\ m.cum \in Nat
  <2>1. m \in Response /\ 1 \in DOMAIN resp[o] /\ m = resp[o][1]
    BY <1>1, <1>3
  <2> QED BY <2>1 DEF Response
<1>5. r.state # "Unknown"
  BY <1>1, <1>2, <1>3, SoundTaken
<1>6. \A t : Store(o, t) => ord'[o] = t
  BY <1>1 DEF Store
<1>7. UNCHANGED origId =>
        origId' = [origId EXCEPT ![o] = IF m.type = "ModAck" THEN m.id ELSE @]
          \/ m.type = "ModAck"
  BY <1>1
<1> HIDE DEF m, r
<1>8. ASSUME NEW t \in Order, Kept(r, t) \/ Ended(r, t) \/ Traded(r, t, m.qty),
             Store(o, t), UNCHANGED wire
      PROVE  /\ ord'[o] = t /\ \E c : Released(o, c)
             /\ UNCHANGED origId
  <2> DEFINE c == CxlResult(t, FALSE, FALSE)
  <2>1. c.order = ord'[o] /\ ~c.sends /\ ~c.adds
    BY <1>6, <1>8 DEF CxlResult
  <2>2. Emit(o, c, origId'[o])
    BY <1>8, <2>1 DEF Emit, wire
  <2> HIDE DEF c
  <2>3. Released(o, c)
    BY <2>1, <2>2 DEF Released
  <2> QED BY <1>6, <1>8, <2>3 DEF wire
<1>9. ASSUME NEW x \in Order, Kept(r, x), NEW outcome \in Outcomes,
             Store(o, checkCancelOnAck(x, outcome).order),
             Emit(o, checkCancelOnAck(x, outcome), origId'[o])
      PROVE  /\ ord'[o] \in Order /\ Store(o, ord'[o]) /\ Kept(r, ord'[o])
             /\ \E c : Released(o, c)
  <2> DEFINE c == checkCancelOnAck(x, outcome)
  <2>1. /\ c.order \in Order /\ Quiet(x, c.order)
        /\ c.sends => c.order.state = "Cancelling" /\ c.adds
    BY ChainType, QuietCheck, SendsAdd
  <2>2. ord'[o] = c.order /\ Emit(o, c, origId'[o]) /\ Store(o, c.order)
    BY <1>6, <1>9
  <2> HIDE DEF c
  <2>3. Kept(x, c.order)
    BY <2>1, QuietKept
  <2>4. Kept(r, c.order)
    BY <1>9, <2>3 DEF Kept
  <2>5. Released(o, c)
    BY <2>1, <2>2 DEF Released, isOrderLive
  <2> QED BY <2>1, <2>2, <2>4, <2>5
<1>10. ASSUME r.state # "Unknown"
       PROVE  onNewAck(r) \in Order /\ Kept(r, onNewAck(r))
  <2>1. onNewAck(r) \in Order
    BY <1>1, InboundType
  <2> QED BY <1>1, <1>10, <2>1 DEF onNewAck, Kept, isOrderLive, Order
<1>11. CASE OnNewAck(o)
  <2>1. PICK outcome \in Outcomes :
          /\ Store(o, checkCancelOnAck(onNewAck(r), outcome).order)
          /\ Emit(o, checkCancelOnAck(onNewAck(r), outcome), origId[o])
    BY <1>11 DEF OnNewAck, r
  <2>2. UNCHANGED origId /\ m.type = "NewAck"
    BY <1>11 DEF OnNewAck, Take, m
  <2>3. m.type \notin Fills
    BY <2>2 DEF Fills
  <2> QED BY <1>5, <1>7, <1>9, <1>10, <2>1, <2>2, <2>3 DEF m, r
<1>12. CASE OnNewAckReentrant(o)
  <2> DEFINE x == onNewAck(r)
             inner == CxlChain(x, "Pass")
             outer == checkCancelOnAck(inner.order, "Pass")
             c == CxlResult(outer.order, inner.adds \/ outer.adds,
                            inner.sends \/ outer.sends)
  <2>1. /\ Store(o, outer.order) /\ Emit(o, c, origId[o])
        /\ UNCHANGED origId /\ m.type = "NewAck"
    BY <1>12 DEF OnNewAckReentrant, Take, m, r
  <2>2. x \in Order /\ Kept(r, x)
    BY <1>5, <1>10
  <2>3. "Pass" \in Outcomes
    BY DEF Outcomes
  <2> HIDE DEF x
  <2>4. /\ inner.order \in Order /\ Quiet(x, inner.order)
        /\ inner.sends => /\ inner.order.state = "Cancelling" /\ inner.adds
                          /\ ~inner.order.cancelOnAck
    BY <2>2, <2>3, ChainType, QuietChain, SendsAdd
  <2> HIDE DEF inner
  <2>5. /\ outer.order \in Order /\ Quiet(inner.order, outer.order)
        /\ outer.sends => outer.order.state = "Cancelling" /\ outer.adds
        /\ ~inner.order.cancelOnAck => outer.order = inner.order
    BY <2>3, <2>4, ChainType, QuietCheck, SendsAdd DEF CxlResult
  <2> HIDE DEF outer
  <2>6. Kept(r, outer.order)
    BY <2>2, <2>4, <2>5, QuietKept DEF Kept
  <2>7. /\ c.order = outer.order
        /\ c.sends => c.adds /\ c.order.state = "Cancelling"
    BY <2>4, <2>5 DEF CxlResult
  <2> HIDE DEF c
  <2>8. Released(o, c)
    BY <1>6, <2>1, <2>7 DEF Released, isOrderLive
  <2>9. m.type \notin Fills
    BY <2>1 DEF Fills
  <2> QED BY <1>6, <1>7, <2>1, <2>5, <2>6, <2>8, <2>9 DEF m, r
<1>13. CASE OnModAck(o)
  <2> DEFINE x == [r EXCEPT !.newPrice = m.price]
             y == onModAck(x)
             w == onModAckPost(y)
  <2>1. PICK outcome \in Outcomes :
          /\ Store(o, checkCancelOnAck(w, outcome).order)
          /\ Emit(o, checkCancelOnAck(w, outcome), m.id)
    BY <1>13 DEF OnModAck, m, r
  <2>2. origId' = [origId EXCEPT ![o] = m.id] /\ m.type = "ModAck"
    BY <1>13 DEF OnModAck, Take, m
  <2>3. origId'[o] = m.id
    BY <1>1, <2>2
  <2>4. x \in Order /\ Quiet(r, x)
    BY <1>1, <1>4 DEF Order, Quiet, isOrderLive
  <2> HIDE DEF x
  <2>5. y \in Order /\ Quiet(x, y)
    BY <2>4, InboundType, QuietHandlers
  <2> HIDE DEF y
  <2>6. w \in Order /\ Quiet(y, w)
    BY <2>5, InboundType, QuietHandlers
  <2> HIDE DEF w
  <2>7. Kept(r, w)
    BY <1>1, <2>4, <2>5, <2>6, QuietTrans, QuietKept
  <2>8. m.type \notin Fills
    BY <2>2 DEF Fills
  <2> QED BY <1>9, <2>1, <2>2, <2>3, <2>6, <2>7, <2>8 DEF m, r
<1>14. CASE OnModRej(o)
  <2> DEFINE y == onModRej(r)
             w == onModRejPost(y, FALSE)
  <2>1. PICK outcome \in Outcomes :
          /\ Store(o, checkCancelOnAck(w, outcome).order)
          /\ Emit(o, checkCancelOnAck(w, outcome), origId[o])
    BY <1>14 DEF OnModRej, r
  <2>2. UNCHANGED origId /\ m.type = "ModRej"
    BY <1>14 DEF OnModRej, Take, m
  <2>3. y \in Order /\ Quiet(r, y)
    BY <1>1, InboundType, QuietHandlers
  <2> HIDE DEF y
  <2>4. w \in Order /\ Quiet(y, w)
    BY <2>3, InboundType, QuietHandlers
  <2> HIDE DEF w
  <2>5. Kept(r, w)
    BY <1>1, <2>3, <2>4, QuietTrans, QuietKept
  <2>6. m.type \notin Fills
    BY <2>2 DEF Fills
  <2> QED BY <1>7, <1>9, <2>1, <2>2, <2>4, <2>5, <2>6 DEF m, r
<1>15. CASE OnNewRej(o)
  <2>1. Store(o, onNewRej(r)) /\ UNCHANGED wire /\ m.type = "NewRej"
    BY <1>15 DEF OnNewRej, Take, m, r
  <2>2. onNewRej(r) \in Order
    BY <1>1, InboundType
  <2>3. r.state = "Pending" => r.inTable
    BY <1>2 DEF Sound, BooksSound, isOrderLive
  <2>4. Kept(r, onNewRej(r)) \/ Ended(r, onNewRej(r))
    BY <1>1, <1>5, <2>3 DEF onNewRej, remove, Order, Kept, Ended, Dead
  <2>5. m.type \notin Fills
    BY <2>1 DEF Fills
  <2> QED BY <1>7, <1>8, <2>1, <2>2, <2>4, <2>5 DEF m, r
<1>16. CASE OnCxlAck(o)
  <2>1. Store(o, onCxlAck(r)) /\ UNCHANGED wire /\ m.type = "CxlAck"
    BY <1>16 DEF OnCxlAck, Take, m, r
  <2>2. onCxlAck(r) \in Order
    BY <1>1, InboundType
  <2>3. r.inTable
    BY <1>2, <1>4, <2>1 DEF Sound, EndSound, Closing
  <2>4. Ended(r, onCxlAck(r))
    BY <1>1, <2>3 DEF onCxlAck, remove, Order, Ended, Dead
  <2>5. m.type \notin Fills
    BY <2>1 DEF Fills
  <2> QED BY <1>7, <1>8, <2>1, <2>2, <2>4, <2>5 DEF m, r
<1>17. CASE OnCxlRej(o)
  <2>1. Store(o, onCxlRej(r)) /\ UNCHANGED wire /\ m.type = "CxlRej"
    BY <1>17 DEF OnCxlRej, Take, m, r
  <2>2. onCxlRej(r) \in Order /\ Kept(r, onCxlRej(r))
    BY <1>1, InboundType, QuietHandlers, QuietKept
  <2>3. m.type \notin Fills
    BY <2>1 DEF Fills
  <2> QED BY <1>7, <1>8, <2>1, <2>2, <2>3 DEF m, r
<1>18. CASE OnFill(o)
  <2> DEFINE t == onFill(r, m.qty)
  <2>1. Store(o, t) /\ UNCHANGED wire /\ m.type \in Fills
    BY <1>18 DEF OnFill, Take, Fills, m, r
  <2>2. t \in Order
    BY <1>1, <1>4, FillType
  <2>3. r.inTable /\ r.state \notin Dead
    BY <1>2, <1>4, <2>1 DEF Sound, EndSound, Closing, BooksSound, isOrderLive, Dead
  <2>4. r.cumQty + m.qty <= r.qty /\ r.qty \in Int /\ r.cumQty \in Int /\ r.booked \in Int
    <3>1. /\ r.cumQty + m.qty <= m.cum /\ m.cum <= ex[o].cum
          /\ ex[o].cum <= Book[o].qty /\ r.qty = Book[o].qty
      BY <1>2, <1>4, <2>1 DEF Sound, CumSound, BooksSound
    <3>2. ex[o].cum \in Nat /\ Book[o].qty \in Nat
      BY <1>1 DEF Exchanges
    <3>3. r.qty \in Int /\ r.cumQty \in Int /\ r.booked \in Int
      BY <1>1, OrderFields
    <3> QED BY <1>4, <3>1, <3>2, <3>3
  <2>5. ASSUME r.qty <= r.cumQty + m.qty
        PROVE  Traded(r, t, m.qty)
    <3>1. /\ t.cumQty = r.cumQty + m.qty /\ ~t.inTable /\ t.state = "Filled"
          /\ t.booked = r.booked - (r.qty - (r.cumQty + m.qty)) - 1 * m.qty
          /\ t.filled = r.filled + 1 * m.qty
      BY <1>1, <2>3, <2>5 DEF onFill, changePosCounts, remove, Order, Dead
    <3>2. t.booked = r.booked - m.qty /\ t.filled = r.filled + m.qty
      BY <1>4, <2>4, <2>5, <3>1
    <3> HIDE DEF t
    <3> QED BY <1>4, <2>3, <2>4, <2>5, <3>1, <3>2 DEF Traded
  <2>6. ASSUME ~(r.qty <= r.cumQty + m.qty)
        PROVE  Traded(r, t, m.qty)
    <3>1. /\ t.cumQty = r.cumQty + m.qty /\ t.inTable = r.inTable
          /\ t.state = r.state /\ t.booked = r.booked - 1 * m.qty
          /\ t.filled = r.filled + 1 * m.qty
      BY <1>1, <2>3, <2>6 DEF onFill, changePosCounts, Order, Dead
    <3>2. t.booked = r.booked - m.qty /\ t.filled = r.filled + m.qty
      BY <1>4, <3>1
    <3> HIDE DEF t
    <3> QED BY <1>4, <2>3, <2>4, <2>6, <3>1, <3>2 DEF Traded
  <2>7. Traded(r, t, m.qty)
    <3> HIDE DEF t
    <3> QED BY <2>5, <2>6
  <2>8. m.type # "ModAck"
    BY <2>1 DEF Fills
  <2> HIDE DEF t
  <2> QED BY <1>7, <1>8, <2>1, <2>2, <2>7, <2>8 DEF m, r
<1>19. CASE OnBust(o)
  <2>1. m.type = "TradeBreak"
    BY <1>19 DEF OnBust, Take, m
  <2> QED BY <1>2, <1>4, <2>1 DEF Sound
<1> QED BY <1>11, <1>12, <1>13, <1>14, <1>15, <1>16, <1>17, <1>18, <1>19
        DEF Inbound

--------------------------------------------------------------------------------
(***************************************************************************)
(* Every step keeps every order traced                                     *)
(***************************************************************************)

AllTraced ==
  \A o \in Orders :
    Traced(ord[o], req[o], resp[o], ex[o], nextId[o], origId[o], chan[o], picked[o])

\* The orders a step does not name, and their clOrdIds.
AsideIds(o) ==
  \A x \in Orders \ {o} :
    /\ ord'[x] = ord[x] /\ req'[x] = req[x] /\ resp'[x] = resp[x] /\ ex'[x] = ex[x]
    /\ nextId'[x] = nextId[x] /\ origId'[x] = origId[x]
    /\ chan'[x] = chan[x] /\ picked'[x] = picked[x]

\* A step of one order is judged by that order alone.
LEMMA OneTraced ==
  ASSUME AllTraced, NEW o \in Orders, AsideIds(o),
         Traced(ord'[o], req'[o], resp'[o], ex'[o], nextId'[o], origId'[o],
                chan'[o], picked'[o])
  PROVE  AllTraced'
BY DEF AllTraced, AsideIds

\* The types of what Traced speaks of.
LEMMA TraceTypes ==
  ASSUME TypeOK, NEW o \in Orders
  PROVE  /\ ord \in [Orders -> Order] /\ ord[o] \in Order
         /\ req \in [Orders -> Seq(Request)] /\ req[o] \in Seq(Request)
         /\ resp \in [Orders -> Seq(Response)] /\ resp[o] \in Seq(Response)
         /\ ex \in [Orders -> Exchanges] /\ ex[o] \in Exchanges
         /\ nextId \in [Orders -> Nat] /\ nextId[o] \in Nat /\ nextId[o] # NoId
         /\ origId \in [Orders -> Nat] /\ origId[o] \in Nat
         /\ chan \in [Orders -> SUBSET Nat]
         /\ picked \in [Orders -> BOOLEAN] /\ picked[o] \in BOOLEAN
<1>1. /\ ord \in [Orders -> Order] /\ req \in [Orders -> Seq(Request)]
      /\ resp \in [Orders -> Seq(Response)] /\ ex \in [Orders -> Exchanges]
      /\ nextId \in [Orders -> Nat \ {NoId}] /\ origId \in [Orders -> Nat]
      /\ chan \in [Orders -> SUBSET Nat] /\ picked \in [Orders -> BOOLEAN]
  BY DEF TypeOK
<1> QED BY <1>1

\* What the channel enters and sends for an order that lives keeps it traced.
LEMMA TracedEmit ==
  ASSUME TypeOK, NEW o \in Orders, NEW c, c.order \in Order,
         c.sends => c.adds /\ isOrderLive(c.order),
         NEW g \in Nat, NEW s \in Seq(Response), NEW e, NEW p, Emit(o, c, g),
         Traced(c.order, req[o], s, e, nextId[o], g, chan[o], p)
  PROVE  /\ Traced(c.order, req'[o], s, e, nextId'[o], g, chan'[o], p)
         /\ \A x \in Orders \ {o} :
              req'[x] = req[x] /\ nextId'[x] = nextId[x] /\ chan'[x] = chan[x]
<1>1. /\ req \in [Orders -> Seq(Request)] /\ req[o] \in Seq(Request)
      /\ nextId \in [Orders -> Nat] /\ nextId[o] \in Nat
      /\ chan \in [Orders -> SUBSET Nat]
  BY TraceTypes
<1>2. CASE ~c.adds
  <2>1. UNCHANGED <<nextId, chan, req>>
    BY <1>2 DEF Emit
  <2> QED BY <2>1
<1>3. CASE c.adds /\ ~c.sends
  <2>1. AddOrder(o) /\ UNCHANGED req
    BY <1>3 DEF Emit
  <2>2. /\ nextId'[o] = nextId[o] + 1 /\ chan'[o] = chan[o] \cup {nextId[o]}
        /\ \A x \in Orders \ {o} : nextId'[x] = nextId[x] /\ chan'[x] = chan[x]
    BY <1>1, <2>1 DEF AddOrder
  <2>3. Traced(c.order, req[o], s, e, nextId[o] + 1, g, chan[o] \cup {nextId[o]}, p)
    BY <1>1, TracedDrawn
  <2> QED BY <2>1, <2>2, <2>3
<1>4. CASE c.sends
  <2> DEFINE m == [type |-> "Cxl", id |-> nextId[o], orig |-> g,
                   price |-> c.order.price]
  <2>1. AddOrder(o) /\ req' = [req EXCEPT ![o] = Append(req[o], m)]
    BY <1>4 DEF Emit, Send
  <2>2. /\ nextId'[o] = nextId[o] + 1 /\ chan'[o] = chan[o] \cup {nextId[o]}
        /\ \A x \in Orders \ {o} : nextId'[x] = nextId[x] /\ chan'[x] = chan[x]
    BY <1>1, <2>1 DEF AddOrder
  <2>3. m \in Request /\ m.type # "New" /\ m.id = nextId[o] /\ m.orig = g
    BY <1>1, OrderFields DEF Request
  <2> HIDE DEF m
  <2>4. Traced(c.order, Append(req[o], m), s, e, nextId[o] + 1, g,
               chan[o] \cup {nextId[o]}, p)
    BY <1>1, <1>4, <2>3, TracedSent
  <2> QED BY <1>1, <2>1, <2>2, <2>4
<1> QED BY <1>2, <1>3, <1>4

\* The strategy's steps.
LEMMA StrategyTraced ==
  ASSUME TypeOK, TypeOK', AllSound, AllTraced, NEW o \in Orders, Strategy(o)
  PROVE  AllTraced'
<1>1. /\ ord \in [Orders -> Order] /\ ord[o] \in Order
      /\ req \in [Orders -> Seq(Request)] /\ req[o] \in Seq(Request)
      /\ resp[o] \in Seq(Response)
      /\ nextId \in [Orders -> Nat] /\ nextId[o] \in Nat /\ nextId[o] # NoId
      /\ origId \in [Orders -> Nat] /\ origId[o] \in Nat
      /\ chan \in [Orders -> SUBSET Nat]
  BY TraceTypes
<1>2. Traced(ord[o], req[o], resp[o], ex[o], nextId[o], origId[o], chan[o], picked[o])
  BY DEF AllTraced
<1>3. CASE SendNew(o)
  <2> DEFINE m == [type |-> "New", id |-> nextId[o], orig |-> NoId,
                   price |-> ord'[o].price]
             t == ord'[o]
  <2>1. /\ t \in Order /\ Store(o, t)
        /\ Opened(o, ord[o], t) \/ Refused(o, ord[o], t)
        /\ t.state = "Pending" =>
             /\ AddOrder(o) /\ origId' = [origId EXCEPT ![o] = nextId[o]]
             /\ Send(o, "New", NoId, t.price)
    BY <1>3, NewMoves
  <2>2. m \in Request /\ m.type = "New" /\ m.id = nextId[o] /\ m.orig = NoId
    BY <1>1, <2>1, OrderFields DEF Request, NoId
  <2>3. /\ req[o] = <<>> /\ resp[o] = <<>> /\ ex[o].status = "None"
        /\ UNCHANGED <<resp, ex, picked>>
    BY <1>3 DEF SendNew, AllSound, Sound, NewSound
  <2>4. t.filled = ord[o].filled /\ t.cumQty = ord[o].cumQty
    BY <2>1 DEF Opened, Refused
  <2>5. Send(o, "New", NoId, t.price) => req' = [req EXCEPT ![o] = Append(req[o], m)]
    BY DEF Send
  <2>6. t.state = "Pending" \/ ~isOrderLive(t)
    BY <2>1 DEF Opened, Refused, isOrderLive
  <2> HIDE DEF m
  <2>7. \A x \in Orders \ {o} : ord'[x] = ord[x]
    BY <1>1, <2>1 DEF Store
  <2> HIDE DEF t
  <2>8. /\ ~isOrderLive(t) =>
             Traced(t, req[o], resp[o], ex[o], nextId[o], origId[o], chan[o], picked[o])
        /\ ~isOrderLive(t) =>
             Traced(t, req[o], resp[o], ex[o], nextId[o] + 1, nextId[o], chan[o],
                    picked[o])
        /\ Traced(t, req[o], resp[o], ex[o], nextId[o] + 1, nextId[o],
                  chan[o] \cup {nextId[o]}, picked[o])
        /\ Traced(t, Append(req[o], m), resp[o], ex[o], nextId[o] + 1, nextId[o],
                  chan[o] \cup {nextId[o]}, picked[o])
    BY <1>1, <1>2, <2>2, <2>3, <2>4, TracedNew, ZenonT(40)
  <2>9. CASE t.state = "Pending"
    <3>1. /\ nextId'[o] = nextId[o] + 1 /\ chan'[o] = chan[o] \cup {nextId[o]}
          /\ origId'[o] = nextId[o] /\ req'[o] = Append(req[o], m)
          /\ \A x \in Orders \ {o} :
               /\ nextId'[x] = nextId[x] /\ chan'[x] = chan[x]
               /\ origId'[x] = origId[x] /\ req'[x] = req[x]
      BY <1>1, <2>1, <2>5, <2>9 DEF AddOrder, t
    <3> QED BY <2>3, <2>7, <2>8, <3>1, OneTraced DEF AsideIds, t
  <2>10. CASE ~isOrderLive(t)
    <3>1. /\ \/ UNCHANGED <<nextId, origId, chan, req>>
             \/ /\ nextId' = [nextId EXCEPT ![o] = @ + 1] /\ UNCHANGED <<chan, req>>
                /\ origId' = [origId EXCEPT ![o] = nextId[o]]
             \/ /\ AddOrder(o) /\ origId' = [origId EXCEPT ![o] = nextId[o]]
                /\ UNCHANGED req
             \/ /\ AddOrder(o) /\ origId' = [origId EXCEPT ![o] = nextId[o]]
                /\ req'[o] = Append(req[o], m)
                /\ \A x \in Orders \ {o} : req'[x] = req[x]
      <4>1. \/ UNCHANGED wire
            \/ /\ nextId' = [nextId EXCEPT ![o] = @ + 1] /\ UNCHANGED <<chan, req>>
               /\ origId' = [origId EXCEPT ![o] = nextId[o]]
            \/ /\ AddOrder(o) /\ origId' = [origId EXCEPT ![o] = nextId[o]]
               /\ \/ UNCHANGED req
                  \/ /\ Store(o, sendNew(ord[o]).order)
                     /\ Send(o, "New", NoId, sendNew(ord[o]).order.price)
        BY <1>3 DEF SendNew
      <4>2. Store(o, sendNew(ord[o]).order) => t = sendNew(ord[o]).order
        BY <1>1 DEF Store, t
      <4> QED BY <1>1, <2>5, <4>1, <4>2 DEF wire
    <3>2. AddOrder(o) =>
            /\ nextId'[o] = nextId[o] + 1 /\ chan'[o] = chan[o] \cup {nextId[o]}
            /\ \A x \in Orders \ {o} : nextId'[x] = nextId[x] /\ chan'[x] = chan[x]
      BY <1>1 DEF AddOrder
    <3>3. origId' = [origId EXCEPT ![o] = nextId[o]] =>
            /\ origId'[o] = nextId[o]
            /\ \A x \in Orders \ {o} : origId'[x] = origId[x]
      BY <1>1
    <3>4. nextId' = [nextId EXCEPT ![o] = @ + 1] =>
            /\ nextId'[o] = nextId[o] + 1
            /\ \A x \in Orders \ {o} : nextId'[x] = nextId[x]
      BY <1>1
    <3>5. AsideIds(o)
      BY <2>3, <2>7, <3>1, <3>2, <3>3, <3>4 DEF AsideIds
    <3>6. Traced(t, req'[o], resp[o], ex[o], nextId'[o], origId'[o], chan'[o], picked[o])
      BY <2>8, <2>10, <3>1, <3>2, <3>3, <3>4
    <3> QED BY <2>3, <3>5, <3>6, OneTraced DEF t
  <2> QED BY <2>6, <2>9, <2>10
<1>4. ASSUME NEW p \in Prices, SendMod(o, p)
      PROVE  AllTraced'
  <2> DEFINE m == [type |-> "Mod", id |-> nextId[o], orig |-> origId[o], price |-> p]
             t == ord'[o]
  <2>1. /\ t \in Order /\ Store(o, t) /\ Kept(ord[o], t)
        /\ \/ UNCHANGED <<nextId, chan, req>>
           \/ AddOrder(o) /\ UNCHANGED req
           \/ AddOrder(o) /\ Send(o, "Mod", origId[o], p) /\ isOrderLive(t)
    BY <1>4, ModMoves
  <2>2. UNCHANGED <<resp, ex, picked, origId>>
    BY <1>4 DEF SendMod
  <2>3. m \in Request /\ m.type # "New" /\ m.id = nextId[o] /\ m.orig = origId[o]
    BY <1>1 DEF Request
  <2>4. Send(o, "Mod", origId[o], p) => req' = [req EXCEPT ![o] = Append(req[o], m)]
    BY DEF Send
  <2> HIDE DEF m
  <2>5. \A x \in Orders \ {o} : ord'[x] = ord[x]
    BY <1>1, <2>1 DEF Store
  <2> HIDE DEF t
  <2>6. Traced(t, req[o], resp[o], ex[o], nextId[o], origId[o], chan[o], picked[o])
    BY <1>2, <2>1, TracedHandler DEF Kept
  <2>7. Traced(t, req[o], resp[o], ex[o], nextId[o] + 1, origId[o],
               chan[o] \cup {nextId[o]}, picked[o])
    BY <1>1, <2>6, TracedDrawn
  <2>8. isOrderLive(t) =>
          Traced(t, Append(req[o], m), resp[o], ex[o], nextId[o] + 1, origId[o],
                 chan[o] \cup {nextId[o]}, picked[o])
    BY <1>1, <2>3, <2>6, TracedSent
  <2>9. AddOrder(o) =>
          /\ nextId'[o] = nextId[o] + 1 /\ chan'[o] = chan[o] \cup {nextId[o]}
          /\ \A x \in Orders \ {o} : nextId'[x] = nextId[x] /\ chan'[x] = chan[x]
    BY <1>1 DEF AddOrder
  <2>10. Send(o, "Mod", origId[o], p) =>
           /\ req'[o] = Append(req[o], m)
           /\ \A x \in Orders \ {o} : req'[x] = req[x]
    BY <1>1, <2>4
  <2>11. AsideIds(o)
    BY <2>1, <2>2, <2>5, <2>9, <2>10 DEF AsideIds
  <2>12. Traced(t, req'[o], resp[o], ex[o], nextId'[o], origId[o], chan'[o], picked[o])
    BY <2>1, <2>6, <2>7, <2>8, <2>9, <2>10
  <2> QED BY <2>2, <2>11, <2>12, OneTraced DEF t
<1>5. ASSUME CxlLocked(o)
      PROVE  AllTraced'
  <2>1. PICK outcome \in Outcomes :
          /\ Store(o, CxlChain(ord[o], outcome).order)
          /\ Emit(o, CxlChain(ord[o], outcome), origId[o])
    BY <1>5 DEF CxlLocked
  <2> DEFINE c == CxlChain(ord[o], outcome)
  <2>2. /\ c.order \in Order /\ Kept(ord[o], c.order)
        /\ c.sends => c.adds /\ c.order.state = "Cancelling"
    BY <1>1, ChainType, QuietChain, QuietKept, SendsAdd
  <2>3. Emit(o, c, origId[o]) /\ ord' = [ord EXCEPT ![o] = c.order]
    BY <2>1 DEF Store
  <2>4. UNCHANGED <<resp, ex, picked, origId>>
    BY <1>5 DEF CxlLocked
  <2> HIDE DEF c
  <2>5. Traced(c.order, req[o], resp[o], ex[o], nextId[o], origId[o], chan[o], picked[o])
    BY <1>2, <2>2, TracedHandler DEF Kept
  <2>6. /\ Traced(c.order, req'[o], resp[o], ex[o], nextId'[o], origId[o], chan'[o],
                  picked[o])
        /\ \A x \in Orders \ {o} :
             req'[x] = req[x] /\ nextId'[x] = nextId[x] /\ chan'[x] = chan[x]
    BY <1>1, <2>2, <2>3, <2>5, TracedEmit DEF isOrderLive
  <2>7. AsideIds(o) /\ ord'[o] = c.order
    BY <1>1, <2>3, <2>4, <2>6 DEF AsideIds
  <2> QED BY <2>4, <2>6, <2>7, OneTraced
<1>6. CASE ReadCxlState(o)
  BY <1>6 DEF ReadCxlState, wire, AllTraced
<1> QED BY <1>3, <1>4, <1>5, <1>6 DEF Strategy, SendCxl, SendCxlUnlocked

\* The session thread's look at the channel's table: it always finds the order.
LEMMA ReceiveTraced ==
  ASSUME TypeOK, AllSound, AllTraced, NEW o \in Orders, Receive(o)
  PROVE  AllTraced' /\ UNCHANGED resp
<1> DEFINE m == Head(resp[o])
           F == Forgotten(o, m)
<1>1. /\ req[o] \in Seq(Request) /\ resp[o] \in Seq(Response)
      /\ nextId[o] \in Nat /\ origId[o] \in Nat
      /\ chan \in [Orders -> SUBSET Nat] /\ picked \in [Orders -> BOOLEAN]
  BY TraceTypes
<1>2. /\ Traced(ord[o], req[o], resp[o], ex[o], nextId[o], origId[o], chan[o], picked[o])
      /\ Sound(ord[o], req[o], resp[o], ex[o], Book[o])
  BY DEF AllTraced, AllSound
<1>3. /\ resp[o] # <<>> /\ picked[o] = FALSE
      /\ chan' = [chan EXCEPT ![o] = @ \ F]
      /\ UNCHANGED <<ord, nextId, origId, req, ex>>
  BY <1>1 DEF Receive
<1>4. /\ m.type \in {"NewRej", "ModRej", "CxlRej"} => F \subseteq {m.id}
      /\ m.type = "ModAck" => F \subseteq {m.orig, origId[o]}
      /\ m.type \in {"CxlAck", "Fill"} => F \subseteq {m.id, m.orig}
      /\ m.type \in {"NewAck", "PartFill"} => F = {}
  BY DEF Forgotten
<1> HIDE DEF F
<1>5. /\ {m.id, m.orig} \cap chan[o] # {}
      /\ Traced(ord[o], req[o], resp[o], ex[o], nextId[o], origId[o], chan[o] \ F, TRUE)
  BY <1>1, <1>2, <1>3, <1>4, TracedReceived
<1>6. picked' = [picked EXCEPT ![o] = TRUE] /\ UNCHANGED resp
  BY <1>5 DEF Receive
<1>7. AsideIds(o) /\ chan'[o] = chan[o] \ F /\ picked'[o] = TRUE
  BY <1>1, <1>3, <1>6 DEF AsideIds
<1> QED BY <1>3, <1>5, <1>6, <1>7, OneTraced

\* The session thread's steps inside the container.
LEMMA InboundTraced ==
  ASSUME TypeOK, TypeOK', PickedThere, AllSound, AllTraced, NEW o \in Orders, Inbound(o)
  PROVE  AllTraced'
<1> DEFINE m == Head(resp[o])
           t == ord'[o]
           g == origId'[o]
<1>1. /\ ord \in [Orders -> Order] /\ ord[o] \in Order
      /\ req[o] \in Seq(Request)
      /\ resp \in [Orders -> Seq(Response)] /\ resp[o] \in Seq(Response)
      /\ nextId[o] \in Nat
      /\ origId \in [Orders -> Nat] /\ origId[o] \in Nat
      /\ picked \in [Orders -> BOOLEAN]
  BY TraceTypes
<1>2. /\ Traced(ord[o], req[o], resp[o], ex[o], nextId[o], origId[o], chan[o], picked[o])
      /\ Sound(ord[o], req[o], resp[o], ex[o], Book[o])
  BY DEF AllTraced, AllSound
<1>3. /\ picked[o] = TRUE /\ resp[o] # <<>> /\ UNCHANGED ex
      /\ resp' = [resp EXCEPT ![o] = Tail(@)] /\ picked' = [picked EXCEPT ![o] = FALSE]
  <2>1. \E type : Take(o, type)
    BY DEF Inbound, OnNewAck, OnNewAckReentrant, OnNewRej, OnModAck, OnModRej,
           OnCxlAck, OnCxlRej, OnFill, OnBust
  <2> QED BY <1>1, <2>1 DEF Take, PickedThere
<1>4. /\ t \in Order /\ Store(o, t)
      /\ IF m.type \in Fills THEN Traded(ord[o], t, m.qty)
                              ELSE Kept(ord[o], t) \/ Ended(ord[o], t)
      /\ origId' = [origId EXCEPT ![o] = IF m.type = "ModAck" THEN m.id ELSE @]
      /\ \E c : Released(o, c)
  BY InboundMoves
<1>5. g \in Nat /\ g = IF m.type = "ModAck" THEN m.id ELSE origId[o]
  BY <1>1, <1>4 DEF TypeOK
<1>6. /\ isOrderLive(t) => isOrderLive(ord[o])
      /\ IF m.type \in Fills
           THEN t.filled = ord[o].filled + m.qty /\ t.cumQty = ord[o].cumQty + m.qty
           ELSE t.filled = ord[o].filled /\ t.cumQty = ord[o].cumQty
  BY <1>4 DEF Traded, Kept, Ended, isOrderLive, Dead
<1> HIDE DEF t, g
<1>7. Traced(t, req[o], Tail(resp[o]), ex[o], nextId[o], g, chan[o], FALSE)
  BY <1>1, <1>2, <1>3, <1>5, <1>6, TracedTaken, ZenonT(40)
<1>8. PICK c : Released(o, c)
  BY <1>4
<1>9. c.order = t /\ (c.sends => c.adds /\ isOrderLive(c.order)) /\ Emit(o, c, g)
  BY <1>8 DEF Released, t, g
<1>10. Tail(resp[o]) \in Seq(Response)
  BY <1>1, <1>3
<1>11. /\ Traced(t, req'[o], Tail(resp[o]), ex[o], nextId'[o], g, chan'[o], FALSE)
       /\ \A x \in Orders \ {o} :
            req'[x] = req[x] /\ nextId'[x] = nextId[x] /\ chan'[x] = chan[x]
  BY <1>4, <1>5, <1>7, <1>9, <1>10, TracedEmit
<1>12. \A x \in Orders \ {o} : ord'[x] = ord[x]
  BY <1>1, <1>4 DEF Store
<1>13. /\ resp'[o] = Tail(resp[o]) /\ picked'[o] = FALSE
       /\ \A x \in Orders \ {o} : /\ resp'[x] = resp[x] /\ picked'[x] = picked[x]
                                   /\ origId'[x] = origId[x]
  BY <1>1, <1>3, <1>4
<1>14. AsideIds(o)
  BY <1>3, <1>11, <1>12, <1>13 DEF AsideIds
<1> QED BY <1>3, <1>11, <1>13, <1>14, OneTraced DEF t, g

\* The exchange's steps, until it busts a trade.
LEMMA ExchangeTraced ==
  ASSUME TypeOK, TypeOK', PickedThere, AllSound, AllTraced, NEW o \in Orders,
         Exchange(o), ~ExBreak(o)
  PROVE  AllTraced'
<1> DEFINE q == req[o]
           s == resp[o]
           e == ex[o]
           f == ex'[o]
           n == nextId[o]
           g == origId[o]
           p == picked[o]
<1>1. /\ req \in [Orders -> Seq(Request)] /\ q \in Seq(Request)
      /\ resp \in [Orders -> Seq(Response)] /\ s \in Seq(Response)
      /\ ex \in [Orders -> Exchanges] /\ e \in Exchanges
      /\ n \in Nat /\ g \in Nat /\ p \in BOOLEAN
      /\ Book[o].qty \in Nat
  BY TraceTypes, FlowAssumption
<1>2. f \in Exchanges /\ (p => s # <<>>)
  BY DEF TypeOK, PickedThere
<1>3. Traced(ord[o], q, s, e, n, g, chan[o], p) /\ Sound(ord[o], q, s, e, Book[o])
  BY DEF AllTraced, AllSound
<1>4. UNCHANGED <<ord, nextId, origId, chan, picked>>
  BY DEF Exchange, ExNew, ExMod, ExCxl, ExFill, ExExpire, ExBreak, Handle, wire
<1>5. ASSUME NEW x \in Request, NEW type \in RespTypes
      PROVE  /\ Answer(type, x) \in Response /\ Answer(type, x).type = type
             /\ Answer(type, x).id = x.id /\ Answer(type, x).orig = x.orig
  BY <1>5 DEF Answer, Request, Response
<1>6. ASSUME NEW type \in RespTypes, NEW y \in Nat, NEW z \in Nat
      PROVE  /\ Report(type, o, y, z) \in Response
             /\ Report(type, o, y, z).type = type
             /\ Report(type, o, y, z).id = e.id /\ Report(type, o, y, z).orig = NoId
             /\ Report(type, o, y, z).qty = y /\ Report(type, o, y, z).cum = z
  <2>1. e.id \in Nat /\ e.price \in Prices \cup {InvalidPrice}
    BY <1>1 DEF Exchanges
  <2> QED BY <1>6, <2>1 DEF Report, Response, NoId
<1>7. ASSUME NEW a, Reply(o, a), ex' = [ex EXCEPT ![o] = f],
             req' = [req EXCEPT ![o] = req'[o]],
             Traced(ord[o], req'[o], Append(s, a), f, n, g, chan[o], p)
      PROVE  AllTraced'
  <2>1. AsideIds(o) /\ resp'[o] = Append(s, a)
    BY <1>1, <1>4, <1>7 DEF AsideIds, Reply
  <2> QED BY <1>4, <1>7, <2>1, OneTraced
<1> DEFINE m == Head(q)
<1>8. ASSUME NEW type, Handle(o, type)
      PROVE  /\ q # <<>> /\ m \in Request /\ m.type = type
             /\ req' = [req EXCEPT ![o] = req'[o]] /\ req'[o] = Tail(q)
  BY <1>1, <1>8 DEF Handle
<1>9. ASSUME q # <<>>, NEW a \in Response, a.id = m.id, a.orig = m.orig,
             f.cum = e.cum, ex' = [ex EXCEPT ![o] = f], Reply(o, a),
             \/ m.type = "New" /\ a.type = "NewAck" /\ f.status = "Open" /\ f.id = a.id
             \/ m.type = "New" /\ a.type = "NewRej" /\ f.status = "Closed"
             \/ /\ m.type = "Mod" /\ a.type = "ModAck"
                /\ e.status = "Open" /\ f.status = "Open" /\ f.id = a.id
             \/ m.type \in {"Mod", "Cxl"} /\ a.type \in {"ModRej", "CxlRej"} /\ f = e
             \/ /\ m.type = "Cxl" /\ a.type = "CxlAck"
                /\ e.status = "Open" /\ f.status = "Closed",
             req' = [req EXCEPT ![o] = req'[o]], req'[o] = Tail(q)
      PROVE  AllTraced'
  <2> HIDE DEF q, s, e, f, n, g, p
  <2>1. Traced(ord[o], Tail(q), Append(s, a), f, n, g, chan[o], p)
    BY <1>1, <1>2, <1>3, <1>9, TracedAnswered
  <2> QED BY <1>7, <1>9, <2>1
<1>10. CASE ExNew(o)
  <2>1. /\ q # <<>> /\ m \in Request /\ m.type = "New"
        /\ req' = [req EXCEPT ![o] = req'[o]] /\ req'[o] = Tail(q)
    BY <1>8, <1>10 DEF ExNew
  <2>2. "NewAck" \in RespTypes /\ "NewRej" \in RespTypes
    BY DEF RespTypes
  <2>3. CASE /\ ex' = [ex EXCEPT ![o].status = "Open", ![o].id = m.id]
             /\ Reply(o, Answer("NewAck", m))
    <3>1. /\ f.status = "Open" /\ f.id = m.id /\ f.cum = e.cum
          /\ ex' = [ex EXCEPT ![o] = f]
      BY <1>1, <2>3 DEF Exchanges
    <3> HIDE DEF f, q, m
    <3> QED BY <1>5, <1>9, <2>1, <2>2, <2>3, <3>1
  <2>4. CASE /\ ex' = [ex EXCEPT ![o].status = "Closed"]
             /\ Reply(o, Answer("NewRej", m))
    <3>1. f.status = "Closed" /\ f.cum = e.cum /\ ex' = [ex EXCEPT ![o] = f]
      BY <1>1, <2>4 DEF Exchanges
    <3> HIDE DEF f, q, m
    <3> QED BY <1>5, <1>9, <2>1, <2>2, <2>4, <3>1
  <2> QED BY <1>10, <2>3, <2>4 DEF ExNew
<1>11. CASE ExMod(o)
  <2>1. /\ q # <<>> /\ m \in Request /\ m.type = "Mod"
        /\ req' = [req EXCEPT ![o] = req'[o]] /\ req'[o] = Tail(q)
    BY <1>8, <1>11 DEF ExMod
  <2>2. "ModAck" \in RespTypes /\ "ModRej" \in RespTypes
    BY DEF RespTypes
  <2>3. CASE /\ e.status = "Open"
             /\ ex' = [ex EXCEPT ![o].id = m.id, ![o].price = m.price]
             /\ Reply(o, Answer("ModAck", m))
    <3>1. /\ f.status = "Open" /\ f.id = m.id /\ f.cum = e.cum
          /\ ex' = [ex EXCEPT ![o] = f]
      BY <1>1, <2>3 DEF Exchanges
    <3> HIDE DEF f, q, m, e
    <3> QED BY <1>5, <1>9, <2>1, <2>2, <2>3, <3>1
  <2>4. CASE UNCHANGED ex /\ Reply(o, Answer("ModRej", m))
    <3>1. f = e /\ ex' = [ex EXCEPT ![o] = f]
      BY <1>1, <2>4
    <3> HIDE DEF f, q, m, e
    <3> QED BY <1>5, <1>9, <2>1, <2>2, <2>4, <3>1
  <2> QED BY <1>11, <2>3, <2>4 DEF ExMod
<1>12. CASE ExCxl(o)
  <2>1. /\ q # <<>> /\ m \in Request /\ m.type = "Cxl"
        /\ req' = [req EXCEPT ![o] = req'[o]] /\ req'[o] = Tail(q)
    BY <1>8, <1>12 DEF ExCxl
  <2>2. "CxlAck" \in RespTypes /\ "CxlRej" \in RespTypes
    BY DEF RespTypes
  <2>3. CASE /\ e.status = "Open" /\ ex' = [ex EXCEPT ![o].status = "Closed"]
             /\ Reply(o, Answer("CxlAck", m))
    <3>1. f.status = "Closed" /\ f.cum = e.cum /\ ex' = [ex EXCEPT ![o] = f]
      BY <1>1, <2>3 DEF Exchanges
    <3> HIDE DEF f, q, m, e
    <3> QED BY <1>5, <1>9, <2>1, <2>2, <2>3, <3>1
  <2>4. CASE UNCHANGED ex /\ Reply(o, Answer("CxlRej", m))
    <3>1. f = e /\ ex' = [ex EXCEPT ![o] = f]
      BY <1>1, <2>4
    <3> HIDE DEF f, q, m, e
    <3> QED BY <1>5, <1>9, <2>1, <2>2, <2>4, <3>1
  <2> QED BY <1>12, <2>3, <2>4 DEF ExCxl
<1>13. ASSUME NEW a \in Response, a.id = e.id, a.orig = NoId, e.status = "Open",
              \/ /\ a.type \in Fills /\ f.id = e.id
                 /\ f.cum = e.cum + a.qty /\ a.cum = f.cum /\ 1 <= a.qty
              \/ a.type = "CxlAck" /\ f.status = "Closed" /\ f.cum = e.cum,
              Reply(o, a), ex' = [ex EXCEPT ![o] = f], UNCHANGED req
       PROVE  AllTraced'
  <2>1. req' = [req EXCEPT ![o] = req'[o]] /\ req'[o] = q
    BY <1>1, <1>13
  <2> HIDE DEF q, s, e, f, n, g, p
  <2>2. Traced(ord[o], q, Append(s, a), f, n, g, chan[o], p)
    BY <1>1, <1>2, <1>3, <1>13, TracedReported
  <2> QED BY <1>7, <1>13, <2>1, <2>2
<1>14. CASE ExFill(o)
  <2>1. PICK k \in 1 .. (Book[o].qty - e.cum) :
          /\ ex' = [ex EXCEPT ![o].cum = @ + k,
                        ![o].status = IF e.cum + k = Book[o].qty THEN "Closed" ELSE @]
          /\ Reply(o, Report(IF e.cum + k = Book[o].qty THEN "Fill" ELSE "PartFill",
                             o, k, e.cum + k))
    BY <1>14 DEF ExFill
  <2>2. e.status = "Open" /\ UNCHANGED req
    BY <1>14 DEF ExFill, wire
  <2>3. e.cum \in Nat /\ k \in Nat /\ 1 <= k /\ e.cum + k \in Nat
    <3>1. e.cum \in Nat
      BY <1>1 DEF Exchanges
    <3> QED BY <1>1, <2>1, <3>1
  <2>4. f.cum = e.cum + k /\ f.id = e.id /\ ex' = [ex EXCEPT ![o] = f]
    BY <1>1, <2>1 DEF Exchanges
  <2> DEFINE type == IF e.cum + k = Book[o].qty THEN "Fill" ELSE "PartFill"
             a == Report(type, o, k, e.cum + k)
  <2>5. type \in RespTypes /\ type \in Fills
    BY DEF RespTypes, Fills
  <2>6. Reply(o, a)
    BY <2>1
  <2> HIDE DEF type
  <2>7. /\ a \in Response /\ a.type \in Fills /\ a.id = e.id /\ a.orig = NoId
        /\ a.qty = k /\ a.cum = e.cum + k
    BY <1>6, <2>3, <2>5
  <2> HIDE DEF a, e, f
  <2> QED BY <1>13, <2>2, <2>3, <2>4, <2>6, <2>7
<1>15. CASE ExExpire(o)
  <2> DEFINE a == Report("CxlAck", o, 0, e.cum)
  <2>1. /\ e.status = "Open" /\ ex' = [ex EXCEPT ![o].status = "Closed"]
        /\ Reply(o, a) /\ UNCHANGED req
    BY <1>15 DEF ExExpire, wire
  <2>2. a \in Response /\ a.type = "CxlAck" /\ a.id = e.id /\ a.orig = NoId
    <3>1. "CxlAck" \in RespTypes
      BY DEF RespTypes
    <3>2. e.cum \in Nat
      BY <1>1 DEF Exchanges
    <3> QED BY <1>6, <3>1, <3>2
  <2>3. f.status = "Closed" /\ f.cum = e.cum /\ ex' = [ex EXCEPT ![o] = f]
    BY <1>1, <2>1 DEF Exchanges
  <2> HIDE DEF a, e, f
  <2> QED BY <1>13, <2>1, <2>2, <2>3
<1> QED BY <1>10, <1>11, <1>12, <1>14, <1>15 DEF Exchange

\* A session that is down loses a request.
LEMMA LoseTraced ==
  ASSUME TypeOK, AllTraced, NEW o \in Orders, LoseRequest(o)
  PROVE  AllTraced'
<1>1. req \in [Orders -> Seq(Request)] /\ req[o] \in Seq(Request)
  BY TraceTypes
<1>2. Traced(ord[o], req[o], resp[o], ex[o], nextId[o], origId[o], chan[o], picked[o])
  BY DEF AllTraced
<1>3. /\ req[o] # <<>> /\ req' = [req EXCEPT ![o] = Tail(@)]
      /\ UNCHANGED <<ord, resp, ex, nextId, origId, chan, picked>>
  BY DEF LoseRequest
<1>4. Traced(ord[o], Tail(req[o]), resp[o], ex[o], nextId[o], origId[o], chan[o],
             picked[o])
  BY <1>1, <1>2, <1>3, TracedLost
<1>5. AsideIds(o) /\ req'[o] = Tail(req[o])
  BY <1>1, <1>3 DEF AsideIds
<1> QED BY <1>3, <1>4, <1>5, OneTraced

\* Until a trade is busted, every step keeps every order traced.
LEMMA NextTraced ==
  ASSUME TypeOK, TypeOK', PickedThere, breaks' = 0, AllSound, AllTraced, [Next]_vars
  PROVE  AllTraced'
<1>1. ASSUME NEW o \in Orders, Exchange(o)
      PROVE  AllTraced'
  <2>1. ExBreak(o) => breaks' # 0
    BY DEF ExBreak, TypeOK
  <2> QED BY <1>1, <2>1, ExchangeTraced
<1>2. CASE SessionDown \/ SessionUp \/ UNCHANGED vars
  <2>1. UNCHANGED <<ord, req, resp, ex, nextId, origId, chan, picked>>
    BY <1>2 DEF SessionDown, SessionUp, vars, wire
  <2> QED BY <2>1 DEF AllTraced
<1> QED BY <1>1, <1>2, StrategyTraced, ReceiveTraced, InboundTraced, LoseTraced
        DEF Next

\* A process that has just started has nothing to trace.
LEMMA InitTraced ==
  ASSUME Init
  PROVE  AllTraced
<1> SUFFICES ASSUME NEW o \in Orders
             PROVE  Traced(ord[o], req[o], resp[o], ex[o], nextId[o], origId[o],
                           chan[o], picked[o])
  BY DEF AllTraced
<1>1. /\ req[o] = <<>> /\ resp[o] = <<>> /\ nextId[o] = 1 /\ origId[o] = 0
      /\ DOMAIN req[o] = {} /\ DOMAIN resp[o] = {}
  BY DEF Init, NoId
<1>2. ex[o].status = "None" /\ ex[o].cum = 0
  BY DEF Init
<1>3. /\ ord[o].state = "Unknown" /\ ord[o].filled = 0 /\ ord[o].cumQty = 0
  BY DEF Init, createOrder
<1>4. IdsRise(ord[o], req[o], resp[o], nextId[o], origId[o])
  BY <1>1, <1>3 DEF IdsRise, isOrderLive
<1>5. IdsKnown(resp[o], ex[o], origId[o])
  BY <1>1, <1>2 DEF IdsKnown
<1>6. IdsHeld(req[o], resp[o], ex[o], origId[o], chan[o], picked[o])
  BY <1>1, <1>2 DEF IdsHeld
<1>7. FillsChain(ord[o], resp[o], ex[o])
  BY <1>1, <1>2, <1>3 DEF FillsChain
<1> QED BY <1>4, <1>5, <1>6, <1>7 DEF Traced

--------------------------------------------------------------------------------
(***************************************************************************)
(* The theorems                                                            *)
(***************************************************************************)

\* Until a trade is busted, every order is traced.
TracesHold == breaks = 0 => AllTraced

\* With FlowInv, an inductive invariant.
LEMMA TraceInvariant == Spec => [](FlowInv /\ TracesHold)
<1>1. Init => FlowInv /\ TracesHold
  BY InitType, InitSound, InitTraced DEF FlowInv, BooksHold, TracesHold
<1>2. FlowInv /\ TracesHold /\ [Next]_vars => (FlowInv /\ TracesHold)'
  <2> SUFFICES ASSUME FlowInv, TracesHold, [Next]_vars
               PROVE  FlowInv' /\ TracesHold'
    OBVIOUS
  <2>1. FlowInv'
    BY FlowStep
  <2>2. breaks' = 0 => breaks = 0
    BY BreaksKept DEF FlowInv
  <2>3. breaks' = 0 => AllTraced'
    BY <2>1, <2>2, NextTraced DEF FlowInv, BooksHold, TracesHold
  <2> QED BY <2>1, <2>3 DEF TracesHold
<1> QED BY <1>1, <1>2, PTL DEF Spec

\* Until the exchange busts a trade, every order agrees with what is in flight
\* for it: each fill, cancel and reject that is on the way finds its order in
\* the table, the one that ends it is the last of them, every response carries a
\* clOrdId the channel still holds when it comes to it, and the fills are exactly
\* what the exchange has traded and the process has not booked.  For any number of
\* orders, any quantities and any interleaving of strategies, session thread and
\* exchange, session losses included.
THEOREM FlowCorrect == Spec => []FlowSound
<1>1. FlowInv /\ TracesHold => FlowSound
  BY DEF FlowInv, BooksHold, TracesHold, FlowSound, AllSound, AllTraced
<1> QED BY <1>1, TraceInvariant, PTL

\* A response the session thread is about to look up is found.
LEMMA TracedFound ==
  ASSUME FlowInv, TracesHold, breaks = 0
  PROVE  NeverUntracked
<1> SUFFICES ASSUME NEW o \in Orders, resp[o] # <<>>, ~picked[o]
             PROVE  {Head(resp[o]).id, Head(resp[o]).orig} \cap chan[o] # {}
  BY DEF NeverUntracked
<1>1. TypeOK
  BY DEF FlowInv
<1>2. /\ req[o] \in Seq(Request) /\ resp[o] \in Seq(Response)
      /\ nextId[o] \in Nat /\ origId[o] \in Nat /\ picked[o] = FALSE
  BY <1>1, TraceTypes
<1>3. /\ Traced(ord[o], req[o], resp[o], ex[o], nextId[o], origId[o], chan[o], FALSE)
      /\ Sound(ord[o], req[o], resp[o], ex[o], Book[o])
  BY <1>2 DEF TracesHold, AllTraced, FlowInv, BooksHold, AllSound
<1> QED BY <1>2, <1>3, TracedReceived

\* Until the exchange busts a trade, no response becomes an untracked alert: the
\* channel's table holds the order under the clOrdId the exchange answers to,
\* whatever modifies and cancels are in flight and however late the session thread
\* comes to the response.
THEOREM ResponsesTracked == Spec => [](breaks = 0 => NeverUntracked)
<1>1. FlowInv /\ TracesHold => (breaks = 0 => NeverUntracked)
  BY TracedFound
<1> QED BY <1>1, TraceInvariant, PTL
================================================================================
