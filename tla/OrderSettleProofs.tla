--------------------------- MODULE OrderSettleProofs ---------------------------
(***************************************************************************)
(* Proof that an order gets what it is owed: the answer to a new or to a   *)
(* cancel, the cancel kept back until the acknowledgement, as many         *)
(* acknowledgements as _modCounter counts and, when they are in, the       *)
(* exchange's price.                                                       *)
(*                                                                         *)
(* As in OrderTraceProofs, one lemma for each thing that can happen to one *)
(* order's state and messages, then one step per action.  The claims are   *)
(* about callers that send cancels under the container's lock and not from *)
(* inside onNewAck, as the others break them, and about a limit that lets  *)
(* one modify be in flight: with none, a refused modify leaves the order   *)
(* Modifying.                                                              *)
(***************************************************************************)
EXTENDS OrderTraceProofs, FiniteSetTheorems
--------------------------------------------------------------------------------
(***************************************************************************)
(* What an order is owed                                                   *)
(***************************************************************************)

\* Where a queue holds messages of some types, and whether it holds any.
At(s, T) == {i \in DOMAIN s : s[i].type \in T}

Has(s, T) == \E i \in DOMAIN s : s[i].type \in T

\* Modify requests without an answer, among the requests q and the responses s.
ModAnswers == {"ModAck", "ModRej"}

Mods(q, s) == Cardinality(At(q, {"Mod"})) + Cardinality(At(s, ModAnswers))

\* A Pending order waits for the answer to its new, unless the new was lost (l); one
\* that is Cancelling for the answer to its cancel or for the fill that ends it.
CxlAnswers == {"CxlAck", "CxlRej", "Fill"}

Owed(r, q, s, l) ==
  /\ r.state = "Pending" /\ ~l => Has(q, {"New"}) \/ Has(s, NewAnswers)
  /\ r.state = "Cancelling" => Has(q, {"Cxl"}) \/ Has(s, CxlAnswers)

\* Only the report that completes the order is a Fill.
LastFill(s, b) == \A i \in DOMAIN s : s[i].type = "Fill" => s[i].cum = b.qty

\* The counter, the state and the price follow the modifies in flight.
ModsExact(r, q, s) ==
  r.modCounter = Mods(q, s) /\ (r.state = "Modifying" <=> Mods(q, s) > 0)

PriceChain(r, s, e) ==
  /\ ~Has(s, {"ModAck"}) => r.price = e.price
  /\ \A k \in DOMAIN s :
       /\ s[k].type = "ModAck"
       /\ \A j \in DOMAIN s : k < j => s[j].type # "ModAck"
       => s[k].price = e.price

\* Unless the order has ended, a request of it was lost (l) or a cancel overtook a
\* modify of it (x).
Followed(r, q, s, e, l, x) ==
  r.state \notin Dead /\ ~l /\ ~x => ModsExact(r, q, s) /\ PriceChain(r, s, e)

\* An order that has not ended keeps a cancel back only while it is Pending.
Delayed(r) == r.state \notin Dead /\ r.cancelOnAck => r.state = "Pending"

Settling(r, q, s, e, b, l, x) ==
  Owed(r, q, s, l) /\ LastFill(s, b) /\ Followed(r, q, s, e, l, x)

Settled(r, q, s, e, b, l, x) == Settling(r, q, s, e, b, l, x) /\ Delayed(r)

\* Counting messages.
LEMMA Counted ==
  ASSUME NEW S, NEW s \in Seq(S), NEW T
  PROVE  /\ IsFiniteSet(At(s, T)) /\ Cardinality(At(s, T)) \in Nat
         /\ Cardinality(At(s, T)) > 0 <=> Has(s, T)
<1>1. IsFiniteSet(At(s, T))
  <2>1. IsFiniteSet(1 .. Len(s)) /\ At(s, T) \in SUBSET (1 .. Len(s))
    BY FS_Interval DEF At
  <2> QED BY <2>1, FS_Subset
<1>2. Cardinality(At(s, T)) \in Nat
  BY <1>1, FS_CardinalityType
<1>3. Cardinality(At(s, T)) = 0 <=> At(s, T) = {}
  BY <1>1, FS_EmptySet
<1>4. At(s, T) = {} <=> ~Has(s, T)
  BY DEF At, Has
<1> QED BY <1>1, <1>2, <1>3, <1>4

\* A queue that grows at its end.
LEMMA CountExtended ==
  ASSUME NEW S, NEW s \in Seq(S), NEW m \in S, NEW T
  PROVE  /\ IsFiniteSet(At(s, T)) /\ Cardinality(At(s, T)) \in Nat
         /\ Cardinality(At(s, T)) > 0 <=> Has(s, T)
         /\ Cardinality(At(Append(s, m), T)) =
              Cardinality(At(s, T)) + IF m.type \in T THEN 1 ELSE 0
<1>1. /\ IsFiniteSet(At(s, T)) /\ Cardinality(At(s, T)) \in Nat
      /\ Cardinality(At(s, T)) > 0 <=> Has(s, T)
  BY Counted
<1>2. CASE m.type \in T
  <2>1. At(Append(s, m), T) = At(s, T) \cup {Len(s) + 1} /\ Len(s) + 1 \notin At(s, T)
    BY <1>2 DEF At
  <2>2. Cardinality(At(s, T) \cup {Len(s) + 1}) = Cardinality(At(s, T)) + 1
    BY <1>1, <2>1, FS_AddElement
  <2> QED BY <1>1, <1>2, <2>1, <2>2
<1>3. CASE m.type \notin T
  <2>1. At(Append(s, m), T) = At(s, T)
    BY <1>3 DEF At
  <2> QED BY <1>1, <1>3, <2>1
<1> QED BY <1>2, <1>3

\* And one that loses its head.
LEMMA CountShifted ==
  ASSUME NEW S, NEW s \in Seq(S), s # <<>>, NEW T
  PROVE  Cardinality(At(Tail(s), T)) =
           Cardinality(At(s, T)) - IF Head(s).type \in T THEN 1 ELSE 0
<1> DEFINE z == Tail(s)
           A == At(s, T) \ {1}
           B == At(z, T)
           f == [i \in B |-> i + 1]
<1>1. Head(s) \in S
  OBVIOUS
<1>2. IsFiniteSet(At(s, T)) /\ Cardinality(At(s, T)) \in Nat
  BY <1>1, CountExtended
<1>3. /\ 1 \in DOMAIN s /\ Head(s) = s[1] /\ z \in Seq(S)
      /\ \A i \in DOMAIN z : i \in Nat /\ 1 < i + 1 /\ i + 1 \in DOMAIN s /\ z[i] = s[i + 1]
      /\ \A j \in DOMAIN s :
           j = 1 \/ (j - 1 \in DOMAIN z /\ 1 < j /\ j \in Nat /\ z[j - 1] = s[j])
  BY Shifted
<1>4. IsFiniteSet(B)
  BY <1>1, <1>3, CountExtended
<1> HIDE DEF z
<1>5. f \in Bijection(B, A)
  <2>1. f \in [B -> A]
    BY <1>3 DEF At
  <2>2. \A i, j \in B : f[i] = f[j] => i = j
    BY <1>3 DEF At
  <2>3. \A j \in A : \E i \in B : f[i] = j
    <3> SUFFICES ASSUME NEW j \in A PROVE \E i \in B : f[i] = j
      OBVIOUS
    <3>1. j - 1 \in B /\ f[j - 1] = j
      BY <1>3 DEF At
    <3> QED BY <3>1
  <2> QED BY <2>1, <2>2, <2>3 DEF Bijection, Injection, Surjection, IsInjective
<1>6. Cardinality(A) = Cardinality(B)
  BY <1>4, <1>5, FS_Bijection DEF ExistsBijection
<1>7. Cardinality(A) = IF 1 \in At(s, T) THEN Cardinality(At(s, T)) - 1 ELSE Cardinality(At(s, T))
  BY <1>2, FS_RemoveElement
<1>8. 1 \in At(s, T) <=> Head(s).type \in T
  BY <1>3 DEF At
<1> QED BY <1>2, <1>6, <1>7, <1>8 DEF z

\* Whether a queue holds a message, once it has grown or lost its head.
LEMMA HasMoved ==
  ASSUME NEW S, NEW s \in Seq(S), NEW T
  PROVE  /\ \A m \in S : Has(Append(s, m), T) <=> Has(s, T) \/ m.type \in T
         /\ s # <<>> => (Has(s, T) <=> Head(s).type \in T \/ Has(Tail(s), T))
<1>1. ASSUME NEW m \in S PROVE Has(Append(s, m), T) <=> Has(s, T) \/ m.type \in T
  <2>1. /\ Append(s, m)[Len(s) + 1] = m /\ Len(s) + 1 \in DOMAIN Append(s, m)
        /\ \A i \in DOMAIN s : i \in DOMAIN Append(s, m) /\ Append(s, m)[i] = s[i]
        /\ \A i \in DOMAIN Append(s, m) : i = Len(s) + 1 \/ i \in DOMAIN s
    BY Extended
  <2> QED BY <2>1 DEF Has
<1>2. ASSUME s # <<>> PROVE Has(s, T) <=> Head(s).type \in T \/ Has(Tail(s), T)
  <2>1. /\ 1 \in DOMAIN s /\ Head(s) = s[1]
        /\ \A i \in DOMAIN Tail(s) : i + 1 \in DOMAIN s /\ Tail(s)[i] = s[i + 1]
        /\ \A j \in DOMAIN s : j = 1 \/ (j - 1 \in DOMAIN Tail(s) /\ Tail(s)[j - 1] = s[j])
    BY <1>2, Shifted
  <2> QED BY <2>1 DEF Has
<1> QED BY <1>1, <1>2

\* The modifies in flight, as requests leave, answers come and answers are taken.
LEMMA ModsMoved ==
  ASSUME NEW q \in Seq(Request), NEW s \in Seq(Response)
  PROVE  /\ Mods(q, s) \in Nat
         /\ Mods(q, s) = 0 => ~Has(s, {"ModAck"})
         /\ Has(s, ModAnswers) => Mods(q, s) > 0
         /\ \A m \in Request :
              Mods(Append(q, m), s) = Mods(q, s) + IF m.type = "Mod" THEN 1 ELSE 0
         /\ s # <<>> => Mods(q, Tail(s)) =
              Mods(q, s) - IF Head(s).type \in ModAnswers THEN 1 ELSE 0
         /\ \A a \in Response :
              /\ Mods(q, Append(s, a)) = Mods(q, s) + IF a.type \in ModAnswers THEN 1 ELSE 0
              /\ q # <<>> => Mods(Tail(q), Append(s, a)) =
                   Mods(q, s) - (IF Head(q).type = "Mod" THEN 1 ELSE 0)
                              + IF a.type \in ModAnswers THEN 1 ELSE 0
<1> DEFINE a == Cardinality(At(q, {"Mod"}))
           b == Cardinality(At(s, ModAnswers))
<1>1. /\ \E m : m \in Request
      /\ \E m : m \in Response
  <2>1. [type |-> "New", id |-> 0, orig |-> 0, price |-> InvalidPrice] \in Request
    BY DEF Request
  <2>2. [type |-> "NewAck", id |-> 0, orig |-> 0, price |-> InvalidPrice, qty |-> 0,
         cum |-> 0] \in Response
    BY DEF Response, RespTypes
  <2> QED BY <2>1, <2>2
<1>2. a \in Nat /\ b \in Nat /\ (b > 0 <=> Has(s, ModAnswers))
  BY <1>1, CountExtended
<1>3. Has(s, {"ModAck"}) => Has(s, ModAnswers)
  BY DEF Has, ModAnswers
<1>4. \A m \in Request : Cardinality(At(Append(q, m), {"Mod"})) = a + IF m.type = "Mod" THEN 1 ELSE 0
  <2> SUFFICES ASSUME NEW m \in Request
               PROVE  Cardinality(At(Append(q, m), {"Mod"})) = a + IF m.type = "Mod" THEN 1 ELSE 0
    OBVIOUS
  <2>1. Cardinality(At(Append(q, m), {"Mod"})) = a + IF m.type \in {"Mod"} THEN 1 ELSE 0
    BY CountExtended
  <2> QED BY <2>1
<1>5. \A m \in Response :
        Cardinality(At(Append(s, m), ModAnswers)) = b + IF m.type \in ModAnswers THEN 1 ELSE 0
  BY CountExtended
<1>6. q # <<>> => Cardinality(At(Tail(q), {"Mod"})) = a - IF Head(q).type = "Mod" THEN 1 ELSE 0
  <2> SUFFICES ASSUME q # <<>>
               PROVE  Cardinality(At(Tail(q), {"Mod"})) = a - IF Head(q).type = "Mod" THEN 1 ELSE 0
    OBVIOUS
  <2>1. Cardinality(At(Tail(q), {"Mod"})) = a - IF Head(q).type \in {"Mod"} THEN 1 ELSE 0
    BY CountShifted
  <2> QED BY <2>1
<1>7. s # <<>> => Cardinality(At(Tail(s), ModAnswers)) = b - IF Head(s).type \in ModAnswers THEN 1 ELSE 0
  BY CountShifted
<1>8. Mods(q, s) = a + b
  BY DEF Mods
<1>9. \A m \in Request : Mods(Append(q, m), s) = Cardinality(At(Append(q, m), {"Mod"})) + b
  BY DEF Mods
<1>10. Mods(q, Tail(s)) = a + Cardinality(At(Tail(s), ModAnswers))
  BY DEF Mods
<1>11. \A m \in Response :
         /\ Mods(q, Append(s, m)) = a + Cardinality(At(Append(s, m), ModAnswers))
         /\ Mods(Tail(q), Append(s, m)) =
              Cardinality(At(Tail(q), {"Mod"})) + Cardinality(At(Append(s, m), ModAnswers))
  BY DEF Mods
<1> HIDE DEF a, b
<1>12. Mods(q, s) \in Nat /\ (Mods(q, s) = 0 => ~Has(s, {"ModAck"})) /\ (Has(s, ModAnswers) => Mods(q, s) > 0)
  BY <1>2, <1>3, <1>8
<1>13. \A m \in Request : Mods(Append(q, m), s) = Mods(q, s) + IF m.type = "Mod" THEN 1 ELSE 0
  BY <1>2, <1>4, <1>8, <1>9
<1>14. s # <<>> => Mods(q, Tail(s)) = Mods(q, s) - IF Head(s).type \in ModAnswers THEN 1 ELSE 0
  BY <1>2, <1>7, <1>8, <1>10
<1>15. ASSUME NEW m \in Response
       PROVE  /\ Mods(q, Append(s, m)) = Mods(q, s) + IF m.type \in ModAnswers THEN 1 ELSE 0
              /\ q # <<>> => Mods(Tail(q), Append(s, m)) =
                   Mods(q, s) - (IF Head(q).type = "Mod" THEN 1 ELSE 0)
                              + IF m.type \in ModAnswers THEN 1 ELSE 0
  <2>1. /\ Mods(q, Append(s, m)) = a + Cardinality(At(Append(s, m), ModAnswers))
        /\ Mods(Tail(q), Append(s, m)) =
             Cardinality(At(Tail(q), {"Mod"})) + Cardinality(At(Append(s, m), ModAnswers))
    BY <1>11
  <2>2. Cardinality(At(Append(s, m), ModAnswers)) = b + IF m.type \in ModAnswers THEN 1 ELSE 0
    BY <1>5
  <2>3. Mods(q, Append(s, m)) = Mods(q, s) + IF m.type \in ModAnswers THEN 1 ELSE 0
    BY <1>2, <1>8, <2>1, <2>2
  <2> QED BY <1>2, <1>6, <1>8, <2>1, <2>2, <2>3, SMTT(40)
<1> QED BY <1>12, <1>13, <1>14, <1>15

\* The price, as an answer is taken.
LEMMA PriceTaken ==
  ASSUME NEW r, NEW t, NEW s \in Seq(Response), s # <<>>, NEW e, PriceChain(r, s, e),
         t.price = IF Head(s).type = "ModAck" THEN Head(s).price ELSE r.price
  PROVE  PriceChain(t, Tail(s), e)
<1> DEFINE z == Tail(s)
<1>1. /\ 1 \in DOMAIN s /\ Head(s) = s[1]
      /\ \A i \in DOMAIN z : i \in Nat /\ 1 < i + 1 /\ i + 1 \in DOMAIN s /\ z[i] = s[i + 1]
      /\ \A j \in DOMAIN s :
           j = 1 \/ (j - 1 \in DOMAIN z /\ 1 < j /\ j \in Nat /\ z[j - 1] = s[j])
  BY Shifted
<1> HIDE DEF z
<1>2. ASSUME ~Has(z, {"ModAck"}) PROVE t.price = e.price
  <2>1. \A j \in DOMAIN s : j # 1 => s[j].type # "ModAck"
    BY <1>1, <1>2 DEF Has
  <2>2. CASE Head(s).type = "ModAck"
    <3>1. s[1].price = e.price
      BY <1>1, <2>1, <2>2 DEF PriceChain
    <3> QED BY <1>1, <2>2, <3>1
  <2>3. CASE Head(s).type # "ModAck"
    <3>1. ~Has(s, {"ModAck"})
      BY <1>1, <2>1, <2>3 DEF Has
    <3> QED BY <2>3, <3>1 DEF PriceChain
  <2> QED BY <2>2, <2>3
<1>3. ASSUME NEW k \in DOMAIN z, z[k].type = "ModAck",
             \A j \in DOMAIN z : k < j => z[j].type # "ModAck"
      PROVE  z[k].price = e.price
  <2>1. k \in Nat /\ k + 1 \in DOMAIN s /\ s[k + 1].type = "ModAck"
    BY <1>1, <1>3
  <2>2. ASSUME NEW j \in DOMAIN s, k + 1 < j PROVE s[j].type # "ModAck"
    <3>1. j - 1 \in DOMAIN z /\ k < j - 1 /\ z[j - 1] = s[j]
      BY <1>1, <2>1, <2>2
    <3> QED BY <1>3, <3>1
  <2>3. s[k + 1].price = e.price
    BY <2>1, <2>2 DEF PriceChain
  <2> QED BY <1>1, <2>3
<1> QED BY <1>2, <1>3 DEF PriceChain, z

\* And as one comes.
LEMMA PriceAnswered ==
  ASSUME NEW r, NEW s \in Seq(Response), NEW a \in Response, NEW e, NEW f, PriceChain(r, s, e),
         f.price = IF a.type = "ModAck" THEN a.price ELSE e.price
  PROVE  PriceChain(r, Append(s, a), f)
<1> DEFINE z == Append(s, a)
<1>1. /\ z[Len(s) + 1] = a /\ Len(s) + 1 \in DOMAIN z /\ Len(s) \in Nat
      /\ \A i \in DOMAIN s : i \in DOMAIN z /\ i \in Nat /\ i < Len(s) + 1 /\ z[i] = s[i]
      /\ \A i \in DOMAIN z : i = Len(s) + 1 \/ i \in DOMAIN s
  BY Extended
<1> HIDE DEF z
<1>2. ASSUME ~Has(z, {"ModAck"}) PROVE r.price = f.price
  <2>1. a.type # "ModAck" /\ ~Has(s, {"ModAck"})
    BY <1>1, <1>2 DEF Has
  <2> QED BY <2>1 DEF PriceChain
<1>3. ASSUME NEW k \in DOMAIN z, z[k].type = "ModAck",
             \A j \in DOMAIN z : k < j => z[j].type # "ModAck"
      PROVE  z[k].price = f.price
  <2>1. CASE k = Len(s) + 1
    BY <1>1, <1>3, <2>1
  <2>2. CASE k \in DOMAIN s
    <3>1. a.type # "ModAck" /\ \A j \in DOMAIN s : k < j => s[j].type # "ModAck"
      BY <1>1, <1>3, <2>2
    <3> QED BY <1>1, <1>3, <2>2, <3>1 DEF PriceChain
  <2> QED BY <1>1, <2>1, <2>2
<1> QED BY <1>2, <1>3 DEF PriceChain, z

--------------------------------------------------------------------------------
(***************************************************************************)
(* What an order is owed, as things happen to it                           *)
(***************************************************************************)

\* An order that has ended is owed nothing.
LEMMA SettledDead ==
  ASSUME NEW t, NEW q, NEW s, NEW e, NEW b, NEW l, NEW x, t.state \in Dead, LastFill(s, b)
  PROVE  Settled(t, q, s, e, b, l, x)
BY DEF Settled, Settling, Owed, Followed, Delayed, Dead

\* What the cancel chain makes of an order: it sends a cancel and waits for the answer,
\* leaves the order's state alone, or refuses and forgets that a modify is in flight;
\* it keeps back no cancel but that of a Pending order.
Cancels(u, t, sends) ==
  /\ t.modCounter = u.modCounter /\ t.price = u.price
  /\ t.cancelOnAck => t.state \in Dead \cup {"Pending"}
  /\ \/ t.state = u.state /\ ~sends
     \/ u.state \in {"Working", "Modifying"} /\ t.state = "Cancelling" /\ sends
     \/ u.state = "Modifying" /\ t.state = "Working" /\ ~sends

LEMMA ChainCancels ==
  ASSUME NEW r \in Order, NEW outcome \in Outcomes, up \in BOOLEAN,
         r.state \notin {"Unknown", "Cancelling"}, Delayed(r)
  PROVE  LET c == CxlChain(r, outcome) IN
         Cancels(r, c.order, c.sends) /\ c.sends \in BOOLEAN
<1> DEFINE v == sendCxl(r)
           w == onCxlRej(v.order)
           c == CxlChain(r, outcome)
<1>1. r.state \in States /\ r.cancelOnAck \in BOOLEAN
  BY OrderFields
<1>2. /\ ~v.ok => c = CxlResult(r, FALSE, FALSE)
      /\ v.ok => \/ c = CxlResult(w, FALSE, FALSE) \/ c = CxlResult(w, TRUE, FALSE)
                 \/ v.order.cancelOnAck /\ c = CxlResult(v.order, FALSE, FALSE)
                 \/ ~v.order.cancelOnAck /\ c = CxlResult(v.order, TRUE, TRUE)
  BY DEF CxlChain
<1>3. CASE MAX_CXL_REJ_COUNTER < r.cxlRejCounter
  <2>1. v = Verdict(FALSE, r)
    <3>1. ~(MAX_CXL_REJ_COUNTER >= r.cxlRejCounter)
      BY <1>3, OrderFields, CountersAssumption
    <3> QED BY <1>3, <3>1 DEF sendCxl
  <2>2. c = CxlResult(r, FALSE, FALSE)
    BY <1>2, <2>1 DEF Verdict
  <2>3. c.order = r /\ c.sends = FALSE
    BY <2>2 DEF CxlResult
  <2> QED BY <1>1, <2>3 DEF Cancels, Delayed
<1>4. ~(MAX_CXL_REJ_COUNTER < r.cxlRejCounter) => MAX_CXL_REJ_COUNTER >= r.cxlRejCounter
  BY OrderFields, CountersAssumption
<1>5. CASE ~(MAX_CXL_REJ_COUNTER < r.cxlRejCounter) /\ r.state \in {"Working", "Modifying"}
  <2>1. v = Verdict(TRUE, [r EXCEPT !.state = "Cancelling"]) /\ ~r.cancelOnAck
    BY <1>4, <1>5 DEF sendCxl, Delayed, Dead
  <2>2. /\ v.ok /\ v.order.state = "Cancelling" /\ ~v.order.cancelOnAck
        /\ v.order.modCounter = r.modCounter /\ v.order.price = r.price
    BY <2>1 DEF Verdict, Order
  <2>3. /\ w.state = "Working" /\ ~w.cancelOnAck
        /\ w.modCounter = r.modCounter /\ w.price = r.price
    BY <2>1 DEF onCxlRej, Verdict, Order
  <2> HIDE DEF v, w, c
  <2>4. \/ c.order = w /\ c.sends = FALSE
        \/ c.order = v.order /\ c.sends = TRUE
    BY <1>2, <2>2 DEF CxlResult
  <2> QED BY <1>5, <2>2, <2>3, <2>4 DEF Cancels, c
<1>6. CASE ~(MAX_CXL_REJ_COUNTER < r.cxlRejCounter) /\ r.state \notin {"Working", "Modifying"}
  <2>1. v = Verdict(TRUE, [r EXCEPT !.cancelOnAck = TRUE])
    BY <1>6 DEF sendCxl
  <2>2. /\ v.ok /\ v.order.state = r.state /\ v.order.cancelOnAck
        /\ v.order.modCounter = r.modCounter /\ v.order.price = r.price
    BY <2>1 DEF Verdict, Order
  <2>3. /\ w.state = r.state
        /\ w.modCounter = r.modCounter /\ w.price = r.price
    BY <2>1 DEF onCxlRej, Verdict, Order
  <2>4. r.state \in Dead \cup {"Pending"}
    BY <1>1, <1>6 DEF States, Dead
  <2> HIDE DEF v, w, c
  <2>5. (c.order = w \/ c.order = v.order) /\ c.sends = FALSE
    BY <1>2, <2>2 DEF CxlResult
  <2> QED BY <2>2, <2>3, <2>4, <2>5 DEF Cancels, c
<1> QED BY <1>3, <1>5, <1>6

\* checkCancelOnAck, once an answer has been handled.
LEMMA CheckCancels ==
  ASSUME NEW u \in Order, NEW outcome \in Outcomes, up \in BOOLEAN,
         u.cancelOnAck => u.state \in Dead \cup {"Pending", "Working"}
  PROVE  LET c == checkCancelOnAck(u, outcome) IN
         /\ Cancels(u, c.order, c.sends) /\ c.sends \in BOOLEAN
         /\ u.state = "Modifying" => c.order = u
<1> DEFINE d == [u EXCEPT !.cancelOnAck = FALSE]
<1>1. u.cancelOnAck \in BOOLEAN
  BY OrderFields
<1>2. CASE ~u.cancelOnAck
  BY <1>1, <1>2 DEF checkCancelOnAck, CxlResult, Cancels
<1>3. CASE u.cancelOnAck
  <2>1. /\ d \in Order /\ d.cancelOnAck = FALSE /\ d.state = u.state
        /\ d.modCounter = u.modCounter /\ d.price = u.price
    BY DEF Order
  <2>2. u.state \notin {"Cancelling", "Unknown", "Modifying"}
    BY <1>3 DEF Dead
  <2>3. checkCancelOnAck(u, outcome) = CxlChain(d, outcome)
    BY <1>3, <2>2 DEF checkCancelOnAck
  <2>4. Delayed(d)
    BY <2>1 DEF Delayed
  <2> HIDE DEF d
  <2>5. LET c == CxlChain(d, outcome) IN Cancels(d, c.order, c.sends) /\ c.sends \in BOOLEAN
    BY <2>1, <2>2, <2>4, ChainCancels
  <2> QED BY <2>1, <2>2, <2>3, <2>5 DEF Cancels
<1> QED BY <1>2, <1>3

\* The cancel chain settles what it is given.
LEMMA SettledCancels ==
  ASSUME NEW u, NEW t, NEW q \in Seq(Request), NEW z, NEW m \in Request, m.type = "Cxl",
         NEW s \in Seq(Response), NEW e, NEW b, NEW l, NEW x \in BOOLEAN, NEW y \in BOOLEAN,
         NEW sends \in BOOLEAN, Settling(u, q, s, e, b, l, x), Cancels(u, t, sends),
         sends => z = Append(q, m), ~sends => z = q,
         x => y, u.state = "Modifying" /\ t.state # "Modifying" => y
  PROVE  Settled(t, z, s, e, b, l, y)
<1>1. /\ sends => Has(z, {"Cxl"})
      /\ \A T : Has(q, T) => Has(z, T)
      /\ Mods(z, s) = Mods(q, s)
  <2>1. CASE sends
    <3>1. z = Append(q, m)
      BY <2>1
    <3>2. \A T : Has(Append(q, m), T) <=> Has(q, T) \/ m.type \in T
      BY HasMoved
    <3>3. /\ Mods(q, s) \in Nat
          /\ Mods(Append(q, m), s) = Mods(q, s) + IF m.type = "Mod" THEN 1 ELSE 0
      BY ModsMoved
    <3> QED BY <3>1, <3>2, <3>3
  <2> QED BY <2>1
<1>2. Owed(t, z, s, l)
  BY <1>1 DEF Settling, Owed, Cancels
<1>3. Delayed(t)
  BY DEF Cancels, Delayed, Dead
<1>4. ASSUME t.state \notin Dead, ~l, ~y PROVE ModsExact(t, z, s) /\ PriceChain(t, s, e)
  <2>1. u.state \notin Dead /\ ~x
    BY <1>4 DEF Cancels, Dead
  <2>2. ModsExact(u, q, s) /\ PriceChain(u, s, e)
    BY <1>4, <2>1 DEF Settling, Followed
  <2>3. t.state = "Modifying" <=> u.state = "Modifying"
    BY <1>4 DEF Cancels
  <2> QED BY <1>1, <2>2, <2>3 DEF ModsExact, PriceChain, Cancels
<1> QED BY <1>2, <1>3, <1>4 DEF Settled, Settling, Followed

\* An answer is taken, and with it what the order was owed.
LEMMA SettlingTaken ==
  ASSUME NEW r, NEW u, NEW q \in Seq(Request), NEW s \in Seq(Response), s # <<>>,
         NEW e, NEW b, NEW l, NEW x, Settled(r, q, s, e, b, l, x),
         u.state = "Pending" => r.state = "Pending" /\ Head(s).type \notin NewAnswers,
         u.state = "Cancelling" => r.state = "Cancelling" /\ Head(s).type \notin CxlAnswers,
         Followed(u, q, Tail(s), e, l, x)
  PROVE  Settling(u, q, Tail(s), e, b, l, x)
<1>1. \A T : Has(s, T) <=> Head(s).type \in T \/ Has(Tail(s), T)
  BY HasMoved
<1>2. Owed(u, q, Tail(s), l)
  BY <1>1 DEF Settled, Settling, Owed
<1>3. LastFill(Tail(s), b)
  <2>1. \A i \in DOMAIN Tail(s) : i + 1 \in DOMAIN s /\ Tail(s)[i] = s[i + 1]
    BY Shifted
  <2> QED BY <2>1 DEF Settled, Settling, LastFill
<1> QED BY <1>2, <1>3 DEF Settling

\* An answer that is not to a modify.
LEMMA FollowedOther ==
  ASSUME NEW r, NEW u, NEW q \in Seq(Request), NEW s \in Seq(Response), s # <<>>,
         NEW e, NEW l, NEW x, Followed(r, q, s, e, l, x), Head(s).type \notin ModAnswers,
         r.state \in Dead => u.state \in Dead, u.modCounter = r.modCounter, u.price = r.price,
         u.state = "Modifying" <=> r.state = "Modifying"
  PROVE  Followed(u, q, Tail(s), e, l, x)
<1> SUFFICES ASSUME u.state \notin Dead, ~l, ~x
             PROVE  ModsExact(u, q, Tail(s)) /\ PriceChain(u, Tail(s), e)
  BY DEF Followed
<1>1. ModsExact(r, q, s) /\ PriceChain(r, s, e)
  BY DEF Followed
<1>2. Mods(q, Tail(s)) = Mods(q, s) /\ Head(s).type # "ModAck"
  <2>1. Mods(q, Tail(s)) = Mods(q, s) - 0 /\ Mods(q, s) \in Nat
    BY ModsMoved
  <2> QED BY <2>1 DEF ModAnswers
<1>3. PriceChain(u, Tail(s), e)
  BY <1>1, <1>2, PriceTaken
<1> QED BY <1>1, <1>2, <1>3 DEF ModsExact

\* And one that is.
LEMMA FollowedMod ==
  ASSUME NEW r \in Order, NEW u, NEW q \in Seq(Request), NEW s \in Seq(Response), s # <<>>,
         NEW e, NEW l, NEW x, Followed(r, q, s, e, l, x), Head(s).type \in ModAnswers,
         r.state # "Modifying" => u.state = r.state,
         r.state = "Modifying" =>
           /\ u.state = IF r.modCounter = 1 THEN "Working" ELSE "Modifying"
           /\ u.modCounter = r.modCounter - 1
           /\ u.price = IF Head(s).type = "ModAck" THEN Head(s).price ELSE r.price
  PROVE  Followed(u, q, Tail(s), e, l, x)
<1> SUFFICES ASSUME u.state \notin Dead, ~l, ~x
             PROVE  ModsExact(u, q, Tail(s)) /\ PriceChain(u, Tail(s), e)
  BY DEF Followed
<1>1. ModsExact(r, q, s) /\ PriceChain(r, s, e)
  BY DEF Followed, Dead
<1>2. Mods(q, Tail(s)) = Mods(q, s) - 1 /\ Mods(q, s) \in Nat
  BY ModsMoved
<1>3. Mods(q, s) > 0
  <2>1. Has(s, ModAnswers)
    BY HasMoved
  <2> QED BY <2>1, ModsMoved
<1>4. r.state = "Modifying"
  BY <1>1, <1>3 DEF ModsExact
<1>5. PriceChain(u, Tail(s), e)
  BY <1>1, <1>4, PriceTaken
<1>6. ModsExact(u, q, Tail(s))
  BY <1>1, <1>2, <1>3, <1>4 DEF ModsExact
<1> QED BY <1>5, <1>6

\* onNewAck.
LEMMA NewAckSettles ==
  ASSUME NEW r \in Order, NEW q \in Seq(Request), NEW s \in Seq(Response), s # <<>>,
         NEW e, NEW b, NEW l, NEW x, Settled(r, q, s, e, b, l, x), Head(s).type = "NewAck"
  PROVE  LET u == onNewAck(r) IN
         /\ Settling(u, q, Tail(s), e, b, l, x)
         /\ u.cancelOnAck => u.state \in Dead \cup {"Working"}
<1> DEFINE u == onNewAck(r)
<1>1. /\ u.cancelOnAck = r.cancelOnAck /\ u.modCounter = r.modCounter /\ u.price = r.price
      /\ u.state = IF r.state = "Pending" THEN "Working" ELSE r.state
  BY DEF onNewAck, Order
<1> HIDE DEF u
<1>2. Followed(u, q, Tail(s), e, l, x)
  <2>1. Head(s).type \notin ModAnswers
    BY DEF ModAnswers
  <2>2. Followed(r, q, s, e, l, x)
    BY DEF Settled, Settling
  <2> QED BY <1>1, <2>1, <2>2, FollowedOther DEF Dead
<1>3. Settling(u, q, Tail(s), e, b, l, x)
  BY <1>1, <1>2, SettlingTaken DEF CxlAnswers
<1>4. u.cancelOnAck => u.state \in Dead \cup {"Working"}
  BY <1>1 DEF Settled, Delayed
<1> QED BY <1>3, <1>4 DEF u

\* What doOnModPost does to the order.
LEMMA ModPost ==
  ASSUME NEW r \in Order, NEW updatePrice \in BOOLEAN
  PROVE  LET u == doOnModPost(r, updatePrice) IN
         /\ r.state # "Modifying" => u = r
         /\ u.cancelOnAck = r.cancelOnAck
         /\ r.state = "Modifying" =>
              /\ u.state = IF r.modCounter = 1 THEN "Working" ELSE "Modifying"
              /\ u.modCounter = r.modCounter - 1
              /\ u.price = IF updatePrice THEN r.newPrice ELSE r.price
BY DEF doOnModPost, Order

\* onModAck and onModAckPost, onModRej and onModRejPost.
LEMMA ModAnswerSettles ==
  ASSUME NEW r \in Order, NEW q \in Seq(Request), NEW s \in Seq(Response), s # <<>>,
         NEW e, NEW b, NEW l, NEW x, Settled(r, q, s, e, b, l, x),
         Head(s).type \in ModAnswers, NEW u,
         IF Head(s).type = "ModAck"
           THEN u = onModAckPost(onModAck([r EXCEPT !.newPrice = Head(s).price]))
           ELSE u = onModRejPost(onModRej(r), FALSE)
  PROVE  /\ Settling(u, q, Tail(s), e, b, l, x)
         /\ u.cancelOnAck => u.state \in Dead \cup {"Pending"}
<1> DEFINE w == IF Head(s).type = "ModAck" THEN onModAck([r EXCEPT !.newPrice = Head(s).price])
                                           ELSE onModRej(r)
<1>1. Head(s).price \in Prices \cup {InvalidPrice}
  <2>1. Head(s) \in Response
    OBVIOUS
  <2> QED BY <2>1 DEF Response
<1>2. /\ w \in Order /\ w.state = r.state /\ w.cancelOnAck = r.cancelOnAck
      /\ w.modCounter = r.modCounter /\ w.price = r.price
      /\ Head(s).type = "ModAck" => w.newPrice = Head(s).price
  <2> DEFINE d == [r EXCEPT !.newPrice = Head(s).price]
  <2>1. /\ d \in Order /\ d.state = r.state /\ d.cancelOnAck = r.cancelOnAck
        /\ d.modCounter = r.modCounter /\ d.price = r.price /\ d.newPrice = Head(s).price
    BY <1>1 DEF Order
  <2> HIDE DEF d
  <2>2. CASE Head(s).type = "ModAck"
    <3>1. w = onModAck(d)
      BY <2>2 DEF d
    <3> HIDE DEF w
    <3> QED BY <2>1, <3>1 DEF onModAck, Order
  <2>3. CASE Head(s).type # "ModAck"
    <3>1. w = onModRej(r)
      BY <2>3
    <3> HIDE DEF w
    <3> QED BY <2>3, <3>1, SMTT(40) DEF onModRej, Order
  <2> QED BY <2>2, <2>3
<1>3. u = doOnModPost(w, Head(s).type = "ModAck")
  BY DEF onModAckPost, onModRejPost
<1> HIDE DEF w
<1>4. /\ w.state # "Modifying" => u = w
      /\ u.cancelOnAck = w.cancelOnAck
      /\ w.state = "Modifying" =>
           /\ u.state = IF w.modCounter = 1 THEN "Working" ELSE "Modifying"
           /\ u.modCounter = w.modCounter - 1
           /\ u.price = IF Head(s).type = "ModAck" THEN w.newPrice ELSE w.price
  BY <1>2, <1>3, ModPost
<1>5. /\ r.state # "Modifying" => u.state = r.state
      /\ r.state = "Modifying" =>
           /\ u.state = IF r.modCounter = 1 THEN "Working" ELSE "Modifying"
           /\ u.modCounter = r.modCounter - 1
           /\ u.price = IF Head(s).type = "ModAck" THEN Head(s).price ELSE r.price
  BY <1>2, <1>4
<1>6. Followed(u, q, Tail(s), e, l, x)
  <2>1. Followed(r, q, s, e, l, x)
    BY DEF Settled, Settling
  <2> QED BY <1>5, <2>1, FollowedMod
<1>7. Settling(u, q, Tail(s), e, b, l, x)
  BY <1>5, <1>6, SettlingTaken DEF CxlAnswers, NewAnswers, ModAnswers
<1>8. u.cancelOnAck => u.state \in Dead \cup {"Pending"}
  BY <1>2, <1>4, <1>5 DEF Settled, Delayed, Dead
<1> QED BY <1>7, <1>8

\* onNewRej, onCxlAck, onCxlRej and onFill: the report that completes an order ends it.
LEMMA OtherAnswerSettles ==
  ASSUME NEW r \in Order, NEW q \in Seq(Request), NEW s \in Seq(Response), s # <<>>,
         NEW e, NEW b, NEW l, NEW x, Settled(r, q, s, e, b, l, x), NEW u,
         \/ Head(s).type = "NewRej" /\ u = onNewRej(r)
         \/ Head(s).type = "CxlAck" /\ u = onCxlAck(r)
         \/ Head(s).type = "CxlRej" /\ u = onCxlRej(r)
         \/ Head(s).type \in Fills /\ u = onFill(r, Head(s).qty),
         r.qty = b.qty,
         Head(s).type = "Fill" => Head(s).cum = r.cumQty + Head(s).qty
  PROVE  Settled(u, q, Tail(s), e, b, l, x)
<1>1. Head(s).type \notin ModAnswers /\ Head(s) = s[1] /\ 1 \in DOMAIN s
  BY Shifted DEF ModAnswers, Fills
<1>2. LastFill(Tail(s), b)
  <2>1. \A i \in DOMAIN Tail(s) : i + 1 \in DOMAIN s /\ Tail(s)[i] = s[i + 1]
    BY Shifted
  <2> QED BY <2>1 DEF Settled, Settling, LastFill
<1>3. CASE u.state \in Dead
  BY <1>2, <1>3, SettledDead
<1>4. ASSUME /\ u.modCounter = r.modCounter /\ u.price = r.price /\ u.cancelOnAck = r.cancelOnAck
             /\ r.state \in Dead => u.state \in Dead
             /\ u.state = r.state \/ (r.state = "Cancelling" /\ u.state = "Working")
             /\ u.state = "Pending" => Head(s).type \notin NewAnswers
             /\ u.state = "Cancelling" => Head(s).type \notin CxlAnswers
      PROVE  Settled(u, q, Tail(s), e, b, l, x)
  <2>1. Followed(r, q, s, e, l, x) /\ (u.state = "Modifying" <=> r.state = "Modifying")
    BY <1>4 DEF Settled, Settling
  <2>2. Followed(u, q, Tail(s), e, l, x)
    BY <1>1, <1>4, <2>1, FollowedOther
  <2>3. Settling(u, q, Tail(s), e, b, l, x)
    BY <1>4, <2>2, SettlingTaken
  <2>4. Delayed(u)
    BY <1>4 DEF Settled, Delayed, Dead
  <2> QED BY <2>3, <2>4 DEF Settled
<1>5. CASE Head(s).type = "NewRej" /\ u = onNewRej(r)
  <2>1. CASE r.state \in {"Pending", "Unknown"}
    <3>1. u.state = "Rejected"
      BY <1>5, <2>1 DEF onNewRej, remove, Order
    <3> QED BY <1>3, <3>1 DEF Dead
  <2>2. CASE r.state \notin {"Pending", "Unknown"}
    <3>1. u = r
      BY <1>5, <2>2 DEF onNewRej
    <3> QED BY <1>4, <1>5, <2>2, <3>1 DEF CxlAnswers
  <2> QED BY <2>1, <2>2
<1>6. CASE Head(s).type = "CxlAck" /\ u = onCxlAck(r)
  <2>1. u.state = "Cancelled"
    BY <1>6 DEF onCxlAck, remove, Order
  <2> QED BY <1>3, <2>1 DEF Dead
<1>7. CASE Head(s).type = "CxlRej" /\ u = onCxlRej(r)
  <2>1. /\ u.modCounter = r.modCounter /\ u.price = r.price /\ u.cancelOnAck = r.cancelOnAck
        /\ u.state = IF r.state = "Cancelling" THEN "Working" ELSE r.state
    BY <1>7 DEF onCxlRej, Order
  <2> QED BY <1>4, <1>7, <2>1 DEF NewAnswers, Dead
<1>8. CASE Head(s).type \in Fills /\ u = onFill(r, Head(s).qty)
  <2>1. Head(s).qty \in Nat
    BY <1>1, ResponseFields
  <2>2. /\ u.modCounter = r.modCounter /\ u.price = r.price /\ u.cancelOnAck = r.cancelOnAck
        /\ u.state = IF r.state = "Filled" \/ r.qty <= r.cumQty + Head(s).qty
                       THEN "Filled" ELSE r.state
    BY <1>8 DEF onFill, changePosCounts, remove, Order
  <2>3. CASE Head(s).type = "Fill"
    <3>1. Head(s).cum = b.qty
      BY <1>1, <2>3 DEF Settled, Settling, LastFill
    <3>2. r.qty <= r.cumQty + Head(s).qty
      BY <2>1, <2>3, <3>1, OrderFields
    <3>3. u.state = "Filled"
      BY <2>2, <3>2
    <3> QED BY <1>3, <3>3 DEF Dead
  <2>4. CASE Head(s).type = "PartFill"
    <3>1. CASE u.state = "Filled"
      BY <1>3, <3>1 DEF Dead
    <3>2. CASE u.state # "Filled"
      BY <1>4, <2>2, <2>4, <3>2 DEF NewAnswers, CxlAnswers
    <3> QED BY <3>1, <3>2
  <2> QED BY <1>8, <2>3, <2>4 DEF Fills
<1> QED BY <1>5, <1>6, <1>7, <1>8

\* The exchange answers a request.
LEMMA SettledAnswered ==
  ASSUME NEW r, NEW q \in Seq(Request), q # <<>>, NEW s \in Seq(Response), NEW e, NEW f, NEW b,
         NEW l, NEW x, NEW a \in Response, Settled(r, q, s, e, b, l, x),
         \/ Head(q).type = "New" /\ a.type \in NewAnswers
         \/ Head(q).type = "Mod" /\ a.type \in ModAnswers
         \/ Head(q).type = "Cxl" /\ a.type \in {"CxlAck", "CxlRej"},
         f.price = IF a.type = "ModAck" THEN a.price ELSE e.price
  PROVE  Settled(r, Tail(q), Append(s, a), f, b, l, x)
<1>1. /\ \A T : Has(q, T) <=> Head(q).type \in T \/ Has(Tail(q), T)
      /\ \A T : Has(Append(s, a), T) <=> Has(s, T) \/ a.type \in T
  BY HasMoved
<1>2. Owed(r, Tail(q), Append(s, a), l)
  BY <1>1 DEF Settled, Settling, Owed, NewAnswers, CxlAnswers, ModAnswers
<1>3. LastFill(Append(s, a), b)
  <2>1. a.type # "Fill"
    BY DEF NewAnswers, ModAnswers
  <2> QED BY <2>1, Extended DEF Settled, Settling, LastFill
<1>4. ASSUME r.state \notin Dead, ~l, ~x
      PROVE  ModsExact(r, Tail(q), Append(s, a)) /\ PriceChain(r, Append(s, a), f)
  <2>1. ModsExact(r, q, s) /\ PriceChain(r, s, e)
    BY <1>4 DEF Settled, Settling, Followed
  <2>2. PriceChain(r, Append(s, a), f)
    BY <2>1, PriceAnswered
  <2>3. Head(q).type = "Mod" <=> a.type \in ModAnswers
    BY DEF NewAnswers, ModAnswers
  <2>4. /\ Mods(q, s) \in Nat
        /\ Mods(Tail(q), Append(s, a)) =
             Mods(q, s) - (IF Head(q).type = "Mod" THEN 1 ELSE 0)
                        + IF a.type \in ModAnswers THEN 1 ELSE 0
    BY ModsMoved
  <2>5. Mods(Tail(q), Append(s, a)) = Mods(q, s)
    BY <2>3, <2>4
  <2> QED BY <2>1, <2>2, <2>5 DEF ModsExact
<1> QED BY <1>2, <1>3, <1>4 DEF Settled, Settling, Followed

\* It reports a fill or the end of the order.
LEMMA SettledReported ==
  ASSUME NEW r, NEW q \in Seq(Request), NEW s \in Seq(Response), NEW e, NEW f, NEW b,
         NEW l, NEW x, NEW a \in Response, Settled(r, q, s, e, b, l, x),
         a.type \in Closing, a.type = "Fill" => a.cum = b.qty, f.price = e.price
  PROVE  Settled(r, q, Append(s, a), f, b, l, x)
<1>1. a.type \notin ModAnswers /\ a.type # "ModAck"
  BY DEF ModAnswers, Closing, Fills
<1>2. \A T : Has(Append(s, a), T) <=> Has(s, T) \/ a.type \in T
  BY HasMoved
<1>3. Owed(r, q, Append(s, a), l)
  BY <1>2 DEF Settled, Settling, Owed
<1>4. LastFill(Append(s, a), b)
  BY Extended DEF Settled, Settling, LastFill
<1>5. ASSUME r.state \notin Dead, ~l, ~x
      PROVE  ModsExact(r, q, Append(s, a)) /\ PriceChain(r, Append(s, a), f)
  <2>1. ModsExact(r, q, s) /\ PriceChain(r, s, e)
    BY <1>5 DEF Settled, Settling, Followed
  <2>2. PriceChain(r, Append(s, a), f)
    BY <1>1, <2>1, PriceAnswered
  <2>3. Mods(q, s) \in Nat /\ Mods(q, Append(s, a)) = Mods(q, s) + 0
    BY <1>1, ModsMoved
  <2> QED BY <2>1, <2>2, <2>3 DEF ModsExact
<1> QED BY <1>3, <1>4, <1>5 DEF Settled, Settling, Followed

\* A session that is down loses a request other than a cancel.
LEMMA SettledLost ==
  ASSUME NEW r, NEW q \in Seq(Request), q # <<>>, NEW s, NEW e, NEW b, NEW l, NEW x,
         Settled(r, q, s, e, b, l, x), Head(q).type # "Cxl"
  PROVE  Settled(r, Tail(q), s, e, b, TRUE, x)
<1>1. Has(q, {"Cxl"}) <=> Head(q).type \in {"Cxl"} \/ Has(Tail(q), {"Cxl"})
  BY HasMoved
<1> QED BY <1>1 DEF Settled, Settling, Owed, Followed

\* A new is refused or leaves.
LEMMA NewSettles ==
  ASSUME NEW r \in Order, r.state = "Unknown", NEW q \in Seq(Request), NEW m \in Request,
         m.type = "New", NEW s \in Seq(Response), NEW e, NEW b, NEW l, NEW x,
         Settled(r, q, s, e, b, l, x)
  PROVE  LET v == sendNew(r) IN
         /\ ~v.ok => Settled(v.order, q, s, e, b, l, x)
         /\ v.ok => Settled(onNewRej(v.order), q, s, e, b, l, x)
         /\ v.ok => Settled(v.order, Append(q, m), s, e, b, l, x)
<1> DEFINE v == sendNew(r)
           d == [r EXCEPT !.state = "Pending"]
<1>1. LastFill(s, b)
  BY DEF Settled, Settling
<1>2. /\ d \in Order /\ d.state = "Pending" /\ d.cancelOnAck = r.cancelOnAck
      /\ d.modCounter = r.modCounter /\ d.price = r.price
  BY DEF Order, States
<1>3. CASE r.qty <= 0 \/ r.price = InvalidPrice
  <2>1. v = Verdict(FALSE, onNewRej(d))
    BY <1>3 DEF sendNew
  <2> HIDE DEF v, d
  <2>2. v.ok = FALSE /\ v.order.state = "Rejected"
    BY <1>2, <2>1 DEF Verdict, onNewRej, remove, Order
  <2>3. Settled(v.order, q, s, e, b, l, x)
    BY <1>1, <2>2, SettledDead DEF Dead
  <2> QED BY <2>2, <2>3 DEF v
<1>4. CASE ~(r.qty <= 0 \/ r.price = InvalidPrice)
  <2>1. v = Verdict(TRUE, add(d))
    BY <1>4 DEF sendNew
  <2> HIDE DEF v, d
  <2>2. /\ v.ok = TRUE /\ v.order.state = "Pending" /\ v.order.cancelOnAck = r.cancelOnAck
        /\ v.order.modCounter = r.modCounter /\ v.order.price = r.price
    BY <1>2, <2>1 DEF Verdict, add, Order
  <2>3. onNewRej(v.order).state = "Rejected"
    BY <1>2, <2>1 DEF Verdict, add, onNewRej, remove, Order
  <2>4. Settled(onNewRej(v.order), q, s, e, b, l, x)
    BY <1>1, <2>3, SettledDead DEF Dead
  <2>5. Has(Append(q, m), {"New"})
    BY HasMoved
  <2>6. Owed(v.order, Append(q, m), s, l) /\ Delayed(v.order)
    BY <2>2, <2>5 DEF Owed, Delayed
  <2>7. Followed(v.order, Append(q, m), s, e, l, x)
    <3>1. Mods(q, s) \in Nat /\ Mods(Append(q, m), s) = Mods(q, s) + 0
      BY ModsMoved
    <3> QED BY <2>2, <3>1 DEF Settled, Settling, Followed, ModsExact, PriceChain, Dead
  <2> QED BY <1>1, <2>2, <2>4, <2>6, <2>7 DEF Settled, Settling, v
<1> QED BY <1>3, <1>4

\* A modify is refused, by Orders or behind it, or leaves.
LEMMA ModSettles ==
  ASSUME MAX_MOD_COUNTER # 0,
         NEW r \in Order, NEW q \in Seq(Request), NEW m \in Request, m.type = "Mod",
         NEW s \in Seq(Response), NEW e, NEW b, NEW l, NEW x, NEW p \in Prices,
         Settled(r, q, s, e, b, l, x)
  PROVE  LET v == sendMod([r EXCEPT !.newPrice = p]) IN
         /\ ~v.ok => Settled(onModRejPost(onModRej(v.order), TRUE), q, s, e, b, l, x)
         /\ v.ok => Settled(onModRejPost(onModRej(v.order), FALSE), q, s, e, b, l, x)
         /\ v.ok => Settled(v.order, Append(q, m), s, e, b, l, x)
<1> DEFINE n == [r EXCEPT !.newPrice = p]
           v == sendMod(n)
           w == onModRej(v.order)
           t == onModRejPost(w, TRUE)
           u == onModRejPost(w, FALSE)
<1>1. /\ n \in Order /\ n.state = r.state /\ n.price = r.price /\ n.newPrice = p
      /\ n.modCounter = r.modCounter /\ n.cancelOnAck = r.cancelOnAck
      /\ r.modCounter \in Int
  BY DEF Order
<1> HIDE DEF n
<1>2. LastFill(s, b) /\ Mods(q, s) \in Nat
  BY ModsMoved DEF Settled, Settling
\* An order that keeps state, counter, price and flag, but that one in Working may
\* become Modifying if that is where its modifies put it.
<1>3. ASSUME NEW d, d.modCounter = r.modCounter, d.price = r.price,
             d.cancelOnAck = r.cancelOnAck,
             \/ d.state = r.state
             \/ /\ {d.state, r.state} \subseteq {"Working", "Modifying"}
                /\ d.state = "Modifying" <=> r.modCounter > 0
      PROVE  Settled(d, q, s, e, b, l, x)
  <2>1. Owed(d, q, s, l) /\ Delayed(d)
    BY <1>3 DEF Settled, Settling, Owed, Delayed, Dead
  <2>2. Followed(d, q, s, e, l, x)
    BY <1>2, <1>3 DEF Settled, Settling, Followed, ModsExact, PriceChain, Dead
  <2> QED BY <1>2, <2>1, <2>2 DEF Settled, Settling
<1>4. CASE \/ n.newPrice \in {InvalidPrice, n.price}
           \/ MAX_MOD_REJ_COUNTER < n.modRejCounter
           \/ n.state \notin {"Working", "Modifying"}
  <2>1. v = Verdict(FALSE, n)
    BY <1>4 DEF sendMod
  <2>2. v.ok = FALSE /\ v.order = n
    BY <2>1 DEF Verdict
  <2>3. /\ t.modCounter = r.modCounter /\ t.price = r.price
        /\ t.cancelOnAck = r.cancelOnAck /\ t.state = r.state
    BY <1>1, <2>2 DEF onModRejPost, onModRej, Order
  <2> HIDE DEF v, t
  <2>4. Settled(t, q, s, e, b, l, x)
    BY <1>3, <2>3
  <2> QED BY <2>2, <2>4 DEF v, t, n
<1>5. CASE /\ n.newPrice \notin {InvalidPrice, n.price}
           /\ ~(MAX_MOD_REJ_COUNTER < n.modRejCounter)
           /\ n.state \in {"Working", "Modifying"}
  <2>1. v = IF MAX_MOD_COUNTER < n.modCounter + 1
              THEN Verdict(FALSE, [n EXCEPT !.state = "Modifying"])
              ELSE Verdict(TRUE, [n EXCEPT !.state = "Modifying", !.modCounter = @ + 1])
    BY <1>1, <1>5 DEF sendMod, Order
  <2>2. CASE MAX_MOD_COUNTER < n.modCounter + 1
    <3>1. v.ok = FALSE /\ v.order = [n EXCEPT !.state = "Modifying"]
      BY <2>1, <2>2 DEF Verdict
    <3>2. /\ t.modCounter = r.modCounter /\ t.price = r.price
          /\ t.cancelOnAck = r.cancelOnAck /\ t.state = "Modifying"
      BY <1>1, <3>1 DEF onModRejPost, onModRej, Order
    <3>3. r.modCounter > 0
      BY <1>1, <2>2, CountersAssumption
    <3> HIDE DEF v, t
    <3>4. Settled(t, q, s, e, b, l, x)
      BY <1>1, <1>3, <1>5, <3>2, <3>3
    <3> QED BY <3>1, <3>4 DEF v, t, n
  <2>3. CASE ~(MAX_MOD_COUNTER < n.modCounter + 1)
    <3>1. v.ok = TRUE /\ v.order = [n EXCEPT !.state = "Modifying", !.modCounter = @ + 1]
      BY <2>1, <2>3 DEF Verdict
    <3>2. /\ v.order.state = "Modifying" /\ v.order.modCounter = r.modCounter + 1
          /\ v.order.price = r.price /\ v.order.cancelOnAck = r.cancelOnAck
      BY <1>1, <3>1 DEF Order
    <3>3. v.order \in Order
      BY <1>1, OutboundType
    <3>4. w = onModRej(v.order) /\ u = onModRejPost(w, FALSE)
      OBVIOUS
    <3> HIDE DEF v, w, u
    <3>5. /\ w.state = "Modifying" /\ w.modCounter = r.modCounter + 1 /\ w \in Order
          /\ w.price = r.price /\ w.cancelOnAck = r.cancelOnAck
      <4>1. w \in Order
        BY <3>3, <3>4, InboundType
      <4>2. w = [v.order EXCEPT !.modRejCounter = @ + 1]
        BY <3>4 DEF onModRej
      <4> QED BY <3>2, <3>3, <4>1, <4>2 DEF Order
    <3>6. u = doOnModPost(w, FALSE)
      BY <3>4 DEF onModRejPost
    <3>7. /\ u.cancelOnAck = w.cancelOnAck /\ u.price = w.price
          /\ u.state = IF w.modCounter = 1 THEN "Working" ELSE "Modifying"
          /\ u.modCounter = w.modCounter - 1
      BY <3>5, <3>6, ModPost
    <3>8. Settled(u, q, s, e, b, l, x)
      <4>1. /\ u.modCounter = r.modCounter /\ u.price = r.price /\ u.cancelOnAck = r.cancelOnAck
            /\ u.state = IF r.modCounter = 0 THEN "Working" ELSE "Modifying"
        BY <1>1, <3>5, <3>7
      <4>2. ~r.cancelOnAck
        BY <1>1, <1>5 DEF Settled, Delayed, Dead
      <4>3. Owed(u, q, s, l) /\ Delayed(u)
        BY <4>1, <4>2 DEF Owed, Delayed
      <4>4. Followed(u, q, s, e, l, x)
        BY <1>1, <1>2, <1>5, <4>1 DEF Settled, Settling, Followed, ModsExact, PriceChain, Dead
      <4> QED BY <1>2, <4>3, <4>4 DEF Settled, Settling
    <3>9. Settled(v.order, Append(q, m), s, e, b, l, x)
      <4>1. Mods(Append(q, m), s) = Mods(q, s) + 1
        BY ModsMoved
      <4>2. Owed(v.order, Append(q, m), s, l)
        BY <3>2 DEF Owed
      <4>3. Delayed(v.order)
        BY <1>1, <1>5, <3>2 DEF Settled, Delayed, Dead
      <4>4. Followed(v.order, Append(q, m), s, e, l, x)
        BY <1>1, <1>2, <1>5, <3>2, <4>1 DEF Settled, Settling, Followed, ModsExact, PriceChain, Dead
      <4> QED BY <1>2, <4>2, <4>3, <4>4 DEF Settled, Settling
    <3> QED BY <3>1, <3>8, <3>9 DEF u, v, w, n
  <2> QED BY <2>2, <2>3
<1> QED BY <1>4, <1>5

--------------------------------------------------------------------------------
(***************************************************************************)
(* Every step leaves every order what it is owed                           *)
(***************************************************************************)

AllSettled ==
  \A o \in Orders :
    Settled(ord[o], req[o], resp[o], ex[o], Book[o], o \in lost, o \in crossed)

\* The flag of a kept-back cancel comes down as AckServesDelayed says.
Served(o) ==
  ord[o].cancelOnAck /\ ~ord'[o].cancelOnAck /\ isOrderLive(ord'[o]) =>
    \/ Len(req'[o]) > Len(req[o])
    \/ ord'[o].cxlRejCounter > ord[o].cxlRejCounter
    \/ ord[o].cxlRejCounter > MAX_CXL_REJ_COUNTER

AllServed == \A o \in Orders : Served(o)

\* The orders a step does not name.
AsideSettled(o) ==
  \A x \in Orders \ {o} :
    /\ ord'[x] = ord[x] /\ req'[x] = req[x] /\ resp'[x] = resp[x] /\ ex'[x] = ex[x]
    /\ x \in lost' <=> x \in lost
    /\ x \in crossed' <=> x \in crossed

\* A step of one order is judged by that order alone.
LEMMA OneSettled ==
  ASSUME AllSettled, NEW o \in Orders, AsideSettled(o), Served(o),
         Settled(ord'[o], req'[o], resp'[o], ex'[o], Book[o], o \in lost', o \in crossed')
  PROVE  AllSettled' /\ AllServed
<1>1. ASSUME NEW x \in Orders, x # o PROVE Served(x)
  <2>1. ord'[x] = ord[x]
    BY <1>1 DEF AsideSettled
  <2> QED BY <2>1 DEF Served
<1>2. ASSUME NEW x \in Orders, x # o
      PROVE  Settled(ord[x], req[x], resp[x], ex[x], Book[x], x \in lost, x \in crossed)'
  <2>1. /\ ord'[x] = ord[x] /\ req'[x] = req[x] /\ resp'[x] = resp[x] /\ ex'[x] = ex[x]
        /\ (x \in lost') = (x \in lost) /\ (x \in crossed') = (x \in crossed)
    BY <1>2 DEF AsideSettled
  <2>2. Settled(ord[x], req[x], resp[x], ex[x], Book[x], x \in lost, x \in crossed)
    BY DEF AllSettled
  <2> QED BY <2>1, <2>2
<1> QED BY <1>1, <1>2 DEF AllSettled, AllServed

\* What a cancel puts on the wire.
LEMMA EmitSettles ==
  ASSUME TypeOK, NEW o \in Orders, NEW c, c.order \in Order, c.sends \in BOOLEAN,
         NEW orig \in Nat, Emit(o, c, orig), NEW u, NEW s \in Seq(Response),
         Settling(u, req[o], s, ex[o], Book[o], o \in lost, o \in crossed),
         Cancels(u, c.order, c.sends), o \in crossed => o \in crossed',
         u.state = "Modifying" /\ c.order.state # "Modifying" => o \in crossed'
  PROVE  /\ Settled(c.order, req'[o], s, ex[o], Book[o], o \in lost, o \in crossed')
         /\ c.sends => Len(req'[o]) > Len(req[o])
         /\ \A z \in Orders \ {o} : req'[z] = req[z]
<1> DEFINE m == [type |-> "Cxl", id |-> nextId[o], orig |-> orig, price |-> c.order.price]
<1>1. req[o] \in Seq(Request) /\ req \in [Orders -> Seq(Request)]
  BY DEF TypeOK
<1>2. m \in Request /\ m.type = "Cxl"
  BY OrderFields DEF TypeOK, Request, NoId
<1>3. req' = IF c.sends THEN [req EXCEPT ![o] = Append(req[o], m)] ELSE req
  BY DEF Emit, Send
<1> HIDE DEF m
<1>4. req'[o] = IF c.sends THEN Append(req[o], m) ELSE req[o]
  BY <1>1, <1>3
<1>5. Settled(c.order, req'[o], s, ex[o], Book[o], o \in lost, o \in crossed')
  <2> DEFINE q == req[o]
             e == ex[o]
             b == Book[o]
             l == o \in lost
             x == o \in crossed
             y == o \in crossed'
             t == c.order
             sends == c.sends
             z == IF sends THEN Append(q, m) ELSE q
  <2>1. q \in Seq(Request) /\ sends \in BOOLEAN
    BY <1>1
  <2>2. Settling(u, q, s, e, b, l, x) /\ Cancels(u, t, sends)
    OBVIOUS
  <2>3. x => y
    OBVIOUS
  <2>4. u.state = "Modifying" /\ t.state # "Modifying" => y
    OBVIOUS
  <2>5. (sends => z = Append(q, m)) /\ (~sends => z = q)
    OBVIOUS
  <2>6. x \in BOOLEAN /\ y \in BOOLEAN
    OBVIOUS
  <2> HIDE DEF q, e, b, l, x, y, t, sends, z
  <2>7. Settled(t, z, s, e, b, l, y)
    BY <1>2, <2>1, <2>2, <2>3, <2>4, <2>5, <2>6, SettledCancels, ZenonT(40)
  <2> QED BY <1>4, <2>7 DEF q, e, b, l, x, y, t, sends, z
<1>6. c.sends => Len(req'[o]) > Len(req[o])
  BY <1>1, <1>2, <1>4
<1> QED BY <1>1, <1>3, <1>5, <1>6

\* What the cancel chain does to the flag and to the count of refusals.
LEMMA ChainServes ==
  ASSUME NEW r \in Order, NEW outcome \in Outcomes
  PROVE  LET c == CxlChain(r, outcome) IN
         /\ r.cancelOnAck => c.order.cancelOnAck
         /\ \/ c.sends \/ c.order.cancelOnAck
            \/ c.order.cxlRejCounter > r.cxlRejCounter \/ r.cxlRejCounter > MAX_CXL_REJ_COUNTER
<1> DEFINE v == sendCxl(r)
           w == onCxlRej(v.order)
           c == CxlChain(r, outcome)
<1>1. /\ ~v.ok => c = CxlResult(r, FALSE, FALSE)
      /\ v.ok => \/ c = CxlResult(w, FALSE, FALSE) \/ c = CxlResult(w, TRUE, FALSE)
                 \/ v.order.cancelOnAck /\ c = CxlResult(v.order, FALSE, FALSE)
                 \/ ~v.order.cancelOnAck /\ c = CxlResult(v.order, TRUE, TRUE)
  BY DEF CxlChain
<1>2. /\ v.order \in Order /\ v.ok \in BOOLEAN
      /\ r.cxlRejCounter \in Nat /\ MAX_CXL_REJ_COUNTER \in Nat
  BY OutboundType, OrderFields, CountersAssumption
<1>3. /\ ~v.ok => MAX_CXL_REJ_COUNTER < r.cxlRejCounter
      /\ r.cancelOnAck => v.order.cancelOnAck
      /\ v.order.cxlRejCounter = r.cxlRejCounter
  <2>1. \/ v = Verdict(FALSE, r) /\ MAX_CXL_REJ_COUNTER < r.cxlRejCounter
        \/ v = Verdict(TRUE, [r EXCEPT !.state = "Cancelling"])
        \/ v = Verdict(TRUE, [r EXCEPT !.cancelOnAck = TRUE])
    <3>1. CASE MAX_CXL_REJ_COUNTER < r.cxlRejCounter
      <4>1. ~(MAX_CXL_REJ_COUNTER >= r.cxlRejCounter)
        BY <1>2, <3>1
      <4> QED BY <3>1, <4>1 DEF sendCxl
    <3>2. CASE ~(MAX_CXL_REJ_COUNTER < r.cxlRejCounter)
      <4>1. MAX_CXL_REJ_COUNTER >= r.cxlRejCounter
        BY <1>2, <3>2
      <4>2. CASE r.state \in {"Working", "Modifying"}
        BY <3>2, <4>1, <4>2 DEF sendCxl
      <4>3. CASE r.state \notin {"Working", "Modifying"}
        BY <3>2, <4>1, <4>3 DEF sendCxl
      <4> QED BY <4>2, <4>3
    <3> QED BY <3>1, <3>2
  <2> QED BY <2>1 DEF Verdict, Order
<1>4. w = [v.order EXCEPT !.cxlRejCounter = @ + 1,
                          !.state = IF @ = "Cancelling" THEN "Working" ELSE @]
  BY DEF onCxlRej
<1> HIDE DEF v, w
<1>5. w.cancelOnAck = v.order.cancelOnAck /\ w.cxlRejCounter = r.cxlRejCounter + 1
  BY <1>2, <1>3, <1>4 DEF Order
<1> HIDE DEF c
<1>6. CASE ~v.ok
  <2>1. c.order = r
    BY <1>1, <1>6 DEF CxlResult
  <2> QED BY <1>2, <1>3, <1>6, <2>1 DEF c
<1>7. CASE v.ok
  <2>1. \/ c.order = w
        \/ v.order.cancelOnAck /\ c.order = v.order
        \/ ~v.order.cancelOnAck /\ c.order = v.order /\ c.sends = TRUE
    BY <1>1, <1>7 DEF CxlResult
  <2> QED BY <1>2, <1>3, <1>5, <2>1 DEF c
<1> QED BY <1>2, <1>6, <1>7

\* And what checkCancelOnAck does to them.
LEMMA CheckServes ==
  ASSUME NEW u \in Order, NEW outcome \in Outcomes, u.cancelOnAck, u.state # "Cancelling"
  PROVE  LET c == checkCancelOnAck(u, outcome) IN
         \/ c.sends \/ c.order.cancelOnAck
         \/ c.order.cxlRejCounter > u.cxlRejCounter \/ u.cxlRejCounter > MAX_CXL_REJ_COUNTER
<1> DEFINE d == [u EXCEPT !.cancelOnAck = FALSE]
<1>1. d \in Order /\ d.cxlRejCounter = u.cxlRejCounter
  BY DEF Order
<1>2. checkCancelOnAck(u, outcome) = CxlChain(d, outcome)
  BY DEF checkCancelOnAck
<1> HIDE DEF d
<1> QED BY <1>1, <1>2, ChainServes

\* The strategy's steps, when no thread calls sendCxl without the lock.
LEMMA StrategySettles ==
  ASSUME TypeOK, AllSettled, ~Unlocked, cxlWait = {}, MAX_MOD_COUNTER # 0,
         NEW o \in Orders, Strategy(o)
  PROVE  AllSettled' /\ AllServed /\ UNCHANGED <<cxlWait, late>>
<1> DEFINE r == ord[o]
           q == req[o]
           s == resp[o]
           e == ex[o]
           b == Book[o]
           l == o \in lost
           x == o \in crossed
<1>1. /\ ord \in [Orders -> Order] /\ r \in Order
      /\ req \in [Orders -> Seq(Request)] /\ q \in Seq(Request)
      /\ s \in Seq(Response) /\ nextId[o] \in Nat /\ origId[o] \in Nat /\ up \in BOOLEAN
  BY TraceTypes DEF TypeOK
<1>2. Settled(r, q, s, e, b, l, x)
  BY DEF AllSettled
<1>3. CASE SendNew(o)
  <2> DEFINE v == sendNew(r)
             m == [type |-> "New", id |-> nextId[o], orig |-> NoId, price |-> v.order.price]
  <2>1. v.order \in Order
    BY <1>1, OutboundType
  <2>2. m \in Request /\ m.type = "New"
    BY <1>1, <2>1, OrderFields DEF Request, NoId
  <2>3. r.state = "Unknown" /\ UNCHANGED <<resp, ex, cxlWait, lost, crossed, late>>
    BY <1>3 DEF SendNew, history
  <2> HIDE DEF m
  <2>4. /\ ~v.ok => Settled(v.order, q, s, e, b, l, x)
        /\ v.ok => Settled(onNewRej(v.order), q, s, e, b, l, x)
        /\ v.ok => Settled(v.order, Append(q, m), s, e, b, l, x)
    BY <1>1, <1>2, <2>2, <2>3, NewSettles
  <2>5. \/ ~v.ok /\ ord' = [ord EXCEPT ![o] = v.order] /\ req' = req
        \/ v.ok /\ ord' = [ord EXCEPT ![o] = onNewRej(v.order)] /\ req' = req
        \/ v.ok /\ ord' = [ord EXCEPT ![o] = v.order] /\ req' = [req EXCEPT ![o] = Append(q, m)]
    BY <1>3 DEF SendNew, Store, Send, wire, m
  <2> HIDE DEF v
  <2>6. Settled(ord'[o], req'[o], s, e, b, l, x)
    BY <1>1, <2>4, <2>5
  <2>7. Served(o)
    BY <1>2, <2>3 DEF Served, Settled, Delayed, Dead
  <2>8. AsideSettled(o)
    <3>1. \A z \in Orders \ {o} : ord'[z] = ord[z] /\ req'[z] = req[z]
      BY <1>1, <2>5
    <3> QED BY <2>3, <3>1 DEF AsideSettled
  <2> QED BY <2>3, <2>6, <2>7, <2>8, OneSettled
<1>4. ASSUME NEW p \in Prices, SendMod(o, p)
      PROVE  AllSettled' /\ AllServed /\ UNCHANGED <<cxlWait, late>>
  <2> DEFINE n == [r EXCEPT !.newPrice = p]
             v == sendMod(n)
             w == onModRej(v.order)
             m == [type |-> "Mod", id |-> nextId[o], orig |-> origId[o], price |-> p]
  <2>1. m \in Request /\ m.type = "Mod"
    BY <1>1 DEF Request
  <2>2. UNCHANGED <<resp, ex, cxlWait, lost, crossed, late>>
    BY <1>4 DEF SendMod, history
  <2>3. n \in Order /\ n.cancelOnAck = r.cancelOnAck
    BY <1>1 DEF Order
  <2> HIDE DEF m
  <2>4. /\ ~v.ok => Settled(onModRejPost(w, TRUE), q, s, e, b, l, x)
        /\ v.ok => Settled(onModRejPost(w, FALSE), q, s, e, b, l, x)
        /\ v.ok => Settled(v.order, Append(q, m), s, e, b, l, x)
    BY <1>1, <1>2, <2>1, ModSettles
  <2>5. \/ ~v.ok /\ ord' = [ord EXCEPT ![o] = onModRejPost(w, TRUE)] /\ req' = req
        \/ v.ok /\ ord' = [ord EXCEPT ![o] = onModRejPost(w, FALSE)] /\ req' = req
        \/ v.ok /\ ord' = [ord EXCEPT ![o] = v.order] /\ req' = [req EXCEPT ![o] = Append(q, m)]
    BY <1>4 DEF SendMod, Store, Send, m
  <2>6. v.order \in Order /\ v.order.cancelOnAck = r.cancelOnAck
    <3> HIDE DEF n
    <3>1. v.order \in Order
      BY <2>3, OutboundType
    <3>2. \/ v.order = n \/ v.order = [n EXCEPT !.state = "Modifying"]
          \/ v.order = [n EXCEPT !.state = "Modifying", !.modCounter = @ + 1]
      <4>1. \/ v = Verdict(FALSE, n) \/ v = Verdict(FALSE, [n EXCEPT !.state = "Modifying"])
            \/ v = Verdict(TRUE, [n EXCEPT !.state = "Modifying", !.modCounter = @ + 1])
        <5>1. CASE \/ n.newPrice \in {InvalidPrice, n.price}
                   \/ MAX_MOD_REJ_COUNTER < n.modRejCounter
                   \/ n.state \notin {"Working", "Modifying"}
          BY <5>1 DEF sendMod
        <5>2. CASE ~(\/ n.newPrice \in {InvalidPrice, n.price}
                     \/ MAX_MOD_REJ_COUNTER < n.modRejCounter
                     \/ n.state \notin {"Working", "Modifying"})
          BY <2>3, <5>2 DEF sendMod, Order
        <5> QED BY <5>1, <5>2
      <4> HIDE DEF v
      <4> QED BY <4>1 DEF Verdict
    <3> HIDE DEF v
    <3> QED BY <2>3, <3>1, <3>2 DEF Order
  <2> HIDE DEF v, n
  <2>7. w \in Order /\ w.cancelOnAck = r.cancelOnAck
    <3>1. w \in Order
      BY <2>6, InboundType
    <3> QED BY <2>6, <3>1 DEF onModRej, Order
  <2> HIDE DEF w
  <2>8. /\ onModRejPost(w, TRUE).cancelOnAck = r.cancelOnAck
        /\ onModRejPost(w, FALSE).cancelOnAck = r.cancelOnAck
    BY <2>7 DEF onModRejPost, doOnModPost, Order
  <2>9. Settled(ord'[o], req'[o], s, e, b, l, x)
    BY <1>1, <2>4, <2>5
  <2>10. Served(o)
    <3>1. ord'[o].cancelOnAck = r.cancelOnAck
      BY <1>1, <2>5, <2>6, <2>8
    <3> QED BY <3>1 DEF Served
  <2>11. AsideSettled(o)
    <3>1. \A z \in Orders \ {o} : ord'[z] = ord[z] /\ req'[z] = req[z]
      BY <1>1, <2>5
    <3> QED BY <2>2, <3>1 DEF AsideSettled
  <2> QED BY <2>2, <2>9, <2>10, <2>11, OneSettled
<1>5. CASE SendCxl(o)
  <2>1. PICK outcome \in Outcomes :
          /\ Store(o, CxlChain(r, outcome).order)
          /\ Emit(o, CxlChain(r, outcome), origId[o])
          /\ Crosses(o, r, CxlChain(r, outcome).order)
    BY <1>5 DEF SendCxl, CxlLocked
  <2>2. CxlChain(r, outcome).order \in Order
    BY <1>1, ChainType
  <2>3. r.state \notin {"Unknown", "Cancelling"} /\ UNCHANGED <<resp, ex, cxlWait, lost, late>>
    BY <1>5 DEF SendCxl, MayCxl, CxlLocked
  <2>4. /\ Cancels(r, CxlChain(r, outcome).order, CxlChain(r, outcome).sends)
        /\ CxlChain(r, outcome).sends \in BOOLEAN
    BY <1>1, <1>2, <2>3, ChainCancels DEF Settled
  <2>5. r.cancelOnAck => CxlChain(r, outcome).order.cancelOnAck
    BY <1>1, ChainServes
  <2>6. PICK c : /\ c.order \in Order /\ c.sends \in BOOLEAN /\ Cancels(r, c.order, c.sends)
                 /\ r.cancelOnAck => c.order.cancelOnAck
                 /\ ord' = [ord EXCEPT ![o] = c.order]
                 /\ Emit(o, c, origId[o]) /\ Crosses(o, r, c.order)
    BY <2>1, <2>2, <2>4, <2>5 DEF Store
  <2>7. Settling(r, q, s, e, b, l, x)
    BY <1>2 DEF Settled
  <2>8. /\ x => o \in crossed'
        /\ r.state = "Modifying" /\ c.order.state # "Modifying" => o \in crossed'
        /\ \A z \in Orders \ {o} : z \in crossed' <=> z \in crossed
    BY <2>6 DEF Crosses
  <2>9. /\ Settled(c.order, req'[o], s, e, b, l, o \in crossed')
        /\ \A z \in Orders \ {o} : req'[z] = req[z]
    BY <1>1, <2>6, <2>7, <2>8, EmitSettles
  <2>10. ord'[o] = c.order /\ \A z \in Orders \ {o} : ord'[z] = ord[z]
    BY <1>1, <2>6
  <2>11. Settled(ord'[o], req'[o], resp'[o], ex'[o], Book[o], o \in lost', o \in crossed')
    BY <2>3, <2>9, <2>10
  <2>12. Served(o)
    BY <2>6, <2>10 DEF Served
  <2>13. AsideSettled(o)
    BY <2>3, <2>8, <2>9, <2>10 DEF AsideSettled
  <2> QED BY <2>3, <2>11, <2>12, <2>13, OneSettled
<1>6. ~ReadCxlState(o) /\ ~SendCxlUnlocked(o)
  BY DEF ReadCxlState, SendCxlUnlocked
<1> QED BY <1>3, <1>4, <1>5, <1>6 DEF Strategy

\* The session thread's steps inside the container, when no client cancels from its
\* onNewAck callback.
LEMMA InboundSettles ==
  ASSUME TypeOK, PickedThere, AllSound, AllTraced, AllSettled, ~Reentrant,
         NEW o \in Orders, Inbound(o)
  PROVE  AllSettled' /\ AllServed /\ UNCHANGED <<cxlWait, late>>
<1> DEFINE r == ord[o]
           q == req[o]
           m == Head(resp[o])
           s == Tail(resp[o])
           e == ex[o]
           b == Book[o]
           l == o \in lost
           x == o \in crossed
<1>1. /\ ord \in [Orders -> Order] /\ r \in Order
      /\ req \in [Orders -> Seq(Request)] /\ q \in Seq(Request)
      /\ resp \in [Orders -> Seq(Response)] /\ resp[o] \in Seq(Response)
      /\ origId[o] \in Nat /\ up \in BOOLEAN
  BY TraceTypes DEF TypeOK
<1>2. /\ Settled(r, q, resp[o], e, b, l, x) /\ Sound(r, q, resp[o], e, b)
      /\ FillsChain(r, resp[o], e)
  BY DEF AllSettled, AllSound, AllTraced, Traced
<1>3. /\ resp[o] # <<>> /\ UNCHANGED <<ex, cxlWait, lost>>
      /\ resp' = [resp EXCEPT ![o] = Tail(@)]
  <2>1. \E type : Take(o, type)
    BY DEF Inbound, OnNewAck, OnNewAckReentrant, OnNewRej, OnModAck, OnModRej,
           OnCxlAck, OnCxlRej, OnFill, OnBust
  <2> QED BY <1>1, <2>1 DEF Take, PickedThere
<1>4. /\ s \in Seq(Response) /\ m \in Response /\ 1 \in DOMAIN resp[o] /\ m = resp[o][1]
      /\ resp'[o] = s /\ \A z \in Orders \ {o} : resp'[z] = resp[z]
  BY <1>1, <1>3
<1>5. m.id \in Nat /\ m.price \in Prices \cup {InvalidPrice} /\ m.qty \in Nat
  BY <1>4 DEF Response
\* Answers that the cancel chain follows, if a cancel was kept back.
<1>6. ASSUME NEW u \in Order, NEW outcome \in Outcomes, NEW g \in Nat,
             Settling(u, q, s, e, b, l, x),
             u.cancelOnAck => u.state \in Dead \cup {"Pending", "Working"},
             u.cancelOnAck = r.cancelOnAck, u.cxlRejCounter = r.cxlRejCounter,
             Store(o, checkCancelOnAck(u, outcome).order),
             Emit(o, checkCancelOnAck(u, outcome), g),
             o \in crossed => o \in crossed',
             \A z \in Orders \ {o} : z \in crossed' <=> z \in crossed, late' = late
      PROVE  AllSettled' /\ AllServed /\ UNCHANGED <<cxlWait, late>>
  <2>1. /\ Cancels(u, checkCancelOnAck(u, outcome).order, checkCancelOnAck(u, outcome).sends)
        /\ checkCancelOnAck(u, outcome).sends \in BOOLEAN
        /\ u.state = "Modifying" => checkCancelOnAck(u, outcome).order = u
    BY <1>1, <1>6, CheckCancels
  <2>2. checkCancelOnAck(u, outcome).order \in Order
    BY <1>6, ChainType
  <2>3. u.cancelOnAck =>
          \/ checkCancelOnAck(u, outcome).sends \/ checkCancelOnAck(u, outcome).order.cancelOnAck
          \/ checkCancelOnAck(u, outcome).order.cxlRejCounter > u.cxlRejCounter
          \/ u.cxlRejCounter > MAX_CXL_REJ_COUNTER
    BY <1>6, CheckServes DEF Dead
  <2>4. PICK c : /\ c.order \in Order /\ c.sends \in BOOLEAN /\ Cancels(u, c.order, c.sends)
                 /\ u.state = "Modifying" => c.order = u
                 /\ u.cancelOnAck => \/ c.sends \/ c.order.cancelOnAck
                                     \/ c.order.cxlRejCounter > u.cxlRejCounter
                                     \/ u.cxlRejCounter > MAX_CXL_REJ_COUNTER
                 /\ ord' = [ord EXCEPT ![o] = c.order] /\ Emit(o, c, g)
    BY <1>6, <2>1, <2>2, <2>3 DEF Store
  <2>5. u.state = "Modifying" /\ c.order.state # "Modifying" => o \in crossed'
    BY <2>4
  <2>6. /\ Settled(c.order, req'[o], s, e, b, l, o \in crossed')
        /\ c.sends => Len(req'[o]) > Len(q)
        /\ \A z \in Orders \ {o} : req'[z] = req[z]
    BY <1>4, <1>6, <2>4, <2>5, EmitSettles
  <2>7. ord'[o] = c.order /\ \A z \in Orders \ {o} : ord'[z] = ord[z]
    BY <1>1, <2>4
  <2>8. Settled(ord'[o], req'[o], resp'[o], ex'[o], Book[o], o \in lost', o \in crossed')
    BY <1>3, <1>4, <2>6, <2>7
  <2>9. Served(o)
    BY <1>6, <2>4, <2>6, <2>7 DEF Served
  <2>10. AsideSettled(o)
    BY <1>3, <1>4, <1>6, <2>6, <2>7 DEF AsideSettled
  <2> QED BY <1>3, <1>6, <2>8, <2>9, <2>10, OneSettled
\* Answers that it does not follow.
<1>7. ASSUME NEW u \in Order, Store(o, u), UNCHANGED <<wire, crossed, late>>,
             \/ m.type = "NewRej" /\ u = onNewRej(r)
             \/ m.type = "CxlAck" /\ u = onCxlAck(r)
             \/ m.type = "CxlRej" /\ u = onCxlRej(r)
             \/ m.type \in Fills /\ u = onFill(r, m.qty)
      PROVE  AllSettled' /\ AllServed /\ UNCHANGED <<cxlWait, late>>
  <2>1. r.qty = b.qty
    BY <1>2 DEF Sound, BooksSound
  <2>2. m.type = "Fill" => m.cum = r.cumQty + m.qty
    <3> SUFFICES ASSUME m.type = "Fill" PROVE m.cum = r.cumQty + m.qty
      OBVIOUS
    <3>1. \A j \in DOMAIN resp[o] : ~(j < 1)
      BY <1>1
    <3>2. resp[o][1].type \in Fills
      BY <1>4 DEF Fills
    <3>3. r.filled = r.cumQty /\ resp[o][1].cum = r.filled + resp[o][1].qty
      BY <1>2, <1>4, <3>1, <3>2 DEF FillsChain
    <3> QED BY <1>4, <3>3
  <2>3. Settled(u, q, s, e, b, l, x)
    BY <1>1, <1>2, <1>3, <1>7, <2>1, <2>2, OtherAnswerSettles
  <2>4. u.cancelOnAck = r.cancelOnAck
    BY <1>1, <1>5, <1>7, ZenonT(40) DEF onNewRej, onCxlAck, onCxlRej, onFill, remove, changePosCounts, Order
  <2>5. /\ ord' = [ord EXCEPT ![o] = u] /\ UNCHANGED <<req, crossed, late>>
    BY <1>7 DEF Store, wire
  <2>6. ord'[o] = u /\ \A z \in Orders \ {o} : ord'[z] = ord[z]
    BY <1>1, <2>5
  <2>7. Settled(ord'[o], req'[o], resp'[o], ex'[o], Book[o], o \in lost', o \in crossed')
    BY <1>3, <1>4, <2>3, <2>5, <2>6
  <2>8. Served(o)
    BY <2>4, <2>6 DEF Served
  <2>9. AsideSettled(o)
    BY <1>3, <1>4, <2>5, <2>6 DEF AsideSettled
  <2> QED BY <1>3, <2>5, <2>7, <2>8, <2>9, OneSettled
<1>8. CASE OnNewAck(o)
  <2>1. PICK outcome \in Outcomes :
          /\ Store(o, checkCancelOnAck(onNewAck(r), outcome).order)
          /\ Emit(o, checkCancelOnAck(onNewAck(r), outcome), origId[o])
    BY <1>8 DEF OnNewAck
  <2>2. m.type = "NewAck" /\ UNCHANGED <<crossed, late>>
    BY <1>8 DEF OnNewAck, Take
  <2>3. onNewAck(r) \in Order
    BY <1>1, InboundType
  <2>4. /\ Settling(onNewAck(r), q, s, e, b, l, x)
        /\ onNewAck(r).cancelOnAck => onNewAck(r).state \in Dead \cup {"Working"}
    BY <1>1, <1>2, <1>3, <2>2, NewAckSettles
  <2>5. /\ onNewAck(r).cancelOnAck = r.cancelOnAck
        /\ onNewAck(r).cxlRejCounter = r.cxlRejCounter
    BY <1>1 DEF onNewAck, Order
  <2> QED BY <1>1, <1>6, <2>1, <2>2, <2>3, <2>4, <2>5
<1>9. CASE OnModAck(o)
  <2> DEFINE n == [r EXCEPT !.newPrice = m.price]
             u == onModAckPost(onModAck(n))
  <2>1. PICK outcome \in Outcomes :
          /\ Store(o, checkCancelOnAck(u, outcome).order)
          /\ Emit(o, checkCancelOnAck(u, outcome), m.id)
          /\ Crosses(o, u, checkCancelOnAck(u, outcome).order)
    BY <1>9 DEF OnModAck
  <2>2. m.type = "ModAck" /\ late' = late
    BY <1>9 DEF OnModAck, Take
  <2>3. n \in Order /\ n.cancelOnAck = r.cancelOnAck /\ n.cxlRejCounter = r.cxlRejCounter
    BY <1>1, <1>5 DEF Order
  <2>4. Settling(u, q, s, e, b, l, x) /\ (u.cancelOnAck => u.state \in Dead \cup {"Pending"})
    BY <1>1, <1>2, <1>3, <2>2, ModAnswerSettles DEF ModAnswers
  <2> HIDE DEF n
  <2>5. u \in Order /\ u.cancelOnAck = r.cancelOnAck /\ u.cxlRejCounter = r.cxlRejCounter
    <3>1. onModAck(n) \in Order
      BY <2>3, InboundType
    <3>2. /\ onModAck(n).cancelOnAck = r.cancelOnAck /\ onModAck(n).cxlRejCounter = r.cxlRejCounter
      BY <2>3 DEF onModAck, Order
    <3>3. u \in Order
      BY <3>1, InboundType
    <3> QED BY <3>1, <3>2, <3>3 DEF onModAckPost, doOnModPost, Order
  <2> HIDE DEF u
  <2>6. /\ o \in crossed => o \in crossed'
        /\ \A z \in Orders \ {o} : z \in crossed' <=> z \in crossed
    BY <2>1 DEF Crosses
  <2> QED BY <1>5, <1>6, <2>1, <2>2, <2>4, <2>5, <2>6
<1>10. CASE OnModRej(o)
  <2> DEFINE u == onModRejPost(onModRej(r), FALSE)
  <2>1. PICK outcome \in Outcomes :
          /\ Store(o, checkCancelOnAck(u, outcome).order)
          /\ Emit(o, checkCancelOnAck(u, outcome), origId[o])
          /\ Crosses(o, u, checkCancelOnAck(u, outcome).order)
    BY <1>10 DEF OnModRej
  <2>2. m.type = "ModRej" /\ late' = late
    BY <1>10 DEF OnModRej, Take
  <2>3. Settling(u, q, s, e, b, l, x) /\ (u.cancelOnAck => u.state \in Dead \cup {"Pending"})
    BY <1>1, <1>2, <1>3, <2>2, ModAnswerSettles DEF ModAnswers
  <2>4. u \in Order /\ u.cancelOnAck = r.cancelOnAck /\ u.cxlRejCounter = r.cxlRejCounter
    <3>1. onModRej(r) \in Order
      BY <1>1, InboundType
    <3>2. /\ onModRej(r).cancelOnAck = r.cancelOnAck /\ onModRej(r).cxlRejCounter = r.cxlRejCounter
      BY <1>1 DEF onModRej, Order
    <3>3. u \in Order
      BY <3>1, InboundType
    <3> QED BY <3>1, <3>2, <3>3 DEF onModRejPost, doOnModPost, Order
  <2> HIDE DEF u
  <2>5. /\ o \in crossed => o \in crossed'
        /\ \A z \in Orders \ {o} : z \in crossed' <=> z \in crossed
    BY <2>1 DEF Crosses
  <2> QED BY <1>1, <1>6, <2>1, <2>2, <2>3, <2>4, <2>5
<1>11. CASE OnNewRej(o) \/ OnCxlAck(o) \/ OnCxlRej(o) \/ OnFill(o)
  <2>1. /\ onNewRej(r) \in Order /\ onCxlAck(r) \in Order /\ onCxlRej(r) \in Order
        /\ onFill(r, m.qty) \in Order
    BY <1>1, <1>5, InboundType, FillType
  <2>2. CASE OnNewRej(o)
    BY <1>7, <2>1, <2>2 DEF OnNewRej, Take
  <2>3. CASE OnCxlAck(o)
    BY <1>7, <2>1, <2>3 DEF OnCxlAck, Take
  <2>4. CASE OnCxlRej(o)
    BY <1>7, <2>1, <2>4 DEF OnCxlRej, Take
  <2>5. CASE OnFill(o)
    BY <1>7, <2>1, <2>5 DEF OnFill, Take, Fills
  <2> QED BY <1>11, <2>2, <2>3, <2>4, <2>5
<1>12. ~OnBust(o)
  <2>1. OnBust(o) => m.type = "TradeBreak"
    BY DEF OnBust, Take
  <2> QED BY <1>2, <1>4, <2>1 DEF Sound
<1>13. ~OnNewAckReentrant(o)
  BY DEF OnNewAckReentrant
<1> QED BY <1>8, <1>9, <1>10, <1>11, <1>12, <1>13 DEF Inbound

\* The session thread looks a response up.
LEMMA ReceiveSettles ==
  ASSUME TypeOK, AllSound, AllTraced, AllSettled, NEW o \in Orders, Receive(o)
  PROVE  AllSettled' /\ AllServed /\ UNCHANGED <<cxlWait, late>>
<1>1. UNCHANGED resp
  BY ReceiveTraced
<1>2. UNCHANGED <<ord, req, ex, lost, crossed, late, cxlWait>>
  BY DEF Receive, history
<1> QED BY <1>1, <1>2 DEF AllSettled, AllServed, Served

\* The exchange's steps, until it busts a trade.
LEMMA ExchangeSettles ==
  ASSUME TypeOK, AllSettled, NEW o \in Orders, Exchange(o), ~ExBreak(o)
  PROVE  AllSettled' /\ AllServed /\ UNCHANGED <<cxlWait, late>>
<1> DEFINE r == ord[o]
           q == req[o]
           s == resp[o]
           e == ex[o]
           m == Head(req[o])
           l == o \in lost
           x == o \in crossed
<1>1. /\ req \in [Orders -> Seq(Request)] /\ q \in Seq(Request)
      /\ resp \in [Orders -> Seq(Response)] /\ s \in Seq(Response)
      /\ ex \in [Orders -> Exchanges] /\ e \in Exchanges
      /\ Book[o].qty \in Nat
  BY TraceTypes, FlowAssumption
<1>2. Settled(r, q, s, e, Book[o], l, x)
  BY DEF AllSettled
<1>3. UNCHANGED <<ord, lost, crossed, late, cxlWait>>
  BY DEF Exchange, ExNew, ExMod, ExCxl, ExFill, ExExpire, Handle, history
<1>4. ASSUME Settled(r, req'[o], resp'[o], ex'[o], Book[o], l, x),
             \A z \in Orders \ {o} : req'[z] = req[z] /\ resp'[z] = resp[z] /\ ex'[z] = ex[z]
      PROVE  AllSettled' /\ AllServed /\ UNCHANGED <<cxlWait, late>>
  <2>1. AsideSettled(o) /\ Served(o)
    BY <1>3, <1>4 DEF AsideSettled, Served
  <2>2. Settled(ord'[o], req'[o], resp'[o], ex'[o], Book[o], o \in lost', o \in crossed')
    BY <1>3, <1>4
  <2> QED BY <1>3, <2>1, <2>2, OneSettled
<1>5. ASSUME NEW a \in Response, q # <<>>, req' = [req EXCEPT ![o] = Tail(@)], Reply(o, a),
             ex' = [ex EXCEPT ![o] = ex'[o]],
             \/ m.type = "New" /\ a.type \in NewAnswers
             \/ m.type = "Mod" /\ a.type \in ModAnswers
             \/ m.type = "Cxl" /\ a.type \in {"CxlAck", "CxlRej"},
             ex'[o].price = IF a.type = "ModAck" THEN a.price ELSE e.price
      PROVE  AllSettled' /\ AllServed /\ UNCHANGED <<cxlWait, late>>
  <2>1. /\ req'[o] = Tail(q) /\ resp'[o] = Append(s, a)
        /\ \A z \in Orders \ {o} : req'[z] = req[z] /\ resp'[z] = resp[z] /\ ex'[z] = ex[z]
    BY <1>1, <1>5 DEF Reply
  <2>2. PICK f : f = ex'[o]
    OBVIOUS
  <2>3. Settled(r, Tail(q), Append(s, a), f, Book[o], l, x)
    BY <1>1, <1>2, <1>5, <2>2, SettledAnswered
  <2> QED BY <1>4, <2>1, <2>2, <2>3
<1>6. ASSUME NEW type \in RespTypes, NEW y \in Request
      PROVE  /\ Answer(type, y) \in Response /\ Answer(type, y).type = type
             /\ Answer(type, y).price = y.price
  BY <1>6 DEF Answer, Request, Response
<1>7. ASSUME NEW type, Handle(o, type)
      PROVE  /\ q # <<>> /\ m \in Request /\ m.type = type
             /\ req' = [req EXCEPT ![o] = Tail(@)]
  BY <1>1, <1>7 DEF Handle
<1>8. CASE ExNew(o)
  <2>1. /\ q # <<>> /\ m \in Request /\ m.type = "New" /\ req' = [req EXCEPT ![o] = Tail(@)]
    BY <1>7, <1>8 DEF ExNew
  <2>2. PICK type \in {"NewAck", "NewRej"} :
          /\ Reply(o, Answer(type, m))
          /\ ex' = [ex EXCEPT ![o] = ex'[o]] /\ ex'[o].price = e.price
    BY <1>1, <1>8 DEF ExNew, Exchanges
  <2>3. type \in RespTypes /\ type \in NewAnswers /\ type # "ModAck"
    BY DEF RespTypes, NewAnswers
  <2>4. Answer(type, m) \in Response /\ Answer(type, m).type = type
    BY <1>6, <2>1, <2>3
  <2> QED BY <1>5, <2>1, <2>2, <2>3, <2>4
<1>9. CASE ExMod(o)
  <2>1. /\ q # <<>> /\ m \in Request /\ m.type = "Mod" /\ req' = [req EXCEPT ![o] = Tail(@)]
    BY <1>7, <1>9 DEF ExMod
  <2>2. PICK type \in {"ModAck", "ModRej"} :
          /\ Reply(o, Answer(type, m))
          /\ ex' = [ex EXCEPT ![o] = ex'[o]]
          /\ ex'[o].price = IF type = "ModAck" THEN m.price ELSE e.price
    BY <1>1, <1>9 DEF ExMod, Exchanges
  <2>3. type \in RespTypes /\ type \in ModAnswers
    BY DEF RespTypes, ModAnswers
  <2>4. /\ Answer(type, m) \in Response /\ Answer(type, m).type = type
        /\ Answer(type, m).price = m.price
    BY <1>6, <2>1, <2>3
  <2> QED BY <1>5, <2>1, <2>2, <2>3, <2>4
<1>10. CASE ExCxl(o)
  <2>1. /\ q # <<>> /\ m \in Request /\ m.type = "Cxl" /\ req' = [req EXCEPT ![o] = Tail(@)]
    BY <1>7, <1>10 DEF ExCxl
  <2>2. PICK type \in {"CxlAck", "CxlRej"} :
          /\ Reply(o, Answer(type, m))
          /\ ex' = [ex EXCEPT ![o] = ex'[o]] /\ ex'[o].price = e.price
    BY <1>1, <1>10 DEF ExCxl, Exchanges
  <2>3. type \in RespTypes /\ type # "ModAck"
    BY DEF RespTypes
  <2>4. Answer(type, m) \in Response /\ Answer(type, m).type = type
    BY <1>6, <2>1, <2>3
  <2> QED BY <1>5, <2>1, <2>2, <2>3, <2>4
<1>11. ASSUME NEW a \in Response, Reply(o, a), UNCHANGED req, ex' = [ex EXCEPT ![o] = ex'[o]],
              a.type \in Closing, a.type = "Fill" => a.cum = Book[o].qty, ex'[o].price = e.price
       PROVE  AllSettled' /\ AllServed /\ UNCHANGED <<cxlWait, late>>
  <2>1. /\ req'[o] = q /\ resp'[o] = Append(s, a)
        /\ \A z \in Orders \ {o} : req'[z] = req[z] /\ resp'[z] = resp[z] /\ ex'[z] = ex[z]
    BY <1>1, <1>11 DEF Reply
  <2>2. PICK f : f = ex'[o]
    OBVIOUS
  <2>3. Settled(r, q, Append(s, a), f, Book[o], l, x)
    BY <1>1, <1>2, <1>11, <2>2, SettledReported
  <2> QED BY <1>4, <2>1, <2>2, <2>3
<1>12. ASSUME NEW type \in RespTypes, NEW y \in Nat, NEW z \in Nat
       PROVE  /\ Report(type, o, y, z) \in Response
              /\ Report(type, o, y, z).type = type /\ Report(type, o, y, z).cum = z
  <2>1. e.id \in Nat /\ e.price \in Prices \cup {InvalidPrice}
    BY <1>1 DEF Exchanges
  <2> QED BY <1>12, <2>1 DEF Report, Response, NoId
<1>13. CASE ExFill(o)
  <2>1. PICK k \in 1 .. (Book[o].qty - e.cum) :
          /\ ex' = [ex EXCEPT ![o].cum = @ + k,
                        ![o].status = IF e.cum + k = Book[o].qty THEN "Closed" ELSE @]
          /\ Reply(o, Report(IF e.cum + k = Book[o].qty THEN "Fill" ELSE "PartFill",
                             o, k, e.cum + k))
    BY <1>13 DEF ExFill
  <2>2. UNCHANGED req
    BY <1>13 DEF ExFill, wire
  <2>3. k \in Nat /\ e.cum + k \in Nat
    <3>1. e.cum \in Nat
      BY <1>1 DEF Exchanges
    <3> QED BY <1>1, <2>1, <3>1
  <2>4. ex' = [ex EXCEPT ![o] = ex'[o]] /\ ex'[o].price = e.price
    BY <1>1, <2>1 DEF Exchanges
  <2>5. PICK type \in {"Fill", "PartFill"} : type = IF e.cum + k = Book[o].qty THEN "Fill" ELSE "PartFill"
    OBVIOUS
  <2>6. type \in RespTypes /\ type \in Closing
    BY DEF RespTypes, Closing, Fills
  <2>7. /\ Report(type, o, k, e.cum + k) \in Response /\ Report(type, o, k, e.cum + k).type = type
        /\ Report(type, o, k, e.cum + k).cum = e.cum + k
    BY <1>12, <2>3, <2>6
  <2>8. Reply(o, Report(type, o, k, e.cum + k))
    BY <2>1, <2>5
  <2> QED BY <1>11, <2>2, <2>4, <2>5, <2>6, <2>7, <2>8
<1>14. CASE ExExpire(o)
  <2>1. /\ ex' = [ex EXCEPT ![o].status = "Closed"] /\ Reply(o, Report("CxlAck", o, 0, e.cum))
        /\ UNCHANGED req
    BY <1>14 DEF ExExpire, wire
  <2>2. ex' = [ex EXCEPT ![o] = ex'[o]] /\ ex'[o].price = e.price
    BY <1>1, <2>1 DEF Exchanges
  <2>3. Report("CxlAck", o, 0, e.cum) \in Response /\ Report("CxlAck", o, 0, e.cum).type = "CxlAck"
    <3>1. "CxlAck" \in RespTypes /\ e.cum \in Nat
      BY <1>1 DEF RespTypes, Exchanges
    <3> QED BY <1>12, <3>1
  <2> QED BY <1>11, <2>1, <2>2, <2>3 DEF Closing
<1> QED BY <1>8, <1>9, <1>10, <1>13, <1>14 DEF Exchange

\* A session that is down loses a request.
LEMMA LoseSettles ==
  ASSUME TypeOK, AllSettled, NEW o \in Orders, LoseRequest(o)
  PROVE  AllSettled' /\ AllServed /\ UNCHANGED <<cxlWait, late>>
<1>1. req \in [Orders -> Seq(Request)] /\ req[o] \in Seq(Request)
  BY TraceTypes
<1>2. Settled(ord[o], req[o], resp[o], ex[o], Book[o], o \in lost, o \in crossed)
  BY DEF AllSettled
<1>3. /\ req[o] # <<>> /\ Head(req[o]).type # "Cxl" /\ req' = [req EXCEPT ![o] = Tail(@)]
      /\ lost' = lost \cup {o} /\ UNCHANGED <<ord, resp, ex, crossed, late, cxlWait>>
  BY DEF LoseRequest
<1>4. Settled(ord[o], Tail(req[o]), resp[o], ex[o], Book[o], TRUE, o \in crossed)
  BY <1>1, <1>2, <1>3, SettledLost
<1>5. req'[o] = Tail(req[o]) /\ \A z \in Orders \ {o} : req'[z] = req[z]
  BY <1>1, <1>3
<1>6. (o \in lost') = TRUE
  BY <1>3
<1>7. Settled(ord'[o], req'[o], resp'[o], ex'[o], Book[o], o \in lost', o \in crossed')
  BY <1>3, <1>4, <1>5, <1>6
<1>8. AsideSettled(o) /\ Served(o)
  BY <1>3, <1>5 DEF AsideSettled, Served
<1> QED BY <1>3, <1>7, <1>8, OneSettled

\* Only a thread that reads an order's state before it has the lock waits for it.
LEMMA CxlWaitKept ==
  ASSUME ~Unlocked, cxlWait = {}, [Next]_vars
  PROVE  cxlWait' = {}
<1>1. ASSUME NEW o \in Orders, Strategy(o)
      PROVE  cxlWait' = cxlWait
  BY <1>1 DEF Strategy, SendNew, SendMod, SendCxl, ReadCxlState, SendCxlUnlocked
<1>2. ASSUME NEW o \in Orders, Receive(o) \/ Inbound(o) \/ LoseRequest(o)
      PROVE  cxlWait' = cxlWait
  BY <1>2 DEF Receive, LoseRequest, Inbound, OnNewAck, OnNewAckReentrant, OnNewRej,
              OnModAck, OnModRej, OnCxlAck, OnCxlRej, OnFill, OnBust, Take
<1>3. ASSUME NEW o \in Orders, Exchange(o)
      PROVE  cxlWait' = cxlWait
  BY <1>3 DEF Exchange, ExNew, ExMod, ExCxl, ExFill, ExExpire, ExBreak, Handle
<1>4. CASE SessionDown \/ SessionUp \/ UNCHANGED vars
  BY <1>4 DEF SessionDown, SessionUp, vars
<1> QED BY <1>1, <1>2, <1>3, <1>4 DEF Next

\* Any step, until the exchange busts a trade.
LEMMA NextSettles ==
  ASSUME TypeOK, PickedThere, breaks' = 0, AllSound, AllTraced, AllSettled,
         ~Reentrant, ~Unlocked, MAX_MOD_COUNTER # 0, cxlWait = {}, [Next]_vars
  PROVE  AllSettled' /\ AllServed /\ UNCHANGED <<cxlWait, late>>
<1>1. ASSUME NEW o \in Orders, Exchange(o)
      PROVE  AllSettled' /\ AllServed /\ UNCHANGED <<cxlWait, late>>
  <2>1. ExBreak(o) => breaks' # 0
    BY DEF ExBreak, TypeOK
  <2> QED BY <1>1, <2>1, ExchangeSettles
<1>2. CASE SessionDown \/ SessionUp \/ UNCHANGED vars
  <2>1. UNCHANGED <<ord, req, resp, ex, lost, crossed, late, cxlWait>>
    BY <1>2 DEF SessionDown, SessionUp, vars, wire, history
  <2> QED BY <2>1 DEF AllSettled, AllServed, Served
<1> QED BY <1>1, <1>2, StrategySettles, ReceiveSettles, InboundSettles, LoseSettles
        DEF Next

\* A process that has just started owes no order anything.
LEMMA InitSettled ==
  ASSUME Init
  PROVE  AllSettled
<1> SUFFICES ASSUME NEW o \in Orders
             PROVE  Settled(ord[o], req[o], resp[o], ex[o], Book[o],
                            o \in lost, o \in crossed)
  BY DEF AllSettled
<1>1. DOMAIN req[o] = {} /\ DOMAIN resp[o] = {}
  BY DEF Init
<1>2. /\ ord[o].state = "Unknown" /\ ord[o].modCounter = 0 /\ ord[o].cancelOnAck = FALSE
      /\ ord[o].price = ex[o].price
  BY DEF Init, createOrder
<1>3. At(req[o], {"Mod"}) = {} /\ At(resp[o], ModAnswers) = {}
  BY <1>1 DEF At
<1>4. Mods(req[o], resp[o]) = 0
  BY <1>3, FS_EmptySet DEF Mods
<1>5. ModsExact(ord[o], req[o], resp[o]) /\ PriceChain(ord[o], resp[o], ex[o])
  BY <1>1, <1>2, <1>4 DEF ModsExact, PriceChain
<1> QED BY <1>1, <1>2, <1>5 DEF Settled, Settling, Owed, LastFill, Followed, Delayed

--------------------------------------------------------------------------------
(***************************************************************************)
(* What an order is owed, as theorems                                      *)
(***************************************************************************)

\* Until a trade is busted every order is settling, and no bust has come late.
SettlesHold == breaks = 0 => AllSettled /\ late = {}

\* With the rest, and no thread between reading an order's state and the lock.
SettleInv == FlowInv /\ TracesHold /\ SettlesHold /\ cxlWait = {}

\* It is inductive where nothing reenters the session thread's callback, cancels are
\* sent under the lock, and the risk check lets an order be modified at all.
LEMMA SettleStep ==
  ASSUME SettleInv, ~Reentrant, ~Unlocked, MAX_MOD_COUNTER # 0, [Next]_vars
  PROVE  SettleInv' /\ (breaks' = 0 => AllServed)
<1>1. FlowInv' /\ (breaks' = 0 => breaks = 0)
  BY FlowStep, BreaksKept DEF SettleInv, FlowInv
<1>2. breaks' = 0 => AllTraced'
  BY <1>1, NextTraced DEF SettleInv, FlowInv, BooksHold, TracesHold
<1>3. breaks' = 0 => AllSettled' /\ AllServed /\ UNCHANGED <<cxlWait, late>>
  BY <1>1, NextSettles DEF SettleInv, FlowInv, BooksHold, TracesHold, SettlesHold
<1>4. cxlWait' = {}
  BY CxlWaitKept DEF SettleInv
<1> QED BY <1>1, <1>2, <1>3, <1>4 DEF SettleInv, TracesHold, SettlesHold

\* From the invariant, what the order is owed.
LEMMA SettledOwed ==
  ASSUME SettleInv, breaks = 0
  PROVE  RequestsSettle
<1>1. TypeOK /\ AllSettled /\ late = {}
  BY DEF SettleInv, FlowInv, SettlesHold
<1>2. ASSUME NEW o \in Orders
      PROVE  /\ Owed(ord[o], req[o], resp[o], o \in lost)
             /\ Followed(ord[o], req[o], resp[o], ex[o], o \in lost, o \in crossed)
             /\ Delayed(ord[o])
  BY <1>1 DEF AllSettled, Settled, Settling
<1>3. AnswerOwed
  BY <1>2 DEF AnswerOwed, Owed, Has, Sent, Answered, NewAnswers, CxlAnswers
<1>4. DelayedUntilAck
  <2> SUFFICES ASSUME NEW o \in Orders, ord[o].cancelOnAck, o \notin lost,
                      ord[o].state \in {"Pending", "Working", "Modifying"}
               PROVE  Sent(o, {"New"}) \/ Answered(o, {"NewAck", "NewRej"})
    BY DEF DelayedUntilAck, Sent, Answered
  <2>1. ord[o].state = "Pending"
    BY <1>2 DEF Delayed, Dead
  <2> QED BY <1>2, <2>1 DEF Owed, Has, Sent, Answered, NewAnswers
<1>5. ModsSettle
  <2> SUFFICES ASSUME NEW o \in Orders, isOrderLive(ord[o]), o \notin lost, o \notin crossed
               PROVE  /\ ord[o].modCounter = ModsInFlight(o)
                      /\ ord[o].state = "Modifying" <=> ModsInFlight(o) > 0
                      /\ ord[o].state = "Working" => ord[o].price = ex[o].price
    BY DEF ModsSettle
  <2>1. /\ ModsExact(ord[o], req[o], resp[o])
        /\ PriceChain(ord[o], resp[o], ex[o])
    BY <1>2 DEF Followed, Dead, isOrderLive
  <2>2. ModsInFlight(o) = Mods(req[o], resp[o])
    BY DEF ModsInFlight, Mods, At, ModAnswers
  <2>3. ASSUME ord[o].state = "Working"
        PROVE  ~Has(resp[o], {"ModAck"})
    <3>1. req[o] \in Seq(Request) /\ resp[o] \in Seq(Response)
      BY <1>1, TraceTypes
    <3>2. Cardinality(At(req[o], {"Mod"})) \in Nat
      BY <3>1, Counted
    <3>3. /\ Cardinality(At(resp[o], ModAnswers)) \in Nat
          /\ Cardinality(At(resp[o], ModAnswers)) > 0 <=> Has(resp[o], ModAnswers)
      BY <3>1, Counted
    <3>4. ~(Mods(req[o], resp[o]) > 0)
      BY <2>1, <2>3 DEF ModsExact
    <3>5. ~Has(resp[o], ModAnswers)
      BY <3>2, <3>3, <3>4 DEF Mods
    <3> QED BY <3>5 DEF Has, ModAnswers
  <2> QED BY <2>1, <2>2, <2>3 DEF ModsExact, PriceChain
<1>6. NeverUntracked
  BY TracedFound DEF SettleInv
<1>7. LateOnlyIfCrossed
  BY <1>1 DEF LateOnlyIfCrossed
<1> QED BY <1>3, <1>4, <1>5, <1>6, <1>7 DEF RequestsSettle

\* It holds of every reachable state.
LEMMA SettleInvariant ==
  ASSUME ~Reentrant, ~Unlocked, MAX_MOD_COUNTER # 0
  PROVE  Spec => []SettleInv /\ [][breaks' = 0 => AllServed]_vars
<1>1. Init => SettleInv
  BY InitType, InitSound, InitTraced, InitSettled
  DEF Init, SettleInv, FlowInv, BooksHold, TracesHold, SettlesHold
<1>2. SettleInv /\ [Next]_vars => SettleInv'
  BY SettleStep
<1>3. SettleInv /\ [Next]_vars => [breaks' = 0 => AllServed]_vars
  BY SettleStep
<1> QED BY <1>1, <1>2, <1>3, PTL DEF Spec

\* Until the exchange busts a trade, every order has what RequestsSettle says it is
\* owed: a Pending or Cancelling order has its answer on the way, a cancel kept back
\* has an acknowledgement to wait for, _modCounter counts the modifies in flight and a
\* Working order has the exchange's price, for any number of orders, any limits and
\* any interleaving of strategies, session thread and exchange, lost requests
\* included.
THEOREM RequestsAnswered ==
  ASSUME ~Reentrant, ~Unlocked, MAX_MOD_COUNTER # 0
  PROVE  Spec => [](breaks = 0 => RequestsSettle)
<1>1. SettleInv => (breaks = 0 => RequestsSettle)
  BY SettledOwed
<1> QED BY <1>1, SettleInvariant, PTL

\* As long as the exchange busts no trade, a cancel kept back until the
\* acknowledgement is sent with it, or seen to be refused.
THEOREM KeptCancelsSent ==
  ASSUME ~Reentrant, ~Unlocked, MAX_MOD_COUNTER # 0
  PROVE  Spec /\ [](breaks = 0) => AckServesDelayed
<1>1. [breaks' = 0 => AllServed]_vars /\ (breaks = 0)' =>
        [\A o \in Orders :
           ord[o].cancelOnAck /\ ~ord'[o].cancelOnAck /\ isOrderLive(ord'[o]) =>
             \/ Len(req'[o]) > Len(req[o])
             \/ ord'[o].cxlRejCounter > ord[o].cxlRejCounter
             \/ ord[o].cxlRejCounter > MAX_CXL_REJ_COUNTER]_vars
  BY DEF AllServed, Served
<1> QED BY <1>1, SettleInvariant, PTL DEF AckServesDelayed
================================================================================
