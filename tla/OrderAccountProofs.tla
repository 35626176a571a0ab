--------------------------- MODULE OrderAccountProofs ---------------------------
(***************************************************************************)
(* The account's proofs, on top of those about one order: the counters the *)
(* orders share are the sums of the orders' shares, and a step moves them  *)
(* by the share of the one order it handles.  From there, until a trade is *)
(* busted: the counters are the open quantity and the position, what the   *)
(* exchange could still trade stays within ProcessorRisk's limit, and the  *)
(* order path implements the ledger.                                       *)
(***************************************************************************)
EXTENDS OrderTraceProofs, OrderFlowLedger, FiniteSetsExt, FiniteSetTheorems

--------------------------------------------------------------------------------
(***************************************************************************)
(* What SumFunctionOnSet computes, for every finite set: it folds over the *)
(* set with a recursive function on its subsets, and a property of all     *)
(* subsets is proved by looking at a smallest one that does not have it.   *)
(***************************************************************************)

\* A collection of subsets of a finite set has a smallest member.
LEMMA MinimalSubset ==
  ASSUME NEW S, IsFiniteSet(S), NEW T, T \subseteq SUBSET S, T # {}
  PROVE  \E U \in T : \A V \in T : ~(V \subseteq U /\ V # U)
<1>1. IsWellFoundedOn(StrictSubsetOrdering(S), FiniteSubsetsOf(S))
  BY FS_StrictSubsetOrderingWellFounded
<1>2. FiniteSubsetsOf(S) = SUBSET S
  BY FS_FiniteSubsetsOfFinite
<1>3. \E U \in T : \A V \in T : ~(<<V, U>> \in StrictSubsetOrdering(S))
  BY <1>1, <1>2, WFMin
<1> QED BY <1>3 DEF StrictSubsetOrdering

\* The element of a set the fold takes first.
First(s) == CHOOSE x \in s : TRUE

\* An element of a set that has one.
LEMMA FirstIn == ASSUME NEW s, s # {} PROVE First(s) \in s
BY DEF First

\* g is the fold's recursive function on the subsets of S.
Folds(g, f, S) ==
  g = [s \in SUBSET S |-> IF s = {} THEN 0 ELSE f[First(s)] + g[s \ {First(s)}]]

\* One step of the fold over a finite set.
LEMMA FoldsAt ==
  ASSUME NEW g, NEW f, NEW S, Folds(g, f, S), NEW s \in SUBSET S
  PROVE  /\ s = {} => g[s] = 0
         /\ s # {} => g[s] = f[First(s)] + g[s \ {First(s)}]
<1> DEFINE h == [u \in SUBSET S |->
                   IF u = {} THEN 0 ELSE f[First(u)] + g[u \ {First(u)}]]
<1>1. g = h
  BY DEF Folds
<1>2. h[s] = IF s = {} THEN 0 ELSE f[First(s)] + g[s \ {First(s)}]
  OBVIOUS
<1> HIDE DEF h
<1> QED BY <1>1, <1>2

\* Induction along the fold: what holds of the empty set, and of a set if of the
\* rest of it, holds of the whole.
LEMMA FoldInduction ==
  ASSUME NEW S, IsFiniteSet(S), NEW G, {} \in G,
         \A s \in SUBSET S : s # {} /\ s \ {First(s)} \in G => s \in G
  PROVE  S \in G
<1> DEFINE T == {s \in SUBSET S : s \notin G}
<1> SUFFICES ASSUME T # {} PROVE FALSE
  OBVIOUS
<1>1. PICK s \in T : \A V \in T : ~(V \subseteq s /\ V # s)
  <2>1. T \subseteq SUBSET S
    OBVIOUS
  <2> HIDE DEF T
  <2> QED BY <2>1, MinimalSubset
<1>2. s # {}
  OBVIOUS
<1>3. First(s) \in s
  BY <1>2, FirstIn
<1>4. s \ {First(s)} \in G
  BY <1>1, <1>3
<1> QED BY <1>2, <1>4

\* The sum is that fold.
LEMMA SumByFolds ==
  ASSUME NEW S, NEW f
  PROVE  SumFunctionOnSet(f, S) = (CHOOSE g : Folds(g, f, S))[S]
BY DEF SumFunctionOnSet, FoldFunctionOnSet, MapThenFoldSet, Folds, First

\* Two such functions agree where both are defined.
LEMMA FoldsAgree ==
  ASSUME NEW S, IsFiniteSet(S), NEW f, NEW A \in SUBSET S, NEW B \in SUBSET S,
         NEW g, NEW h, Folds(g, f, A), Folds(h, f, B)
  PROVE  \A s \in SUBSET (A \cap B) : g[s] = h[s]
<1> DEFINE T == {s \in SUBSET (A \cap B) : g[s] # h[s]}
<1> SUFFICES ASSUME T # {} PROVE FALSE
  OBVIOUS
<1>1. PICK s \in T : \A V \in T : ~(V \subseteq s /\ V # s)
  <2>1. T \subseteq SUBSET S
    OBVIOUS
  <2> HIDE DEF T
  <2> QED BY <2>1, MinimalSubset
<1>2. s \in SUBSET A /\ s \in SUBSET B
  OBVIOUS
<1>3. s # {}
  BY <1>2, FoldsAt
<1>4. First(s) \in s
  BY <1>3, FirstIn
<1>5. g[s \ {First(s)}] = h[s \ {First(s)}]
  BY <1>1, <1>4
<1>6. g[s] = h[s]
  BY <1>2, <1>3, <1>5, FoldsAt
<1> QED BY <1>6

\* There is one for every finite set.
LEMMA FoldsExist ==
  ASSUME NEW S, IsFiniteSet(S), NEW f
  PROVE  \E g : Folds(g, f, S)
<1> DEFINE T == {U \in SUBSET S : ~\E g : Folds(g, f, U)}
<1> SUFFICES ASSUME T # {} PROVE FALSE
  OBVIOUS
<1>1. PICK U \in T : \A V \in T : ~(V \subseteq U /\ V # U)
  <2>1. T \subseteq SUBSET S
    OBVIOUS
  <2> HIDE DEF T
  <2> QED BY <2>1, MinimalSubset
<1> DEFINE G(W) == CHOOSE g : Folds(g, f, W)
           rest(s) == s \ {First(s)}
           h == [s \in SUBSET U |->
                   IF s = {} THEN 0 ELSE f[First(s)] + G(rest(s))[rest(s)]]
<1>2. ASSUME NEW W \in SUBSET U, W # U
      PROVE  Folds(G(W), f, W)
  <2>1. \E g : Folds(g, f, W)
    BY <1>1, <1>2
  <2> QED BY <2>1
<1>3. ASSUME NEW s \in SUBSET U, s # {}
      PROVE  First(s) \in s /\ rest(s) \in SUBSET U /\ rest(s) # U
  BY <1>3, FirstIn
<1>4. ASSUME NEW W \in SUBSET U, W # U
      PROVE  h[W] = G(W)[W]
  <2>1. Folds(G(W), f, W)
    BY <1>2, <1>4
  <2>2. CASE W = {}
    <3>1. G(W)[W] = 0
      <4> HIDE DEF G
      <4> QED BY <2>1, <2>2, FoldsAt
    <3> QED BY <2>2, <3>1
  <2>3. CASE W # {}
    <3>1. rest(W) \in SUBSET U /\ rest(W) # U
      BY <1>3, <2>3
    <3>2. Folds(G(rest(W)), f, rest(W))
      BY <1>2, <3>1
    <3>3. G(rest(W))[rest(W)] = G(W)[rest(W)]
      <4>1. rest(W) \in SUBSET S /\ W \in SUBSET S /\ rest(W) \in SUBSET (rest(W) \cap W)
        OBVIOUS
      <4> HIDE DEF G, rest
      <4> QED BY <2>1, <3>2, <4>1, FoldsAgree
    <3>4. G(W)[W] = f[First(W)] + G(W)[rest(W)]
      <4> HIDE DEF G
      <4> QED BY <2>1, <2>3, FoldsAt
    <3> HIDE DEF G, rest
    <3> QED BY <2>3, <3>3, <3>4
  <2> QED BY <2>2, <2>3
<1>5. ASSUME NEW s \in SUBSET U
      PROVE  h[s] = IF s = {} THEN 0 ELSE f[First(s)] + h[s \ {First(s)}]
  <2>1. CASE s = {}
    BY <2>1
  <2>2. CASE s # {}
    <3>1. h[rest(s)] = G(rest(s))[rest(s)]
      <4>1. rest(s) \in SUBSET U /\ rest(s) # U
        BY <1>3, <2>2
      <4> HIDE DEF h, G, rest
      <4> QED BY <1>4, <4>1
    <3>2. h[s] = f[First(s)] + G(rest(s))[rest(s)]
      <4> HIDE DEF G, rest
      <4> QED BY <2>2
    <3>3. h[s] = f[First(s)] + h[rest(s)]
      <4> HIDE DEF h, G, rest
      <4> QED BY <3>1, <3>2
    <3> HIDE DEF h, G
    <3> QED BY <2>2, <3>3
  <2> QED BY <2>1, <2>2
<1>6. Folds(h, f, U)
  <2>1. h = [s \in SUBSET U |-> h[s]]
    OBVIOUS
  <2> HIDE DEF h
  <2> QED BY <1>5, <2>1 DEF Folds
<1> QED BY <1>1, <1>6

--------------------------------------------------------------------------------
(***************************************************************************)
(* Sums                                                                    *)
(***************************************************************************)

\* The same equation, case by case.
Adds(g, f, S) ==
  /\ g[{}] = 0
  /\ \A s \in SUBSET S : s # {} => g[s] = f[First(s)] + g[s \ {First(s)}]

\* The sum is the value of the fold's function on the whole set.
LEMMA SumFolds ==
  ASSUME NEW S, IsFiniteSet(S), NEW f
  PROVE  \E g : Adds(g, f, S) /\ SumFunctionOnSet(f, S) = g[S]
<1> DEFINE g == CHOOSE k : Folds(k, f, S)
<1>1. Folds(g, f, S)
  BY FoldsExist
<1>2. SumFunctionOnSet(f, S) = g[S]
  BY SumByFolds
<1>3. Adds(g, f, S)
  <2> HIDE DEF g
  <2>1. g[{}] = 0
    BY <1>1, FoldsAt
  <2>2. ASSUME NEW s \in SUBSET S, s # {}
        PROVE  g[s] = f[First(s)] + g[s \ {First(s)}]
    BY <1>1, <2>2, FoldsAt
  <2> QED BY <2>1, <2>2 DEF Adds
<1> QED BY <1>2, <1>3

\* A sum of integers is an integer, of zeroes zero.
LEMMA SumType ==
  ASSUME NEW S, IsFiniteSet(S), NEW f, \A x \in S : f[x] \in Int
  PROVE  /\ SumFunctionOnSet(f, S) \in Int
         /\ (\A x \in S : f[x] = 0) => SumFunctionOnSet(f, S) = 0
<1>1. PICK g : Adds(g, f, S) /\ SumFunctionOnSet(f, S) = g[S]
  BY SumFolds
<1> DEFINE G == {s \in SUBSET S : g[s] \in Int /\ ((\A x \in S : f[x] = 0) => g[s] = 0)}
<1>2. {} \in G
  <2>1. g[{}] = 0
    BY <1>1 DEF Adds
  <2> QED BY <2>1
<1>3. ASSUME NEW s \in SUBSET S, s # {}, s \ {First(s)} \in G
      PROVE  s \in G
  <2> HIDE DEF G
  <2>1. First(s) \in s /\ First(s) \in S
    BY <1>3, FirstIn
  <2>2. g[s] = f[First(s)] + g[s \ {First(s)}]
    BY <1>1, <1>3 DEF Adds
  <2> QED BY <1>3, <2>1, <2>2 DEF G
<1>4. S \in G
  <2> HIDE DEF G
  <2> QED BY <1>2, <1>3, FoldInduction
<1> QED BY <1>1, <1>4

\* What changes a sum: the element whose value changes, by the difference.
LEMMA SumUpdate ==
  ASSUME NEW S, IsFiniteSet(S), NEW f, NEW k, NEW y,
         \A x \in S : f[x] \in Int /\ k[x] \in Int,
         \A x \in S \ {y} : k[x] = f[x]
  PROVE  SumFunctionOnSet(k, S) =
           SumFunctionOnSet(f, S) + (IF y \in S THEN k[y] - f[y] ELSE 0)
<1>1. PICK g : Adds(g, f, S) /\ SumFunctionOnSet(f, S) = g[S]
  BY SumFolds
<1>2. PICK h : Adds(h, k, S) /\ SumFunctionOnSet(k, S) = h[S]
  BY SumFolds
<1> DEFINE G == {s \in SUBSET S : 
             /\ g[s] \in Int
             /\ h[s] = g[s] + (IF y \in s THEN k[y] - f[y] ELSE 0)}
<1>3. {} \in G
  <2>1. g[{}] = 0
    BY <1>1 DEF Adds
  <2>2. h[{}] = 0
    BY <1>2 DEF Adds
  <2> QED BY <2>1, <2>2
<1>4. ASSUME NEW s \in SUBSET S, s # {}, s \ {First(s)} \in G
      PROVE  s \in G
  <2> HIDE DEF G
  <2>1. First(s) \in s /\ First(s) \in S
    BY <1>4, FirstIn
  <2>2. g[s] = f[First(s)] + g[s \ {First(s)}]
    BY <1>1, <1>4 DEF Adds
  <2>3. h[s] = k[First(s)] + h[s \ {First(s)}]
    BY <1>2, <1>4 DEF Adds
  <2>4. CASE First(s) = y
    <3>1. h[s \ {y}] = g[s \ {y}] /\ g[s \ {y}] \in Int
      BY <1>4, <2>4 DEF G
    <3> QED BY <2>1, <2>2, <2>3, <2>4, <3>1 DEF G
  <2>5. CASE First(s) # y
    <3>1. k[First(s)] = f[First(s)]
      BY <2>1, <2>5
    <3>2. y \in s <=> y \in s \ {First(s)}
      BY <2>5
    <3>3. y \in s => k[y] - f[y] \in Int
      OBVIOUS
    <3> QED BY <1>4, <2>1, <2>2, <2>3, <3>1, <3>2, <3>3 DEF G
  <2> QED BY <2>4, <2>5
<1>5. S \in G
  <2> HIDE DEF G
  <2> QED BY <1>3, <1>4, FoldInduction
<1> QED BY <1>1, <1>2, <1>5

\* A sum of values each at most another's is at most the other sum.
LEMMA SumMono ==
  ASSUME NEW S, IsFiniteSet(S), NEW f, NEW k,
         \A x \in S : f[x] \in Int /\ k[x] \in Int /\ f[x] <= k[x]
  PROVE  SumFunctionOnSet(f, S) <= SumFunctionOnSet(k, S)
<1>1. PICK g : Adds(g, f, S) /\ SumFunctionOnSet(f, S) = g[S]
  BY SumFolds
<1>2. PICK h : Adds(h, k, S) /\ SumFunctionOnSet(k, S) = h[S]
  BY SumFolds
<1> DEFINE G == {s \in SUBSET S : g[s] \in Int /\ h[s] \in Int /\ g[s] <= h[s]}
<1>3. {} \in G
  <2>1. g[{}] = 0
    BY <1>1 DEF Adds
  <2>2. h[{}] = 0
    BY <1>2 DEF Adds
  <2> QED BY <2>1, <2>2
<1>4. ASSUME NEW s \in SUBSET S, s # {}, s \ {First(s)} \in G
      PROVE  s \in G
  <2> HIDE DEF G
  <2>1. First(s) \in s /\ First(s) \in S
    BY <1>4, FirstIn
  <2>2. g[s] = f[First(s)] + g[s \ {First(s)}]
    BY <1>1, <1>4 DEF Adds
  <2>3. h[s] = k[First(s)] + h[s \ {First(s)}]
    BY <1>2, <1>4 DEF Adds
  <2> QED BY <1>4, <2>1, <2>2, <2>3 DEF G
<1>5. S \in G
  <2> HIDE DEF G
  <2> QED BY <1>3, <1>4, FoldInduction
<1> QED BY <1>1, <1>2, <1>5

\* The sum of two functions is the sum of their sums.
LEMMA SumAdd ==
  ASSUME NEW S, IsFiniteSet(S), NEW f, NEW k, NEW m,
         \A x \in S : f[x] \in Int /\ k[x] \in Int /\ m[x] = f[x] + k[x]
  PROVE  SumFunctionOnSet(m, S) = SumFunctionOnSet(f, S) + SumFunctionOnSet(k, S)
<1>1. PICK g : Adds(g, f, S) /\ SumFunctionOnSet(f, S) = g[S]
  BY SumFolds
<1>2. PICK h : Adds(h, k, S) /\ SumFunctionOnSet(k, S) = h[S]
  BY SumFolds
<1>3. PICK j : Adds(j, m, S) /\ SumFunctionOnSet(m, S) = j[S]
  BY SumFolds
<1> DEFINE G == {s \in SUBSET S : 
             g[s] \in Int /\ h[s] \in Int /\ j[s] = g[s] + h[s]}
<1>4. {} \in G
  <2>1. g[{}] = 0
    BY <1>1 DEF Adds
  <2>2. h[{}] = 0
    BY <1>2 DEF Adds
  <2>3. j[{}] = 0
    BY <1>3 DEF Adds
  <2> QED BY <2>1, <2>2, <2>3
<1>5. ASSUME NEW s \in SUBSET S, s # {}, s \ {First(s)} \in G
      PROVE  s \in G
  <2> HIDE DEF G
  <2>1. First(s) \in s /\ First(s) \in S
    BY <1>5, FirstIn
  <2>2. g[s] = f[First(s)] + g[s \ {First(s)}]
    BY <1>1, <1>5 DEF Adds
  <2>3. h[s] = k[First(s)] + h[s \ {First(s)}]
    BY <1>2, <1>5 DEF Adds
  <2>4. j[s] = m[First(s)] + j[s \ {First(s)}]
    BY <1>3, <1>5 DEF Adds
  <2> QED BY <1>5, <2>1, <2>2, <2>3, <2>4 DEF G
<1>6. S \in G
  <2> HIDE DEF G
  <2> QED BY <1>4, <1>5, FoldInduction
<1> QED BY <1>1, <1>2, <1>3, <1>6

--------------------------------------------------------------------------------
(***************************************************************************)
(* The orders and the counters move together                               *)
(***************************************************************************)

\* Every order is created with a price ProcessorOrders::sendNew accepts.
AllPriced == \A o \in Orders : Book[o].price \in Prices

\* What a step makes of the one order it handles.
Moved(o, t) ==
  /\ t \in Order /\ Store(o, t)
  /\ \/ Kept(ord[o], t)
     \/ Opened(o, ord[o], t)
     \/ Refused(o, ord[o], t)
     \/ Ended(ord[o], t)
     \/ \E q \in Nat \ {0} : Traded(ord[o], t, q)

\* The orders and the counters move together, one order at a time.
LEMMA StepMoves ==
  ASSUME TypeOK, PickedThere, AllSound, AllTraced, [Next]_vars
  PROVE  UNCHANGED <<ord, counters>> \/ \E o \in Orders : Moved(o, ord'[o])
<1>1. ASSUME NEW o \in Orders, SendNew(o)
      PROVE  Moved(o, ord'[o])
  BY <1>1, NewMoves DEF Moved
<1>2. ASSUME NEW o \in Orders, NEW p \in Prices, SendMod(o, p)
      PROVE  Moved(o, ord'[o])
  BY <1>2, ModMoves DEF Moved
<1>3. ASSUME NEW o \in Orders, CxlLocked(o)
      PROVE  Moved(o, ord'[o])
  <2>1. PICK outcome \in Outcomes : Store(o, CxlChain(ord[o], outcome).order)
    BY <1>3 DEF CxlLocked
  <2>2. ord \in [Orders -> Order] /\ ord[o] \in Order
    BY TraceTypes
  <2>3. /\ CxlChain(ord[o], outcome).order \in Order
        /\ Kept(ord[o], CxlChain(ord[o], outcome).order)
    BY <2>2, ChainType, QuietChain, QuietKept
  <2>4. ord'[o] = CxlChain(ord[o], outcome).order
    BY <2>1, <2>2 DEF Store
  <2> QED BY <2>1, <2>3, <2>4 DEF Moved
<1>4. ASSUME NEW o \in Orders, Inbound(o)
      PROVE  Moved(o, ord'[o])
  <2>1. /\ ord'[o] \in Order /\ Store(o, ord'[o])
        /\ IF Head(resp[o]).type \in Fills
             THEN Traded(ord[o], ord'[o], Head(resp[o]).qty)
             ELSE Kept(ord[o], ord'[o]) \/ Ended(ord[o], ord'[o])
    BY <1>4, InboundMoves
  <2>2. resp[o] \in Seq(Response) /\ resp[o] # <<>>
    <3>1. picked[o]
      BY <1>4 DEF Inbound, OnNewAck, OnNewAckReentrant, OnNewRej, OnModAck, OnModRej,
                  OnCxlAck, OnCxlRej, OnFill, OnBust, Take
    <3> QED BY <3>1, TraceTypes DEF PickedThere
  <2>3. /\ 1 \in DOMAIN resp[o] /\ Head(resp[o]) = resp[o][1]
        /\ Head(resp[o]) \in Response
    BY <2>2
  <2>4. Head(resp[o]).type \in Fills =>
          Head(resp[o]).qty \in Nat /\ 1 <= Head(resp[o]).qty
    <3>1. Head(resp[o]).qty \in Nat
      BY <2>3 DEF Response
    <3>2. FillsChain(ord[o], resp[o], ex[o])
      BY DEF AllTraced, Traced
    <3> QED BY <2>3, <3>1, <3>2 DEF FillsChain
  <2> QED BY <2>1, <2>4 DEF Moved
<1>5. ASSUME NEW o \in Orders, Receive(o) \/ LoseRequest(o) \/ ReadCxlState(o)
      PROVE  UNCHANGED <<ord, counters>>
  BY <1>5 DEF Receive, LoseRequest, ReadCxlState
<1>6. ASSUME NEW o \in Orders, Exchange(o)
      PROVE  UNCHANGED <<ord, counters>>
  BY <1>6 DEF Exchange, ExNew, ExMod, ExCxl, ExFill, ExExpire, ExBreak, Handle
<1>7. CASE SessionDown \/ SessionUp \/ UNCHANGED vars
  BY <1>7 DEF SessionDown, SessionUp, vars
<1> QED BY <1>1, <1>2, <1>3, <1>4, <1>5, <1>6, <1>7
        DEF Next, Strategy, SendCxl, SendCxlUnlocked

--------------------------------------------------------------------------------
(***************************************************************************)
(* The counters are sums                                                   *)
(***************************************************************************)

\* The quantity the orders of a side have in _bids or _asks, and in _pos.
Booked(side) == SumFunctionOnSet([o \in Orders |-> ord[o].booked], OfSide(side))

Held(side) == SumFunctionOnSet([o \in Orders |-> ord[o].filled], OfSide(side))

\* The shared counters are the orders' shares added up.
CountersSum ==
  bids = Booked("Buy") /\ asks = Booked("Sell") /\ pos = Held("Buy") - Held("Sell")

\* An order is on one side.
LEMMA SidesSplit ==
  /\ \A side : IsFiniteSet(OfSide(side)) /\ OfSide(side) \subseteq Orders
  /\ \A o \in Orders : Book[o].side = "Buy" \/ Book[o].side = "Sell"
<1>1. \A side : OfSide(side) \subseteq Orders
  BY DEF OfSide
<1>2. \A o \in Orders : Book[o].side \in Sides
  BY FlowAssumption
<1> QED BY <1>1, <1>2, OrdersFinite, FS_Subset DEF Sides

\* Whatever a handler makes of its order, the counters stay the sums.
LEMMA SumsStore ==
  ASSUME TypeOK, CountersSum, NEW o \in Orders, NEW t \in Order, Store(o, t)
  PROVE  CountersSum'
<1> DEFINE f == [x \in Orders |-> ord[x].booked]
           fb == [x \in Orders |-> ord'[x].booked]
           h == [x \in Orders |-> ord[x].filled]
           hb == [x \in Orders |-> ord'[x].filled]
<1>1. ord \in [Orders -> Order] /\ ord' = [ord EXCEPT ![o] = t]
  BY TraceTypes DEF Store
<1>2. \A x \in Orders :
        /\ ord[x].booked \in Int /\ ord[x].filled \in Int
        /\ ord'[x].booked \in Int /\ ord'[x].filled \in Int
        /\ x # o => ord'[x] = ord[x]
        /\ x = o => ord'[x] = t
  BY <1>1 DEF Order
<1>3. ASSUME NEW S, IsFiniteSet(S), S \subseteq Orders
      PROVE  /\ SumFunctionOnSet(fb, S) =
                  SumFunctionOnSet(f, S) + (IF o \in S THEN t.booked - ord[o].booked ELSE 0)
             /\ SumFunctionOnSet(hb, S) =
                  SumFunctionOnSet(h, S) + (IF o \in S THEN t.filled - ord[o].filled ELSE 0)
             /\ SumFunctionOnSet(f, S) \in Int /\ SumFunctionOnSet(h, S) \in Int
  <2>1. /\ \A x \in S : f[x] \in Int /\ fb[x] \in Int
        /\ \A x \in S \ {o} : fb[x] = f[x]
        /\ fb[o] = t.booked /\ f[o] = ord[o].booked
    BY <1>2, <1>3
  <2>2. /\ \A x \in S : h[x] \in Int /\ hb[x] \in Int
        /\ \A x \in S \ {o} : hb[x] = h[x]
        /\ hb[o] = t.filled /\ h[o] = ord[o].filled
    BY <1>2, <1>3
  <2> HIDE DEF f, fb, h, hb
  <2>3. SumFunctionOnSet(fb, S) =
          SumFunctionOnSet(f, S) + (IF o \in S THEN fb[o] - f[o] ELSE 0)
    BY <1>3, <2>1, SumUpdate
  <2>4. SumFunctionOnSet(hb, S) =
          SumFunctionOnSet(h, S) + (IF o \in S THEN hb[o] - h[o] ELSE 0)
    BY <1>3, <2>2, SumUpdate
  <2>5. SumFunctionOnSet(f, S) \in Int /\ SumFunctionOnSet(h, S) \in Int
    BY <1>3, <2>1, <2>2, SumType
  <2> QED BY <2>1, <2>2, <2>3, <2>4, <2>5
<1>4. \A side : IsFiniteSet(OfSide(side)) /\ OfSide(side) \subseteq Orders
  BY SidesSplit
<1>5. /\ Booked("Buy") = SumFunctionOnSet(f, OfSide("Buy"))
      /\ Booked("Sell") = SumFunctionOnSet(f, OfSide("Sell"))
      /\ Held("Buy") = SumFunctionOnSet(h, OfSide("Buy"))
      /\ Held("Sell") = SumFunctionOnSet(h, OfSide("Sell"))
  BY DEF Booked, Held
<1>6. /\ Booked("Buy")' = SumFunctionOnSet(fb, OfSide("Buy"))
      /\ Booked("Sell")' = SumFunctionOnSet(fb, OfSide("Sell"))
      /\ Held("Buy")' = SumFunctionOnSet(hb, OfSide("Buy"))
      /\ Held("Sell")' = SumFunctionOnSet(hb, OfSide("Sell"))
  BY DEF Booked, Held, OfSide
<1> HIDE DEF f, fb, h, hb
<1>7. /\ o \in OfSide("Buy") <=> Book[o].side = "Buy"
      /\ o \in OfSide("Sell") <=> Book[o].side = "Sell"
      /\ Book[o].side = "Buy" \/ Book[o].side = "Sell"
  BY SidesSplit DEF OfSide
<1>8. /\ bids' = BidsWith(o, t) /\ asks' = AsksWith(o, t) /\ pos' = PosWith(o, t)
      /\ t.booked \in Int /\ t.filled \in Int /\ ord[o].booked \in Int
      /\ ord[o].filled \in Int
  BY <1>2 DEF Store, Order
<1>9. bids = Booked("Buy") /\ asks = Booked("Sell") /\ pos = Held("Buy") - Held("Sell")
  BY DEF CountersSum
<1>10. bids' = Booked("Buy")'
  BY <1>3, <1>4, <1>5, <1>6, <1>7, <1>8, <1>9 DEF BidsWith
<1>11. asks' = Booked("Sell")'
  BY <1>3, <1>4, <1>5, <1>6, <1>7, <1>8, <1>9 DEF AsksWith
<1>12. pos' = Held("Buy")' - Held("Sell")'
  BY <1>3, <1>4, <1>5, <1>6, <1>7, <1>8, <1>9 DEF PosWith, Sign
<1> QED BY <1>10, <1>11, <1>12 DEF CountersSum

\* A process that has just started has empty sums.
LEMMA InitSums ==
  ASSUME Init
  PROVE  CountersSum
<1> DEFINE f == [o \in Orders |-> ord[o].booked]
           h == [o \in Orders |-> ord[o].filled]
<1>1. bids = 0 /\ asks = 0 /\ pos = 0
  BY DEF Init
<1>2. \A o \in Orders : ord[o].booked = 0 /\ ord[o].filled = 0
  BY DEF Init, createOrder
<1>3. ASSUME NEW S, IsFiniteSet(S), S \subseteq Orders
      PROVE  SumFunctionOnSet(f, S) = 0 /\ SumFunctionOnSet(h, S) = 0
  <2>1. \A x \in S : f[x] = 0 /\ h[x] = 0
    BY <1>2, <1>3
  <2> HIDE DEF f, h
  <2> QED BY <1>3, <2>1, SumType
<1>4. \A side : Booked(side) = 0 /\ Held(side) = 0
  BY <1>3, SidesSplit DEF Booked, Held
<1> QED BY <1>1, <1>4 DEF CountersSum

--------------------------------------------------------------------------------
(***************************************************************************)
(* The limit on the counters                                               *)
(***************************************************************************)

\* ProcessorRisk's two sums, as it reads them.
Within == pos + bids <= MaxPos /\ asks - pos <= MaxPos

\* What Sound and Traced say of an order's numbers.
LEMMA OrderNumbers ==
  ASSUME TypeOK, AllSound, AllTraced, NEW o \in Orders
  PROVE  /\ ord[o].qty \in Int /\ ord[o].cumQty \in Int /\ ord[o].booked \in Int
         /\ ord[o].filled \in Int /\ ex[o].cum \in Nat /\ Book[o].qty \in Nat
         /\ ord[o].qty = Book[o].qty /\ ord[o].filled = ord[o].cumQty
         /\ ord[o].cumQty <= ex[o].cum /\ ex[o].cum <= Book[o].qty
         /\ ord[o].inTable <=> isOrderLive(ord[o])
         /\ Book[o].price \in Prices =>
              ord[o].booked = IF ord[o].inTable THEN ord[o].qty - ord[o].cumQty ELSE 0
<1>1. ord[o] \in Order /\ ex[o] \in Exchanges
  BY TraceTypes
<1>2. /\ ord[o].qty \in Int /\ ord[o].cumQty \in Int /\ ord[o].booked \in Int
      /\ ord[o].filled \in Int
  BY <1>1 DEF Order
<1>3. ex[o].cum \in Nat
  BY <1>1 DEF Exchanges
<1>4. Book[o].qty \in Nat
  BY FlowAssumption
<1>5. BooksSound(ord[o], Book[o]) /\ CumSound(ord[o], resp[o], ex[o], Book[o])
  BY DEF AllSound, Sound
<1>6. ord[o].filled = ord[o].cumQty
  BY DEF AllTraced, Traced, FillsChain
<1> QED BY <1>2, <1>3, <1>4, <1>5, <1>6 DEF BooksSound, CumSound

\* No step takes the account over the limit: a new is checked with what it adds, a
\* fill moves quantity from one term to the other, an end only gives back.
LEMMA WithinStore ==
  ASSUME TypeOK, AllSound, AllTraced, AllPriced, Within, NEW o \in Orders, NEW t,
         Moved(o, t)
  PROVE  Within'
<1>1. /\ ord[o].qty \in Int /\ ord[o].cumQty \in Int /\ ord[o].booked \in Int
      /\ ord[o].filled \in Int /\ ord[o].cumQty <= ord[o].qty
  BY OrderNumbers
<1>2. t.booked \in Int /\ t.filled \in Int
  BY DEF Moved, Order
<1>3. bids \in Int /\ asks \in Int /\ pos \in Int /\ MaxPos \in Int
  BY FlowAssumption DEF TypeOK
<1>4. bids' = BidsWith(o, t) /\ asks' = AsksWith(o, t) /\ pos' = PosWith(o, t)
  BY DEF Moved, Store
<1>5. Book[o].side = "Buy" \/ Book[o].side = "Sell"
  BY SidesSplit
<1> USE DEF Within
<1>6. CASE Book[o].side = "Buy"
  <2>1. /\ bids' = bids + (t.booked - ord[o].booked) /\ asks' = asks
        /\ pos' = pos + (t.filled - ord[o].filled)
    BY <1>1, <1>2, <1>3, <1>4, <1>6 DEF BidsWith, AsksWith, PosWith, Sign
  <2>2. CASE Kept(ord[o], t)
    BY <1>1, <1>2, <1>3, <2>1, <2>2 DEF Kept
  <2>3. CASE Opened(o, ord[o], t)
    <3>1. pos' + bids' <= MaxPos
      BY <1>4, <1>6, <2>3 DEF Opened, RiskAllows
    <3>2. pos' = pos
      BY <1>1, <1>3, <2>1, <2>3 DEF Opened
    <3> QED BY <2>1, <3>1, <3>2
  <2>4. CASE Refused(o, ord[o], t)
    BY <1>1, <1>2, <1>3, <2>1, <2>4 DEF Refused, AllPriced
  <2>5. CASE Ended(ord[o], t)
    BY <1>1, <1>2, <1>3, <2>1, <2>5 DEF Ended
  <2>6. ASSUME NEW q \in Nat \ {0}, Traded(ord[o], t, q)
        PROVE  Within'
    BY <1>1, <1>2, <1>3, <2>1, <2>6 DEF Traded
  <2> QED BY <2>2, <2>3, <2>4, <2>5, <2>6 DEF Moved
<1>7. CASE Book[o].side = "Sell"
  <2>1. /\ asks' = asks + (t.booked - ord[o].booked) /\ bids' = bids
        /\ pos' = pos - (t.filled - ord[o].filled)
    BY <1>1, <1>2, <1>3, <1>4, <1>7 DEF BidsWith, AsksWith, PosWith, Sign
  <2>2. CASE Kept(ord[o], t)
    BY <1>1, <1>2, <1>3, <2>1, <2>2 DEF Kept
  <2>3. CASE Opened(o, ord[o], t)
    <3>1. asks' - pos' <= MaxPos
      BY <1>4, <1>7, <2>3 DEF Opened, RiskAllows
    <3>2. pos' = pos
      BY <1>1, <1>3, <2>1, <2>3 DEF Opened
    <3> QED BY <2>1, <3>1, <3>2
  <2>4. CASE Refused(o, ord[o], t)
    BY <1>1, <1>2, <1>3, <2>1, <2>4 DEF Refused, AllPriced
  <2>5. CASE Ended(ord[o], t)
    BY <1>1, <1>2, <1>3, <2>1, <2>5 DEF Ended
  <2>6. ASSUME NEW q \in Nat \ {0}, Traded(ord[o], t, q)
        PROVE  Within'
    BY <1>1, <1>2, <1>3, <2>1, <2>6 DEF Traded
  <2> QED BY <2>2, <2>3, <2>4, <2>5, <2>6 DEF Moved
<1> QED BY <1>5, <1>6, <1>7

--------------------------------------------------------------------------------
(***************************************************************************)
(* The inductive invariant                                                 *)
(***************************************************************************)

\* Until a trade is busted, the counters are the sums and within the limit.
AccountHolds == breaks = 0 => CountersSum /\ (AllPriced => Within)

AccountInv == FlowInv /\ TracesHold /\ AccountHolds

\* Inductive on top of the invariant about single orders.
LEMMA AccountInvariant == Spec => []AccountInv
<1>1. Init => AccountHolds
  <2> SUFFICES ASSUME Init PROVE CountersSum /\ Within
    BY DEF AccountHolds
  <2> QED BY InitSums, FlowAssumption DEF Init, Within
<1>2. AccountInv /\ (FlowInv /\ TracesHold)' /\ [Next]_vars => AccountInv'
  <2> SUFFICES ASSUME AccountInv, (FlowInv /\ TracesHold)', [Next]_vars, breaks' = 0
               PROVE  CountersSum' /\ (AllPriced => Within')
    BY DEF AccountInv, AccountHolds, AllPriced
  <2>1. breaks = 0
    BY BreaksKept DEF AccountInv, FlowInv
  <2>2. /\ TypeOK /\ PickedThere /\ AllSound /\ AllTraced
        /\ CountersSum /\ (AllPriced => Within)
    BY <2>1 DEF AccountInv, FlowInv, BooksHold, TracesHold, AccountHolds
  <2>3. CASE UNCHANGED <<ord, counters>>
    BY <2>2, <2>3 DEF counters, CountersSum, Within, Booked, Held, OfSide
  <2>4. ASSUME NEW o \in Orders, Moved(o, ord'[o])
        PROVE  CountersSum' /\ (AllPriced => Within')
    BY <2>2, <2>4, SumsStore, WithinStore DEF Moved
  <2> QED BY <2>2, <2>3, <2>4, StepMoves
<1> QED BY <1>1, <1>2, TraceInvariant, PTL DEF Spec, AccountInv

--------------------------------------------------------------------------------
(***************************************************************************)
(* The account at the exchange                                             *)
(***************************************************************************)

\* What an order has traded, and what it could still trade, is no more than what
\* the process has booked for it; what the process has booked has traded.
LEMMA OrderExposure ==
  ASSUME TypeOK, AllSound, AllTraced, NEW o \in Orders, Book[o].price \in Prices
  PROVE  /\ MayFill(o) \in Int
         /\ ex[o].cum + MayFill(o) <= ord[o].filled + ord[o].booked
         /\ ord[o].filled <= ex[o].cum
         /\ resp[o] = <<>> => ord[o].filled = ex[o].cum
<1>1. /\ ord[o].qty \in Int /\ ord[o].cumQty \in Int /\ ord[o].booked \in Int
      /\ ord[o].filled \in Int /\ ex[o].cum \in Nat /\ Book[o].qty \in Nat
      /\ ord[o].qty = Book[o].qty /\ ord[o].filled = ord[o].cumQty
      /\ ord[o].cumQty <= ex[o].cum /\ ex[o].cum <= Book[o].qty
      /\ ord[o].inTable <=> isOrderLive(ord[o])
      /\ ord[o].booked = IF ord[o].inTable THEN ord[o].qty - ord[o].cumQty ELSE 0
  BY OrderNumbers
<1>2. MayFill(o) = Book[o].qty - ex[o].cum \/ MayFill(o) = 0
  BY DEF MayFill
<1>3. ex[o].status = "Open" \/ Sent(o, {"New"}) => ord[o].inTable
  <2>1. ex[o].status = "Open" => ord[o].inTable
    BY DEF AllSound, Sound, EndSound
  <2>2. Sent(o, {"New"}) => ord[o].state = "Pending"
    BY DEF Sent, AllSound, Sound, NewSound
  <2> QED BY <1>1, <2>1, <2>2 DEF isOrderLive
<1>4. ord[o].inTable \/ ord[o].filled = ex[o].cum
  <2>1. \A i \in DOMAIN resp[o] : resp[o][i].type \in Fills => ord[o].inTable
    BY DEF AllSound, Sound, EndSound, Closing
  <2>2. (\A i \in DOMAIN resp[o] : resp[o][i].type \notin Fills) =>
          ord[o].filled = ex[o].cum
    BY DEF AllTraced, Traced, FillsChain
  <2> QED BY <2>1, <2>2
<1>5. resp[o] = <<>> => ord[o].filled = ex[o].cum
  <2>1. (\A i \in DOMAIN resp[o] : resp[o][i].type \notin Fills) =>
          ord[o].filled = ex[o].cum
    BY DEF AllTraced, Traced, FillsChain
  <2> QED BY <2>1
<1>6. CASE ord[o].inTable
  BY <1>1, <1>2, <1>5, <1>6, SMTT(40)
<1>7. CASE ~ord[o].inTable
  <2>1. MayFill(o) = 0
    BY <1>3, <1>7 DEF MayFill
  <2> QED BY <1>1, <1>4, <1>5, <1>7, <2>1
<1> QED BY <1>6, <1>7

\* Summed over the orders of a side.
LEMMA SideExposure ==
  ASSUME TypeOK, AllSound, AllTraced, AllPriced, NEW side
  PROVE  /\ Filled(side) \in Int /\ Exposed(side) \in Int
         /\ Held(side) \in Int /\ Booked(side) \in Int
         /\ Filled(side) + Exposed(side) <= Held(side) + Booked(side)
         /\ Held(side) <= Filled(side)
         /\ (\A o \in Orders : resp[o] = <<>>) => Held(side) = Filled(side)
<1> DEFINE c == [o \in Orders |-> ex[o].cum]
           m == [o \in Orders |-> MayFill(o)]
           h == [o \in Orders |-> ord[o].filled]
           b == [o \in Orders |-> ord[o].booked]
           w == [o \in Orders |-> ex[o].cum + MayFill(o)]
           v == [o \in Orders |-> ord[o].filled + ord[o].booked]
           S == OfSide(side)
<1>1. IsFiniteSet(S) /\ S \subseteq Orders
  BY SidesSplit
<1>2. \A o \in Orders :
        /\ ex[o].cum \in Int /\ MayFill(o) \in Int
        /\ ord[o].filled \in Int /\ ord[o].booked \in Int
        /\ ex[o].cum + MayFill(o) <= ord[o].filled + ord[o].booked
        /\ ord[o].filled <= ex[o].cum
        /\ resp[o] = <<>> => ord[o].filled = ex[o].cum
  BY OrderNumbers, OrderExposure DEF AllPriced
<1>3. \A x \in S :
        /\ c[x] \in Int /\ m[x] \in Int /\ h[x] \in Int /\ b[x] \in Int
        /\ w[x] \in Int /\ v[x] \in Int
        /\ w[x] = c[x] + m[x] /\ v[x] = h[x] + b[x]
        /\ w[x] <= v[x] /\ h[x] <= c[x]
  BY <1>1, <1>2
<1>4. (\A o \in Orders : resp[o] = <<>>) => h = c
  BY <1>2
<1>5. /\ Filled(side) = SumFunctionOnSet(c, S) /\ Exposed(side) = SumFunctionOnSet(m, S)
      /\ Held(side) = SumFunctionOnSet(h, S) /\ Booked(side) = SumFunctionOnSet(b, S)
  BY DEF Filled, Exposed, Held, Booked
<1> HIDE DEF c, m, h, b, w, v, S
<1>6. /\ SumFunctionOnSet(c, S) \in Int /\ SumFunctionOnSet(m, S) \in Int
      /\ SumFunctionOnSet(h, S) \in Int /\ SumFunctionOnSet(b, S) \in Int
  BY <1>1, <1>3, SumType
<1>7. SumFunctionOnSet(w, S) = SumFunctionOnSet(c, S) + SumFunctionOnSet(m, S)
  BY <1>1, <1>3, SumAdd
<1>8. SumFunctionOnSet(v, S) = SumFunctionOnSet(h, S) + SumFunctionOnSet(b, S)
  BY <1>1, <1>3, SumAdd
<1>9. SumFunctionOnSet(w, S) <= SumFunctionOnSet(v, S)
  BY <1>1, <1>3, SumMono
<1>10. SumFunctionOnSet(h, S) <= SumFunctionOnSet(c, S)
  BY <1>1, <1>3, SumMono
<1> QED BY <1>4, <1>5, <1>6, <1>7, <1>8, <1>9, <1>10

\* Until the exchange busts a trade, and with orders created at valid prices, the
\* account's counters are exact and the limit ProcessorRisk checks when a new goes
\* out holds ever after, in the process and at the exchange: however many orders
\* share the counters, and whatever is in flight for each.
THEOREM AccountExact == Spec => [](breaks = 0 /\ AllPriced => AccountKept)
<1>1. ASSUME AccountInv, breaks = 0, AllPriced
      PROVE  AccountKept
  <2>1. /\ TypeOK /\ AllSound /\ AllTraced /\ CountersSum /\ Within
    BY <1>1 DEF AccountInv, FlowInv, BooksHold, TracesHold, AccountHolds
  <2>2. CountersOpen
    <3> DEFINE open == [o \in Orders |->
                          IF ord[o].inTable THEN ord[o].qty - ord[o].cumQty ELSE 0]
    <3>1. \A o \in Orders :
            ord[o].booked = IF ord[o].inTable THEN ord[o].qty - ord[o].cumQty ELSE 0
      BY <1>1, <2>1, OrderNumbers DEF AllPriced
    <3>2. open = [o \in Orders |-> ord[o].booked]
      BY <3>1
    <3> QED BY <2>1, <3>2 DEF CountersOpen, CountersSum, Booked
  <2>3. \A side : 
          /\ Filled(side) \in Int /\ Exposed(side) \in Int
          /\ Held(side) \in Int /\ Booked(side) \in Int
          /\ Filled(side) + Exposed(side) <= Held(side) + Booked(side)
          /\ Held(side) <= Filled(side)
          /\ (\A o \in Orders : resp[o] = <<>>) => Held(side) = Filled(side)
    BY <1>1, <2>1, SideExposure
  <2>4. /\ bids = Booked("Buy") /\ asks = Booked("Sell")
        /\ pos = Held("Buy") - Held("Sell")
        /\ pos + bids <= MaxPos /\ asks - pos <= MaxPos
        /\ MaxPos \in Int
    BY <2>1, FlowAssumption DEF CountersSum, Within
  <2>5. PosExact
    BY <2>3, <2>4 DEF PosExact
  <2>6. CountersWithinMaxPos
    BY <2>4 DEF CountersWithinMaxPos
  <2>7. ExposureWithinMaxPos
    <3>1. /\ Filled("Buy") \in Int /\ Exposed("Buy") \in Int
          /\ Held("Buy") \in Int /\ Booked("Buy") \in Int
          /\ Filled("Buy") + Exposed("Buy") <= Held("Buy") + Booked("Buy")
          /\ Held("Buy") <= Filled("Buy")
      BY <2>3
    <3>2. /\ Filled("Sell") \in Int /\ Exposed("Sell") \in Int
          /\ Held("Sell") \in Int /\ Booked("Sell") \in Int
          /\ Filled("Sell") + Exposed("Sell") <= Held("Sell") + Booked("Sell")
          /\ Held("Sell") <= Filled("Sell")
      BY <2>3
    <3>3. Filled("Buy") + Exposed("Buy") - Filled("Sell") <= MaxPos
      BY <2>4, <3>1, <3>2
    <3>4. Filled("Sell") + Exposed("Sell") - Filled("Buy") <= MaxPos
      BY <2>4, <3>1, <3>2
    <3> QED BY <3>3, <3>4 DEF ExposureWithinMaxPos
  <2> QED BY <2>2, <2>5, <2>6, <2>7 DEF AccountKept
<1>2. AccountInv => (breaks = 0 /\ AllPriced => AccountKept)
  BY <1>1
<1> QED BY <1>2, AccountInvariant, PTL

--------------------------------------------------------------------------------
(***************************************************************************)
(* The order path implements the ledger                                    *)
(***************************************************************************)

\* The ledger's four variables, as the order path keeps them.
Stages == [x \in Orders |-> StageOf(ord[x])]

Trades == [x \in Orders |-> ord[x].cumQty]

OpenQty == [side \in Sides |-> IF side = "Buy" THEN bids ELSE asks]

\* What a handler that turns order o into t does to them.
LEMMA LedgerView ==
  ASSUME TypeOK, NEW o \in Orders, NEW t \in Order, Store(o, t)
  PROVE  /\ Stages' = [Stages EXCEPT ![o] = StageOf(t)]
         /\ Trades' = [Trades EXCEPT ![o] = t.cumQty]
         /\ OpenQty' = [OpenQty EXCEPT ![Book[o].side] = @ + (t.booked - ord[o].booked)]
         /\ pos' = PosWith(o, t)
         /\ Stages[o] = StageOf(ord[o]) /\ Trades[o] = ord[o].cumQty
         /\ OpenQty[Book[o].side] = IF Book[o].side = "Buy" THEN bids ELSE asks
         /\ Book[o].side \in Sides
<1>1. ord \in [Orders -> Order] /\ ord' = [ord EXCEPT ![o] = t]
  BY TraceTypes DEF Store
<1>2. Book[o].side \in Sides
  BY FlowAssumption
<1>3. Stages' = [Stages EXCEPT ![o] = StageOf(t)]
  BY <1>1 DEF Stages
<1>4. Trades' = [Trades EXCEPT ![o] = t.cumQty]
  BY <1>1 DEF Trades
<1>5. bids' = BidsWith(o, t) /\ asks' = AsksWith(o, t) /\ pos' = PosWith(o, t)
  BY DEF Store
<1>6. OpenQty' = [OpenQty EXCEPT ![Book[o].side] = @ + (t.booked - ord[o].booked)]
  BY <1>2, <1>5 DEF OpenQty, Sides, BidsWith, AsksWith
<1> QED BY <1>2, <1>3, <1>4, <1>5, <1>6 DEF Stages, Trades, OpenQty

\* Each way a handler can move an order is a step of the ledger.
LEMMA MovedLedger ==
  ASSUME TypeOK, AllSound, AllTraced, AllPriced, NEW o \in Orders, NEW t, Moved(o, t)
  PROVE  [Ledger!Next]_(Ledger!ledger)
<1> DEFINE r == ord[o]
           side == Book[o].side
<1>1. t \in Order /\ Store(o, t)
  BY DEF Moved
<1>2. /\ Stages' = [Stages EXCEPT ![o] = StageOf(t)]
      /\ Trades' = [Trades EXCEPT ![o] = t.cumQty]
      /\ OpenQty' = [OpenQty EXCEPT ![side] = @ + (t.booked - r.booked)]
      /\ pos' = PosWith(o, t)
      /\ Stages[o] = StageOf(r) /\ Trades[o] = r.cumQty
      /\ OpenQty[side] = IF side = "Buy" THEN bids ELSE asks
      /\ side \in Sides
  BY <1>1, LedgerView
<1>3. /\ Stages \in [Orders -> {"Idle", "Open", "Closed"}]
      /\ OpenQty \in [Sides -> Int]
      /\ Trades = [x \in Orders |-> Trades[x]]
  BY DEF Stages, StageOf, Trades, OpenQty, TypeOK
<1>4. /\ r.qty \in Int /\ r.cumQty \in Int /\ r.booked \in Int /\ r.filled \in Int
      /\ r.qty = Book[o].qty /\ Book[o].qty \in Nat /\ r.cumQty <= r.qty
      /\ r.inTable <=> isOrderLive(r)
      /\ Book[o].price \in Prices
  BY OrderNumbers DEF AllPriced
<1>5. bids \in Int /\ asks \in Int /\ pos \in Int /\ MaxPos \in Int
  BY FlowAssumption DEF TypeOK
<1>6. t.filled \in Int /\ t.booked \in Int /\ t.cumQty \in Int
  BY <1>1 DEF Order
<1>7. r.inTable => StageOf(r) = "Open"
  BY <1>4 DEF StageOf, isOrderLive
<1>8. r.state = "Unknown" => StageOf(r) = "Idle" /\ r.cumQty = 0
  BY DEF StageOf, AllSound, Sound, BooksSound
<1>9. /\ t.filled = r.filled => pos' = pos
      /\ t.booked = r.booked => OpenQty' = OpenQty
      /\ t.cumQty = r.cumQty => Trades' = Trades
  BY <1>2, <1>3, <1>4, <1>5, <1>6 DEF PosWith, Sign
<1>10. side = "Buy" \/ side = "Sell"
  BY <1>2 DEF Sides
<1>11. CASE Kept(r, t)
  <2>1. StageOf(t) = StageOf(r)
    BY <1>11 DEF Kept, StageOf
  <2>2. Stages' = Stages
    BY <1>2, <1>3, <2>1
  <2>3. UNCHANGED <<Stages, Trades, OpenQty, pos>>
    BY <1>9, <1>11, <2>2 DEF Kept
  <2> QED BY <2>3 DEF Ledger!ledger, Stages, Trades, OpenQty
<1>12. CASE Opened(o, r, t)
  <2>1. /\ StageOf(t) = "Open" /\ Stages[o] = "Idle"
        /\ t.booked - r.booked = Book[o].qty
    BY <1>2, <1>4, <1>8, <1>12 DEF Opened, StageOf
  <2>2. Ledger!Worst(side, OpenQty[side] + Book[o].qty, pos) <= MaxPos
    <3>1. RiskAllows(o, t) /\ t.filled = r.filled
      BY <1>12 DEF Opened
    <3>2. PosWith(o, t) = pos
      BY <1>2, <1>9, <3>1
    <3> QED BY <1>2, <1>4, <1>5, <1>6, <1>10, <2>1, <3>1, <3>2
            DEF RiskAllows, BidsWith, AsksWith, Ledger!Worst
  <2>3. /\ Stages' = [Stages EXCEPT ![o] = "Open"]
        /\ OpenQty' = [OpenQty EXCEPT ![side] = @ + Book[o].qty]
        /\ UNCHANGED <<Trades, pos>>
    BY <1>2, <1>9, <1>12, <2>1 DEF Opened
  <2>4. Ledger!Open(o)
    BY <2>1, <2>2, <2>3 DEF Ledger!Open, Stages, Trades, OpenQty
  <2> QED BY <2>4 DEF Ledger!Next
<1>13. CASE Refused(o, r, t)
  <2>1. StageOf(t) = "Closed" /\ Stages[o] = "Idle"
    BY <1>2, <1>8, <1>13 DEF Refused, StageOf
  <2>2. Stages' = [Stages EXCEPT ![o] = "Closed"] /\ UNCHANGED <<Trades, OpenQty, pos>>
    BY <1>2, <1>4, <1>9, <1>13, <2>1 DEF Refused
  <2>3. Ledger!Refuse(o)
    BY <2>1, <2>2 DEF Ledger!Refuse, Stages, Trades, OpenQty
  <2> QED BY <2>3 DEF Ledger!Next
<1>14. CASE Ended(r, t)
  <2>1. StageOf(t) = "Closed" /\ Stages[o] = "Open"
    BY <1>2, <1>7, <1>14 DEF Ended, StageOf, Dead
  <2>2. t.booked - r.booked = -(Book[o].qty - r.cumQty)
    BY <1>4, <1>6, <1>14 DEF Ended
  <2>3. OpenQty' = [OpenQty EXCEPT ![side] = @ - (Book[o].qty - Trades[o])]
    <3>1. OpenQty[side] + (t.booked - r.booked) =
            OpenQty[side] - (Book[o].qty - Trades[o])
      BY <1>2, <1>3, <1>4, <1>6, <2>2
    <3> QED BY <1>2, <3>1
  <2>4. Stages' = [Stages EXCEPT ![o] = "Closed"] /\ UNCHANGED <<Trades, pos>>
    BY <1>2, <1>9, <1>14, <2>1 DEF Ended
  <2>5. Ledger!Close(o)
    BY <2>1, <2>3, <2>4 DEF Ledger!Close, Stages, Trades, OpenQty
  <2> QED BY <2>5 DEF Ledger!Next
<1>15. ASSUME NEW q \in Nat \ {0}, Traded(r, t, q)
       PROVE  Ledger!Trade(o)
  <2>1. /\ t.cumQty = r.cumQty + q /\ t.filled = r.filled + q
        /\ t.booked = r.booked - q /\ r.cumQty + q <= r.qty
    BY <1>15 DEF Traded
  <2>2. q \in 1 .. (Book[o].qty - Trades[o])
    BY <1>2, <1>4, <2>1
  <2>3. Trades' = [Trades EXCEPT ![o] = @ + q] /\ Trades'[o] = r.cumQty + q
    BY <1>2, <1>3, <2>1
  <2>4. OpenQty' = [OpenQty EXCEPT ![side] = @ - q]
    <3>1. OpenQty[side] + (t.booked - r.booked) = OpenQty[side] - q
      BY <1>2, <1>3, <1>4, <1>6, <2>1
    <3> QED BY <1>2, <3>1
  <2>5. pos' = pos + Ledger!Signed(o, q)
    BY <1>2, <1>4, <1>5, <1>10, <2>1 DEF PosWith, Sign, Ledger!Signed
  <2>6. StageOf(t) = IF r.cumQty + q = Book[o].qty THEN "Closed" ELSE "Open"
    <3>1. t.inTable <=> r.cumQty + q < r.qty
      BY <1>15 DEF Traded
    <3>2. t.state # "Unknown"
      BY <1>4, <1>15 DEF Traded, isOrderLive
    <3> QED BY <1>4, <2>1, <3>1, <3>2 DEF StageOf
  <2>7. Stages[o] = "Open"
    BY <1>2, <1>7, <1>15 DEF Traded
  <2>8. Stages' = [Stages EXCEPT ![o] =
                     IF Trades'[o] = Book[o].qty THEN "Closed" ELSE "Open"]
    BY <1>2, <2>3, <2>6
  <2> QED BY <2>2, <2>3, <2>4, <2>5, <2>7, <2>8
          DEF Ledger!Trade, Stages, Trades, OpenQty
<1> QED BY <1>11, <1>12, <1>13, <1>14, <1>15 DEF Moved, Ledger!Next

\* While the exchange busts no trade, and with orders created at valid prices, the
\* account sees a ledger: each step of strategies, session thread and exchange opens
\* one order within the limit, refuses one, trades part of one or closes one, and
\* moves the shared counters by that order's quantity, or it touches none of them.
THEOREM LedgerImplemented ==
  ASSUME AllPriced
  PROVE  Spec /\ [](breaks = 0) => ImplementsLedger
<1>1. Init => Ledger!Init
  <2> SUFFICES ASSUME Init PROVE Ledger!Init
    OBVIOUS
  <2>1. \A o \in Orders : ord[o].state = "Unknown" /\ ord[o].cumQty = 0
    BY DEF Init, createOrder
  <2>2. bids = 0 /\ asks = 0 /\ pos = 0
    BY DEF Init
  <2>3. [o \in Orders |-> StageOf(ord[o])] = [o \in Orders |-> "Idle"]
    BY <2>1 DEF StageOf
  <2>4. [o \in Orders |-> ord[o].cumQty] = [o \in Orders |-> 0]
    BY <2>1
  <2>5. [side \in Sides |-> IF side = "Buy" THEN bids ELSE asks] =
          [side \in {"Buy", "Sell"} |-> 0]
    BY <2>2 DEF Sides
  <2> QED BY <2>2, <2>3, <2>4, <2>5 DEF Ledger!Init
<1>2. AccountInv /\ breaks = 0 /\ [Next]_vars => [Ledger!Next]_(Ledger!ledger)
  <2> SUFFICES ASSUME AccountInv, breaks = 0, [Next]_vars
               PROVE  [Ledger!Next]_(Ledger!ledger)
    OBVIOUS
  <2>1. TypeOK /\ PickedThere /\ AllSound /\ AllTraced
    BY DEF AccountInv, FlowInv, BooksHold, TracesHold
  <2>2. CASE UNCHANGED <<ord, counters>>
    BY <2>2 DEF counters, Ledger!ledger
  <2>3. ASSUME NEW o \in Orders, Moved(o, ord'[o])
        PROVE  [Ledger!Next]_(Ledger!ledger)
    BY <2>1, <2>3, MovedLedger
  <2> QED BY <2>1, <2>2, <2>3, StepMoves
<1> QED BY <1>1, <1>2, AccountInvariant, PTL DEF Spec, ImplementsLedger, Ledger!Spec
================================================================================
