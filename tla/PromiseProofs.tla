---------------------------- MODULE PromiseProofs ----------------------------
(***************************************************************************)
(* What the books of SupplyChain amount to, handled one request at a time:  *)
(* the services implement StockPromise; and, when coordinators intervene,   *)
(* the coordination hub, whose orders keep a queue of reserved stock before *)
(* they have a shipment, accounts for every reservation.                   *)
(***************************************************************************)
EXTENDS WorkflowProofs

-----------------------------------------------------------------------------
(* The story StockPromise tells, read off the tables.                      *)

Free == Unspoilt([b \in Batches |-> stock[b].quantity - stock[b].reserved])
Sent == Unspoilt([b \in Batches |-> Opening[b] - stock[b].quantity])
MadeFor(o) == {i \in LiveShipments : shipment[i].order = o}
Held == [o \in Orders |-> Unspoilt(GoodsOf(MadeFor(o)))]
States == [o \in Orders |-> OrderState(o)]

(* The steps of the story, in these terms. *)
LEMMA Steps ==
  ASSUME NEW o \in Orders
  PROVE  /\ Promised!Place(o) <=>
              /\ States[o] = "none" /\ States' = [States EXCEPT ![o] = "open"]
              /\ UNCHANGED <<Free, Held, Sent>>
         /\ Promised!Refuse(o) <=>
              /\ States[o] = "open" /\ States' = [States EXCEPT ![o] = "void"]
              /\ UNCHANGED <<Free, Held, Sent>>
         /\ Promised!Finish(o) <=>
              /\ States[o] = "away" /\ States' = [States EXCEPT ![o] = "done"]
              /\ UNCHANGED <<Free, Held, Sent>>
         /\ Promised!CallOff(o) <=>
              /\ States[o] = "promised" /\ States' = [States EXCEPT ![o] = "void"]
              /\ Held' = [Held EXCEPT ![o] = Nothing]
              /\ Free' = [b \in Batches |-> Free[b] + Held[o][b]]
              /\ UNCHANGED Sent
         /\ Promised!Promise(o) <=>
              /\ States[o] = "open" /\ States' = [States EXCEPT ![o] = "promised"]
              /\ \E goods \in Promised!Bundle(Free) :
                   /\ Held' = [Held EXCEPT ![o] = goods]
                   /\ Free' = [b \in Batches |-> Free[b] - goods[b]]
              /\ UNCHANGED Sent
<1> USE DEF Free, Sent, Held, States, MadeFor
<1>1. Promised!Zero = Nothing
  BY DEF Promised!Zero, Nothing
<1>2. Promised!Place(o) <=>
        /\ States[o] = "none" /\ States' = [States EXCEPT ![o] = "open"]
        /\ UNCHANGED <<Free, Held, Sent>>
  BY DEF Promised!Place, Promised!Move
<1>3. Promised!Refuse(o) <=>
        /\ States[o] = "open" /\ States' = [States EXCEPT ![o] = "void"]
        /\ UNCHANGED <<Free, Held, Sent>>
  BY DEF Promised!Refuse, Promised!Move
<1>4. Promised!Finish(o) <=>
        /\ States[o] = "away" /\ States' = [States EXCEPT ![o] = "done"]
        /\ UNCHANGED <<Free, Held, Sent>>
  BY DEF Promised!Finish, Promised!Move
<1>5. Promised!CallOff(o) <=>
        /\ States[o] = "promised" /\ States' = [States EXCEPT ![o] = "void"]
        /\ Held' = [Held EXCEPT ![o] = Nothing]
        /\ Free' = [b \in Batches |-> Free[b] + Held[o][b]]
        /\ UNCHANGED Sent
  BY <1>1 DEF Promised!CallOff, Promised!Move
<1>6. Promised!Promise(o) <=>
        /\ States[o] = "open" /\ States' = [States EXCEPT ![o] = "promised"]
        /\ \E goods \in Promised!Bundle(Free) :
             /\ Held' = [Held EXCEPT ![o] = goods]
             /\ Free' = [b \in Batches |-> Free[b] - goods[b]]
        /\ UNCHANGED Sent
  BY DEF Promised!Promise, Promised!Move
<1> QED
  BY <1>2, <1>3, <1>4, <1>5, <1>6

LEMMA StepsOfMany ==
  /\ \A S : Promised!Ship(S) <=>
       /\ \A o \in S : States[o] = "promised"
       /\ States' = [o \in Orders |-> IF o \in S THEN "away" ELSE States[o]]
       /\ Held' = [o \in Orders |-> IF o \in S THEN Nothing ELSE Held[o]]
       /\ Sent' = [b \in Batches |-> Sent[b] + Total([o \in S |-> Held[o][b]])]
       /\ UNCHANGED Free
  /\ \A S : Promised!Spoil(S) <=>
       /\ Free' = [b \in Batches |-> IF b \in S THEN 0 ELSE Free[b]]
       /\ Held' = [o \in Orders |->
                     [b \in Batches |-> IF b \in S THEN 0 ELSE Held[o][b]]]
       /\ Sent' = [b \in Batches |-> IF b \in S THEN 0 ELSE Sent[b]]
       /\ UNCHANGED States
  /\ Promised!vars' = Promised!vars <=> UNCHANGED <<States, Free, Held, Sent>>
<1>1. Promised!Zero = Nothing
  BY DEF Promised!Zero, Nothing
<1>2. \A f : Promised!Total(f) = Total(f)
  BY DEF Promised!Total, Total, Promised!FoldFunction, FoldFunction,
     Promised!FoldFunctionOnSet, FoldFunctionOnSet, Promised!MapThenFoldSet, MapThenFoldSet
<1> USE DEF Free, Sent, Held, States, MadeFor
<1>3. ASSUME NEW S
      PROVE  Promised!Ship(S) <=>
               /\ \A o \in S : States[o] = "promised"
               /\ States' = [o \in Orders |-> IF o \in S THEN "away" ELSE States[o]]
               /\ Held' = [o \in Orders |-> IF o \in S THEN Nothing ELSE Held[o]]
               /\ Sent' = [b \in Batches |-> Sent[b] + Total([o \in S |-> Held[o][b]])]
               /\ UNCHANGED Free
  BY <1>1, <1>2 DEF Promised!Ship
<1>4. ASSUME NEW S
      PROVE  Promised!Spoil(S) <=>
               /\ Free' = [b \in Batches |-> IF b \in S THEN 0 ELSE Free[b]]
               /\ Held' = [o \in Orders |->
                             [b \in Batches |-> IF b \in S THEN 0 ELSE Held[o][b]]]
               /\ Sent' = [b \in Batches |-> IF b \in S THEN 0 ELSE Sent[b]]
               /\ UNCHANGED States
  BY DEF Promised!Spoil
<1>5. Promised!vars' = Promised!vars <=> UNCHANGED <<States, Free, Held, Sent>>
  BY DEF Promised!vars
<1> QED
  BY <1>3, <1>4, <1>5

(* The state of an order in the story. *)
KindOf(status) ==
  CASE status \in {"pending", "coordinating"} -> "open"
    [] status \in {"approved", "picking"} -> "promised"
    [] status = "delivering" -> "away"
    [] status \in {"completed", "claimed"} -> "done"
    [] status \in {"rejected", "cancelled"} -> "void"

LEMMA Kinds ==
  /\ KindOf("pending") = "open" /\ KindOf("coordinating") = "open"
  /\ KindOf("approved") = "promised" /\ KindOf("picking") = "promised"
  /\ KindOf("delivering") = "away"
  /\ KindOf("completed") = "done" /\ KindOf("claimed") = "done"
  /\ KindOf("rejected") = "void" /\ KindOf("cancelled") = "void"
<1>1. KindOf("pending") = "open" /\ KindOf("coordinating") = "open"
  BY DEF KindOf
<1>2. KindOf("approved") = "promised" /\ KindOf("picking") = "promised"
  BY DEF KindOf
<1>3. KindOf("delivering") = "away"
  BY DEF KindOf
<1>4. KindOf("completed") = "done" /\ KindOf("claimed") = "done"
  BY DEF KindOf
<1>5. KindOf("rejected") = "void" /\ KindOf("cancelled") = "void"
  BY DEF KindOf
<1> QED
  BY <1>1, <1>2, <1>3, <1>4, <1>5

LEMMA StatesOf ==
  /\ DOMAIN States = Orders
  /\ \A o \in Orders : States[o] = IF o \notin Placed THEN "none" ELSE KindOf(order[o].status)
BY DEF States, OrderState, KindOf

LEMMA StatesBecome ==
  ASSUME Typed, NEW O \in SUBSET Placed, NEW ost, Become(O, ost)
  PROVE  States' = [o \in Orders |-> IF o \in O THEN KindOf(ost) ELSE States[o]]
<1>1. Placed' = Placed /\ Placed \subseteq Orders
  BY DEF Become, Typed, OrdersOK
<1>2. States' = [o \in Orders |-> IF o \notin Placed' THEN "none" ELSE KindOf(order'[o].status)]
  BY DEF States, OrderState, KindOf
<1>3. ASSUME NEW o \in Orders
      PROVE  (IF o \notin Placed' THEN "none" ELSE KindOf(order'[o].status))
               = IF o \in O THEN KindOf(ost) ELSE States[o]
  <2>1. CASE o \notin Placed
    BY <1>1, <2>1, StatesOf
  <2>2. CASE o \in Placed
    <3>1. order'[o].status = IF o \in O THEN ost ELSE order[o].status
      BY <2>2 DEF Become
    <3> QED
      BY <1>1, <2>2, <3>1, StatesOf
  <2> QED
    BY <2>1, <2>2
<1> QED
  BY <1>2, <1>3

(* One order moves, or none does that the story tells apart. *)
LEMMA StateBecomes ==
  ASSUME Typed, NEW o \in Placed, NEW ost, Become({o}, ost)
  PROVE  /\ States[o] = KindOf(order[o].status)
         /\ States' = [States EXCEPT ![o] = KindOf(ost)]
<1>1. o \in Orders /\ States[o] = KindOf(order[o].status)
  BY StatesOf DEF Typed, OrdersOK
<1>2. States' = [p \in Orders |-> IF p \in {o} THEN KindOf(ost) ELSE States[p]]
  BY StatesBecome
<1>3. States = [p \in Orders |-> States[p]]
  BY DEF States
<1> QED
  BY <1>1, <1>2, <1>3

LEMMA SameStates ==
  ASSUME Typed, NEW O \in SUBSET Placed, NEW ost, Become(O, ost),
         \A o \in O : KindOf(order[o].status) = KindOf(ost)
  PROVE  UNCHANGED States
<1>1. States' = [o \in Orders |-> IF o \in O THEN KindOf(ost) ELSE States[o]]
  BY StatesBecome
<1>2. \A o \in O : States[o] = KindOf(ost)
  BY StatesOf DEF Typed, OrdersOK
<1>3. States = [o \in Orders |-> States[o]]
  BY DEF States
<1> QED
  BY <1>1, <1>2, <1>3

LEMMA SameOrders ==
  ASSUME Typed, UNCHANGED order
  PROVE  UNCHANGED States
<1>1. Become({}, "pending") /\ {} \in SUBSET Placed
  BY DEF Become, Placed
<1> QED
  BY <1>1, SameStates

(* The goods of the story, batch by batch. *)
Story ==
  /\ Free = [b \in Batches |-> Free[b]] /\ Sent = [b \in Batches |-> Sent[b]]
  /\ DOMAIN Held = Orders
  /\ \A o \in Orders : Held[o] = [b \in Batches |-> Held[o][b]]
  /\ \A b \in Batches :
       /\ stock[b].status \in {"available", "expired"}
       /\ Free[b] \in Nat /\ Sent[b] \in Int
       /\ stock[b].status = "expired" =>
            /\ Free[b] = 0 /\ Sent[b] = 0
            /\ \A o \in Orders : Held[o][b] = 0
       /\ stock[b].status = "available" =>
            /\ Free[b] = Opening[b] - GoodsOf(Gone)[b] - GoodsOf(LiveShipments)[b]
            /\ Free[b] = stock[b].quantity - stock[b].reserved
            /\ Sent[b] = GoodsOf(Gone)[b]
            /\ \A o \in Orders : Held[o][b] = GoodsOf(MadeFor(o))[b]

LEMMA StoryGoods == Typed /\ Booked => Story
<1> SUFFICES ASSUME Typed, Booked PROVE Story
  OBVIOUS
<1>1. Free = [b \in Batches |-> Free[b]] /\ Sent = [b \in Batches |-> Sent[b]]
  BY DEF Free, Sent, Unspoilt
<1>2. DOMAIN Held = Orders /\ \A o \in Orders : Held[o] = [b \in Batches |-> Held[o][b]]
  BY DEF Held, Unspoilt
<1>3. ASSUME NEW b \in Batches
      PROVE  /\ stock[b].status \in {"available", "expired"}
             /\ Free[b] \in Nat /\ Sent[b] \in Int
             /\ stock[b].status = "expired" =>
                  /\ Free[b] = 0 /\ Sent[b] = 0
                  /\ \A o \in Orders : Held[o][b] = 0
             /\ stock[b].status = "available" =>
                  /\ Free[b] = Opening[b] - GoodsOf(Gone)[b] - GoodsOf(LiveShipments)[b]
                  /\ Free[b] = stock[b].quantity - stock[b].reserved
                  /\ Sent[b] = GoodsOf(Gone)[b]
                  /\ \A o \in Orders : Held[o][b] = GoodsOf(MadeFor(o))[b]
  <2>1. /\ Free[b] = IF stock[b].status = "expired" THEN 0
                     ELSE stock[b].quantity - stock[b].reserved
        /\ Sent[b] = IF stock[b].status = "expired" THEN 0
                     ELSE Opening[b] - stock[b].quantity
        /\ \A o \in Orders : Held[o][b] = IF stock[b].status = "expired" THEN 0
                                          ELSE GoodsOf(MadeFor(o))[b]
    BY DEF Free, Sent, Held, Unspoilt
  <2>2. /\ stock[b].status \in {"available", "expired"}
        /\ stock[b].quantity = Opening[b] - GoodsOf(Gone)[b]
        /\ stock[b].status = "available" => /\ stock[b].reserved = GoodsOf(LiveShipments)[b]
                                            /\ stock[b].reserved <= stock[b].quantity
    BY DEF Booked
  <2>3. /\ stock[b].quantity \in Int /\ stock[b].reserved \in Int /\ Opening[b] \in Nat
        /\ GoodsOf(Gone)[b] \in Nat /\ GoodsOf(LiveShipments)[b] \in Nat
    BY StockFacts
  <2> QED
    BY <2>1, <2>2, <2>3
<1> QED
  BY <1>1, <1>2, <1>3 DEF Story

(* ... before and after a step. *)
LEMMA StoryGoodsNext == Typed' /\ Booked' => Story'
BY StoryGoods, PTL

(* What the orders of O hold is what their shipments S hold.               *)
LEMMA HeldByOrders ==
  ASSUME Typed, Booked, OneEach, NEW S \in SUBSET LiveShipments, NEW O \in SUBSET Orders,
         \A i \in LiveShipments : shipment[i].order \in O <=> i \in S,
         NEW b \in Batches
  PROVE  /\ stock[b].status = "expired" => Total([o \in O |-> Held[o][b]]) = 0
         /\ stock[b].status = "available" =>
              Total([o \in O |-> Held[o][b]]) = GoodsOf(S)[b]
<1> DEFINE g == [o \in O |-> Held[o][b]]
<1>1. IsFiniteSet(O) /\ DOMAIN g = O /\ \A o \in O : g[o] = Held[o][b]
  BY FS_Subset, FulfilmentAssumption
<1>2. S \in SUBSET DOMAIN shipment /\ \A i \in S : shipment[i].order \in O
  BY DEF LiveShipments
<1> HIDE DEF g
<1>3. Total(g) = SumOver(g, O)
  BY <1>1, TotalIsSum
<1>4. CASE stock[b].status = "expired"
  <2>1. \A o \in O : g[o] = 0
    BY <1>1, <1>4, StoryGoods DEF Story
  <2>2. Total(g) = 0
    BY <1>1, <1>3, <2>1, SumOfZeros
  <2> QED
    BY <1>4, <2>2 DEF g
<1>5. CASE stock[b].status = "available"
  <2>1. PICK key : key = [i \in S |-> shipment[i].order]
    OBVIOUS
  <2>2. PICK I : I = {key[i] : i \in S}
    OBVIOUS
  <2>3. PICK f : f = HeldOf(b)
    OBVIOUS
  <2>4. /\ IsFiniteSet(S) /\ GoodsOf(S)[b] = SumOver(f, S)
        /\ \A i \in DOMAIN shipment : f[i] \in Nat /\ f[i] = Goods(shipment[i].items)[b]
    BY <1>2, <2>3, GoodsOfSum DEF HeldOf, Nats
  <2>5. \A i, j \in S : key[i] = key[j] => i = j
    BY <1>2, <2>1 DEF OneEach
  <2>6. ASSUME NEW o \in O
        PROVE  /\ g[o] = GoodsOf(MadeFor(o))[b]
               /\ o \in I => \E i \in S : shipment[i].order = o /\ MadeFor(o) = {i}
               /\ o \notin I => MadeFor(o) = {}
    <3>1. g[o] = GoodsOf(MadeFor(o))[b]
      BY <1>1, <1>5, StoryGoods DEF Story
    <3>2. MadeFor(o) = {i \in S : shipment[i].order = o}
      BY DEF MadeFor
    <3>3. \A i \in S : shipment[i].order = o => MadeFor(o) = {i}
      BY <1>2, <3>2 DEF OneEach
    <3>4. o \in I <=> \E i \in S : shipment[i].order = o
      BY <2>1, <2>2
    <3> QED
      BY <3>1, <3>2, <3>3, <3>4
  <2>7. \A i \in S : g[key[i]] = f[i] /\ f[i] \in Int
    <3> SUFFICES ASSUME NEW i \in S PROVE g[key[i]] = f[i] /\ f[i] \in Int
      OBVIOUS
    <3>1. key[i] \in O /\ key[i] = shipment[i].order
      BY <1>2, <2>1
    <3>2. MadeFor(key[i]) = {i}
      BY <1>2, <2>2, <2>6, <3>1 DEF OneEach
    <3>3. GoodsOf({i})[b] = f[i] /\ f[i] \in Nat
      BY <1>2, <2>4, GoodsOfParts
    <3>4. g[key[i]] = GoodsOf(MadeFor(key[i]))[b]
      BY <2>6, <3>1
    <3>5. g[key[i]] = GoodsOf({i})[b]
      BY <3>2, <3>4, Zenon
    <3> QED
      BY <3>3, <3>5
  <2>8. IsFiniteSet(I) /\ SumOver(g, I) = SumOver(f, S)
    BY <2>2, <2>4, <2>5, <2>7, SumRenamed
  <2>9. \A o \in O \ I : g[o] = 0
    <3>1. GoodsOf({})[b] = 0
      BY GoodsOfParts
    <3> QED
      BY <2>6, <3>1
  <2>10. /\ IsFiniteSet(O \ I) /\ I \cap (O \ I) = {} /\ I \cup (O \ I) = O
         /\ Ints(g, I) /\ Ints(g, O \ I)
    <3>1. I \subseteq O
      BY <1>2, <2>1, <2>2
    <3>2. Ints(g, I) /\ Ints(g, O \ I)
      BY <2>2, <2>7, <2>9 DEF Ints
    <3> QED
      BY <1>1, <3>1, <3>2, FS_Subset
  <2>11. SumOver(g, O) = SumOver(g, I) + SumOver(g, O \ I)
    BY <2>8, <2>10, SumUnion
  <2>12. SumOver(g, O \ I) = 0
    BY <2>9, <2>10, SumOfZeros
  <2>13. SumOver(g, I) \in Int
    BY <2>8, <2>10, SumType
  <2>14. Total(g) = GoodsOf(S)[b]
    BY <1>3, <2>4, <2>8, <2>11, <2>12, <2>13
  <2> QED
    BY <1>5, <2>14 DEF g
<1> QED
  BY <1>4, <1>5, StoryGoods DEF Story

(* The shipments S of the orders O end their preparation: their goods are   *)
(* free again, or have left.                                               *)
LEMMA GoodsMove ==
  ASSUME Typed, OneEach, InStep, Booked, Typed', Booked', LoadsFixed,
         \A b \in Batches : stock'[b].status = stock[b].status,
         NEW S \in SUBSET LiveShipments, LiveShipments' = LiveShipments \ S,
         NEW out \in {{}, S}, Gone' = Gone \cup out,
         NEW O \in SUBSET Orders,
         \A i \in LiveShipments : shipment[i].order \in O <=> i \in S
  PROVE  /\ Held' = [o \in Orders |-> IF o \in O THEN Nothing ELSE Held[o]]
         /\ out = {} =>
              /\ Free' = [b \in Batches |-> Free[b] + Total([o \in O |-> Held[o][b]])]
              /\ UNCHANGED Sent
         /\ out = S =>
              /\ Sent' = [b \in Batches |-> Sent[b] + Total([o \in O |-> Held[o][b]])]
              /\ UNCHANGED Free
<1>1. PICK L : L = LiveShipments
  OBVIOUS
<1>2. PICK G : G = Gone
  OBVIOUS
<1>3. /\ L \in SUBSET DOMAIN shipment /\ G \in SUBSET DOMAIN shipment /\ S \in SUBSET L
      /\ out \in SUBSET S /\ S \cap G = {} /\ S \in SUBSET DOMAIN shipment
      /\ out \in SUBSET DOMAIN shipment /\ L \ S \in SUBSET DOMAIN shipment
      /\ G \cup out \in SUBSET DOMAIN shipment
  BY <1>1, <1>2 DEF LiveShipments, Gone, Live, InStep
<1>4. LiveShipments' = L \ S /\ Gone' = G \cup out
  BY <1>1, <1>2
<1>5. \A T \in SUBSET DOMAIN shipment : GoodsOf(T)' = GoodsOf(T)
  <2>1. ShipmentsOK'
    BY DEF Typed
  <2> QED
    BY <2>1, GoodsOfKept
<1>6. Story /\ Story'
  BY StoryGoods, StoryGoodsNext
<1>7. ASSUME NEW b \in Batches, stock[b].status = "available"
      PROVE  /\ GoodsOf(LiveShipments)'[b] = GoodsOf(L)[b] - GoodsOf(S)[b]
             /\ GoodsOf(Gone)'[b] = GoodsOf(G)[b] + GoodsOf(out)[b]
             /\ GoodsOf(L)[b] \in Nat /\ GoodsOf(S)[b] \in Nat /\ GoodsOf(G)[b] \in Nat
             /\ GoodsOf(out)[b] = IF out = {} THEN 0 ELSE GoodsOf(S)[b]
             /\ Total([o \in O |-> Held[o][b]]) = GoodsOf(S)[b]
  <2>1. /\ (L \ S) \cap S = {} /\ (L \ S) \cup S = L /\ G \cap out = {}
    BY <1>3
  <2>2. /\ GoodsOf((L \ S) \cup S)[b] = GoodsOf(L \ S)[b] + GoodsOf(S)[b]
        /\ GoodsOf(G \cup out)[b] = GoodsOf(G)[b] + GoodsOf(out)[b]
        /\ GoodsOf({})[b] = 0
    BY <1>3, <2>1, GoodsOfParts
  <2>3. /\ GoodsOf(L)[b] \in Nat /\ GoodsOf(S)[b] \in Nat /\ GoodsOf(G)[b] \in Nat
        /\ GoodsOf(L \ S)[b] \in Nat
    BY <1>3, GoodsOfSum
  <2>4. GoodsOf(L \ S)' = GoodsOf(L \ S) /\ GoodsOf(G \cup out)' = GoodsOf(G \cup out)
    BY <1>3, <1>5
  <2>5. GoodsOf(LiveShipments)'[b] = GoodsOf(L \ S)'[b]
    BY <1>4 DEF GoodsOf
  <2>6. GoodsOf(Gone)'[b] = GoodsOf(G \cup out)'[b]
    BY <1>4 DEF GoodsOf
  <2>7. GoodsOf(L)[b] = GoodsOf(L \ S)[b] + GoodsOf(S)[b]
    BY <2>1, <2>2
  <2>8. GoodsOf(out)[b] = IF out = {} THEN 0 ELSE GoodsOf(S)[b]
    BY <2>2
  <2>9. Total([o \in O |-> Held[o][b]]) = GoodsOf(S)[b]
    BY <1>7, HeldByOrders
  <2> QED
    BY <2>2, <2>3, <2>4, <2>5, <2>6, <2>7, <2>8, <2>9
<1>8. ASSUME NEW b \in Batches
      PROVE  /\ out = {} => /\ Free'[b] = Free[b] + Total([o \in O |-> Held[o][b]])
                            /\ Sent'[b] = Sent[b]
             /\ out = S => /\ Sent'[b] = Sent[b] + Total([o \in O |-> Held[o][b]])
                           /\ Free'[b] = Free[b]
  <2>1. PICK held : held = Total([o \in O |-> Held[o][b]])
    OBVIOUS
  <2>2. CASE stock[b].status = "expired"
    <3>1. held = 0
      BY <2>1, <2>2, HeldByOrders
    <3>2. Free'[b] = 0 /\ Sent'[b] = 0 /\ Free[b] = 0 /\ Sent[b] = 0
      BY <1>6, <2>2 DEF Story
    <3> QED
      BY <2>1, <3>1, <3>2
  <2>3. CASE stock[b].status = "available"
    <3>1. /\ Free'[b] = Opening[b] - GoodsOf(Gone)'[b] - GoodsOf(LiveShipments)'[b]
          /\ Sent'[b] = GoodsOf(Gone)'[b]
          /\ Free[b] = Opening[b] - GoodsOf(G)[b] - GoodsOf(L)[b]
          /\ Sent[b] = GoodsOf(G)[b] /\ Opening[b] \in Nat
      BY <1>1, <1>2, <1>6, <2>3, FulfilmentAssumption DEF Story
    <3>2. /\ GoodsOf(LiveShipments)'[b] = GoodsOf(L)[b] - GoodsOf(S)[b]
          /\ GoodsOf(Gone)'[b] = GoodsOf(G)[b] + GoodsOf(out)[b]
          /\ GoodsOf(L)[b] \in Nat /\ GoodsOf(S)[b] \in Nat /\ GoodsOf(G)[b] \in Nat
          /\ GoodsOf(out)[b] = IF out = {} THEN 0 ELSE GoodsOf(S)[b]
          /\ held = GoodsOf(S)[b]
      BY <1>7, <2>1, <2>3
    <3>3. CASE out = {}
      <4>1. out = S => GoodsOf(S)[b] = 0
        BY <3>3, GoodsOfParts
      <4> QED
        BY <2>1, <3>1, <3>2, <3>3, <4>1
    <3>4. CASE out # {}
      BY <2>1, <3>1, <3>2, <3>4
    <3> QED
      BY <3>3, <3>4
  <2> QED
    BY <1>6, <2>2, <2>3 DEF Story
<1>9. ASSUME NEW o \in Orders
      PROVE  Held'[o] = IF o \in O THEN Nothing ELSE Held[o]
  <2>1. MadeFor(o)' = MadeFor(o) \ S /\ MadeFor(o) \in SUBSET L
    BY <1>1, <1>3, <1>4 DEF MadeFor, LoadsFixed, SameLoad
  <2>2. MadeFor(o)' = IF o \in O THEN {} ELSE MadeFor(o)
    BY <1>1, <2>1 DEF MadeFor
  <2>3. ASSUME NEW b \in Batches
        PROVE  Held'[o][b] = IF o \in O THEN 0 ELSE Held[o][b]
    <3>1. CASE stock[b].status = "expired"
      BY <1>6, <3>1 DEF Story
    <3>2. CASE stock[b].status = "available"
      <4>1. Held'[o][b] = GoodsOf(MadeFor(o))'[b] /\ Held[o][b] = GoodsOf(MadeFor(o))[b]
        BY <1>6, <3>2 DEF Story
      <4>2. PICK M : M = IF o \in O THEN {} ELSE MadeFor(o)
        OBVIOUS
      <4>3. GoodsOf(MadeFor(o))'[b] = GoodsOf(M)'[b]
        BY <2>2, <4>2 DEF GoodsOf
      <4>4. GoodsOf(M)' = GoodsOf(M)
        BY <1>3, <1>5, <2>1, <4>2
      <4>5. GoodsOf({})[b] = 0
        BY GoodsOfParts
      <4>6. CASE o \in O
        <5>1. M = {}
          BY <4>2, <4>6
        <5> QED
          BY <4>1, <4>3, <4>4, <4>5, <4>6, <5>1
      <4>7. CASE o \notin O
        <5>1. M = MadeFor(o)
          BY <4>2, <4>7
        <5>2. GoodsOf(M)[b] = GoodsOf(MadeFor(o))[b]
          BY <5>1 DEF GoodsOf
        <5> QED
          BY <4>1, <4>3, <4>4, <4>7, <5>2
      <4> QED
        BY <4>6, <4>7
    <3> QED
      BY <1>6, <3>1, <3>2 DEF Story
  <2>4. Held'[o] = [b \in Batches |-> Held'[o][b]] /\ Held[o] = [b \in Batches |-> Held[o][b]]
    BY <1>6 DEF Story
  <2> QED
    BY <2>3, <2>4 DEF Nothing
<1>10. Held' = [o \in Orders |-> Held'[o]]
  BY DEF Held
<1>11. Held' = [o \in Orders |-> IF o \in O THEN Nothing ELSE Held[o]]
  BY <1>9, <1>10
<1>12. out = {} => /\ Free' = [b \in Batches |-> Free[b] + Total([o \in O |-> Held[o][b]])]
                   /\ UNCHANGED Sent
  BY <1>6, <1>8 DEF Story
<1>13. out = S => /\ Sent' = [b \in Batches |-> Sent[b] + Total([o \in O |-> Held[o][b]])]
                  /\ UNCHANGED Free
  BY <1>6, <1>8 DEF Story
<1> QED
  BY <1>11, <1>12, <1>13

(* Nothing the story tells of the goods changes. *)
LEMMA GoodsStay ==
  ASSUME Typed, OneEach, InStep, Booked, Typed', Booked', LoadsFixed,
         \A b \in Batches : stock'[b].status = stock[b].status,
         \A i \in DOMAIN shipment : /\ Live(i)' <=> Live(i)
                                    /\ shipment'[i].shipped = shipment[i].shipped
  PROVE  UNCHANGED <<Free, Held, Sent>>
<1>1. /\ LiveShipments' = LiveShipments \ {} /\ Gone' = Gone \cup {}
      /\ {} \in SUBSET LiveShipments
  BY DEF LiveShipments, Gone, LoadsFixed
<1>2. {} \in SUBSET Orders /\ {} \in {{}, {}}
      /\ \A i \in LiveShipments : shipment[i].order \in {} <=> i \in {}
  OBVIOUS
<1>3. /\ Held' = [o \in Orders |-> IF o \in {} THEN Nothing ELSE Held[o]]
      /\ Free' = [b \in Batches |-> Free[b] + Total([o \in {} |-> Held[o][b]])]
      /\ UNCHANGED Sent
  BY <1>1, <1>2, GoodsMove
<1>4. ASSUME NEW b \in Batches PROVE Total([o \in {} |-> Held[o][b]]) = 0
  <2> DEFINE g == [o \in {} |-> Held[o][b]]
  <2>1. DOMAIN g = {}
    OBVIOUS
  <2> HIDE DEF g
  <2>2. Total(g) = 0
    BY <2>1, TotalIsSum, SumEmpty
  <2> QED
    BY <2>2 DEF g
<1>5. Story
  BY StoryGoods
<1>6. Held' = Held
  BY <1>3 DEF Held
<1>7. Free' = Free
  BY <1>3, <1>4, <1>5 DEF Story
<1> QED
  BY <1>3, <1>6, <1>7

(* Neither the shipments nor the spoilt batches change. *)
LEMMA GoodsUntouched ==
  ASSUME Typed, OneEach, InStep, Booked, Typed', Booked', UNCHANGED shipment,
         \A b \in Batches : stock'[b].status = stock[b].status
  PROVE  UNCHANGED <<Free, Held, Sent>>
<1>1. LoadsFixed
  BY NothingMoves
<1>2. \A i \in DOMAIN shipment : /\ Live(i)' <=> Live(i)
                                 /\ shipment'[i].shipped = shipment[i].shipped
  BY DEF Live
<1> QED
  BY <1>1, <1>2, GoodsStay

(* Whoever has no shipment holds nothing. *)
LEMMA HoldsNothing ==
  ASSUME Typed, Booked, NEW o \in Orders, PrimaryShipments(o) = {}
  PROVE  Held[o] = Nothing
<1>1. MadeFor(o) = {}
  BY DEF MadeFor, PrimaryShipments, LiveShipments
<1>2. ASSUME NEW b \in Batches PROVE Held[o][b] = 0
  <2>1. GoodsOf(MadeFor(o))[b] = GoodsOf({})[b] /\ GoodsOf({})[b] = 0
    BY <1>1, GoodsOfParts DEF GoodsOf
  <2> QED
    BY <2>1, StoryGoods DEF Story
<1> QED
  BY <1>2, StoryGoods DEF Story, Nothing

(* What one order holds is the sum of it. *)
LEMMA HeldByOne ==
  ASSUME Typed, Booked, NEW o \in Orders, NEW b \in Batches
  PROVE  Total([p \in {o} |-> Held[p][b]]) = Held[o][b]
<1> DEFINE g == [p \in {o} |-> Held[p][b]]
<1>1. DOMAIN g = {o} /\ g[o] = Held[o][b]
  OBVIOUS
<1>2. Held[o][b] \in Int
  <2>1. MadeFor(o) \in SUBSET DOMAIN shipment
    BY DEF MadeFor, LiveShipments
  <2>2. GoodsOf(MadeFor(o))[b] \in Nat
    BY <2>1, GoodsOfSum
  <2> QED
    BY <2>2, StoryGoods DEF Story
<1> HIDE DEF g
<1>3. Total(g) = Held[o][b]
  BY <1>1, <1>2, TotalIsSum, SumSingle
<1> QED
  BY <1>3 DEF g

(* Any part of what is free may be promised.                               *)
LEMMA MayPromise ==
  ASSUME Typed, Booked, NEW goods \in Bundles, \A b \in Batches : goods[b] <= Free[b]
  PROVE  goods \in Promised!Bundle(Free)
<1>1. \A b \in Batches : Free[b] \in Nat /\ goods[b] \in 0..Free[b]
  BY StoryGoods DEF Story, Bundles
<1>2. goods \in [Batches -> UNION {0..Free[b] : b \in Batches}]
  BY <1>1 DEF Bundles
<1> QED
  BY <1>2 DEF Promised!Bundle

-----------------------------------------------------------------------------
(* What each handler tells.                                                *)

Told == Promised!Next \/ UNCHANGED Promised!vars

LEMMA OneTells ==
  ASSUME NEW o \in Orders,
         \/ Promised!Place(o) \/ Promised!Promise(o) \/ Promised!Refuse(o)
         \/ Promised!CallOff(o) \/ Promised!Finish(o)
  PROVE  Told
BY DEF Told, Promised!Next

LEMMA ManyTell ==
  /\ \A S \in SUBSET Orders : Promised!Ship(S) => Told
  /\ \A S \in SUBSET Batches : Promised!Spoil(S) => Told
  /\ UNCHANGED <<States, Free, Held, Sent>> => Told
BY StepsOfMany DEF Told, Promised!Next

(* An order that was open is turned down. *)
LEMMA RefusalTold ==
  ASSUME Kept, Kept', NEW o \in Placed, order[o].status \in {"pending", "coordinating"},
         NEW st \in {"rejected", "cancelled"}, Become({o}, st), UNCHANGED shipment,
         \A b \in Batches : stock'[b].status = stock[b].status
  PROVE  Told
<1>1. o \in Orders
  BY DEF Kept, Typed, OrdersOK
<1>2. States[o] = KindOf(order[o].status) /\ States' = [States EXCEPT ![o] = KindOf(st)]
  BY StateBecomes DEF Kept
<1>3. States[o] = "open" /\ States' = [States EXCEPT ![o] = "void"]
  BY <1>2, Kinds
<1>4. UNCHANGED <<Free, Held, Sent>>
  BY GoodsUntouched DEF Kept, Tracked
<1>5. Promised!Refuse(o)
  BY <1>1, <1>3, <1>4, Steps
<1> QED
  BY <1>1, <1>5, OneTells

LEMMA CreateTold ==
  ASSUME Kept, Kept', NEW o \in Orders, createOrder(o)
  PROVE  Told
<1>1. /\ o \notin Placed /\ Placed' = Placed \cup {o}
      /\ \A p \in Placed : order'[p] = order[p]
      /\ order'[o].status = "pending" /\ UNCHANGED <<stock, shipment>>
  BY OrderCreated DEF Kept
<1>2. States[o] = "none"
  BY <1>1, StatesOf
<1>3. States' = [p \in Orders |-> IF p \notin Placed' THEN "none" ELSE KindOf(order'[p].status)]
  BY DEF States, OrderState, KindOf
<1>4. \A p \in Orders : (IF p \notin Placed' THEN "none" ELSE KindOf(order'[p].status))
                          = IF p = o THEN "open" ELSE States[p]
  BY <1>1, StatesOf, Kinds
<1>5. States = [p \in Orders |-> States[p]]
  BY DEF States
<1>6. States' = [States EXCEPT ![o] = "open"]
  BY <1>3, <1>4, <1>5
<1>7. UNCHANGED <<Free, Held, Sent>>
  BY <1>1, GoodsUntouched DEF Kept, Tracked
<1>8. Promised!Place(o)
  BY <1>2, <1>6, <1>7, Steps
<1> QED
  BY <1>8, OneTells

(* The kitchen's word, without goods. *)
LEMMA ConfirmTold ==
  ASSUME Kept, Kept', NEW c \in Clients, kitchenProductionConfirm(c)
  PROVE  Told
<1>1. PICK o : o = OrderOf(c)
  OBVIOUS
<1>2. o \in Placed /\ order[o].status \in {"pending", "coordinating"} /\ o \in Orders
  BY <1>1, StatusRead
     DEF Kept, Tracked, kitchenProductionConfirm, Handles, AboutOneOrder, Typed, OrdersOK
<1>3. PrimaryShipments(o) = {}
  BY <1>2, NoShipmentYet DEF Kept, Tracked
<1>4. UNCHANGED shipment
  BY DEF kitchenProductionConfirm
<1>5. CASE refuseProduction(o)
  <2>1. PICK give \in ToRelease(o) : stock' = Released(stock, give)
    BY <1>5 DEF refuseProduction
  <2>2. give \in Bundles
    BY <1>2, <2>1, ReleaseIsShipment DEF Kept
  <2>3. \A b \in Batches : stock'[b].status = stock[b].status
    BY <2>1, <2>2, StockColumns DEF Kept
  <2>4. Become({o}, "rejected")
    BY <1>5, OneBecomes DEF refuseProduction, Kept
  <2> QED
    BY <1>2, <1>4, <2>3, <2>4, RefusalTold
<1>6. CASE acceptProduction(o)
  <2>1. Become({o}, "approved") /\ UNCHANGED stock
    BY <1>6, OneBecomes DEF acceptProduction, Kept
  <2>2. States[o] = KindOf(order[o].status) /\ States' = [States EXCEPT ![o] = KindOf("approved")]
    BY <1>2, <2>1, StateBecomes DEF Kept
  <2>3. States[o] = "open" /\ States' = [States EXCEPT ![o] = "promised"]
    BY <1>2, <2>2, Kinds
  <2>4. UNCHANGED <<Free, Held, Sent>>
    BY <1>4, <2>1, GoodsUntouched DEF Kept, Tracked
  <2>5. Held[o] = Nothing /\ Story
    BY <1>2, <1>3, HoldsNothing, StoryGoods DEF Kept
  <2>6. Held' = [Held EXCEPT ![o] = Nothing]
    BY <1>2, <2>4, <2>5 DEF Held
  <2>7. Nothing \in Bundles /\ \A b \in Batches : Nothing[b] = 0
    BY DEF Nothing, Bundles
  <2>8. Nothing \in Promised!Bundle(Free)
    BY <2>5, <2>7, MayPromise DEF Kept, Story
  <2>9. Free' = [b \in Batches |-> Free[b] - Nothing[b]]
    BY <2>4, <2>5, <2>7 DEF Story
  <2>10. Promised!Promise(o)
    BY <1>2, <2>3, <2>4, <2>6, <2>8, <2>9, Steps
  <2> QED
    BY <1>2, <2>10, OneTells
<1> QED
  BY <1>1, <1>5, <1>6 DEF kitchenProductionConfirm

(* An approval promises what it takes. *)
LEMMA ApprovalTold ==
  ASSUME Kept, Kept', NEW c \in Clients, Handles(c, "approve"), applyApproval(OrderOf(c))
  PROVE  Told
<1>1. PICK o : o = OrderOf(c)
  OBVIOUS
<1>2. PICK take : take = Taken(o)
  OBVIOUS
<1>3. PICK row : row = NewShipment(o, {o}, o, "preparing", ItemsOf(take, FirstLine[o]))
  OBVIOUS
<1>4. PICK n : n = Len(shipment) + 1
  OBVIOUS
<1>5. /\ o \in Placed /\ PrimaryShipments(o) = {} /\ shipment' = Append(shipment, row)
      /\ Become({o}, "approved") /\ order[o].status = "pending" /\ o \in Orders
  <2>1. order[o].status = "pending"
    BY <1>1, StatusRead DEF Kept, Tracked, Handles
  <2> QED
    BY <1>1, <1>2, <1>3, <2>1, ApprovalMakes DEF Kept, Typed, OrdersOK
<1>6. /\ take \in Bundles /\ Goods(row.items) = take
      /\ \A b \in Batches : take[b] > 0 =>
           /\ stock[b].status = "available"
           /\ take[b] <= stock[b].quantity - stock[b].reserved
  <2>1. row.items = ItemsOf(take, FirstLine[o])
    BY <1>3 DEF NewShipment
  <2>2. /\ take \in Bundles
        /\ \A b \in Batches : take[b] > 0 =>
             /\ stock[b].status = "available"
             /\ take[b] <= stock[b].quantity - stock[b].reserved
    BY <1>2, <1>5, TakesWhatWasOrdered DEF Kept
  <2>3. Goods(ItemsOf(take, FirstLine[o])) = take
    BY <1>5, <2>2, FirstLineTyped, GoodsOfBundle DEF Kept
  <2> QED
    BY <2>1, <2>2, <2>3
<1>7. row.status = "preparing" /\ row.order = o
  BY <1>3 DEF NewShipment
<1>8. \A b \in Batches : /\ stock'[b].quantity = stock[b].quantity
                         /\ stock'[b].reserved = stock[b].reserved + take[b]
                         /\ stock'[b].status = stock[b].status
  <2>1. stock' = Reserved(stock, take)
    BY <1>1, <1>2 DEF applyApproval
  <2> QED
    BY <1>6, <2>1, StockColumns DEF Kept
<1>9. /\ n \notin DOMAIN shipment /\ DOMAIN shipment' = DOMAIN shipment \cup {n}
      /\ \A i \in DOMAIN shipment : shipment'[i] = shipment[i]
      /\ shipment'[n] = row
  BY <1>4, <1>5, ShipmentAdded DEF Kept
<1>10. Story /\ Story'
  BY StoryGoods, StoryGoodsNext DEF Kept
<1>11. UNCHANGED Sent
  BY <1>8 DEF Sent, Unspoilt
<1>12. ASSUME NEW b \in Batches
       PROVE  take[b] <= Free[b] /\ Free'[b] = Free[b] - take[b]
  <2>1. /\ take[b] \in Nat /\ stock[b].quantity \in Int /\ stock[b].reserved \in Int
        /\ Free[b] \in Nat
    BY <1>6, <1>10, StockFacts DEF Bundles, Kept, Story
  <2>2. CASE stock[b].status = "expired"
    <3>1. take[b] = 0
      BY <1>6, <2>1, <2>2
    <3>2. Free[b] = 0 /\ Free'[b] = 0
      BY <1>8, <1>10, <2>2 DEF Story
    <3> QED
      BY <3>1, <3>2
  <2>3. CASE stock[b].status = "available"
    <3>1. /\ Free[b] = stock[b].quantity - stock[b].reserved
          /\ Free'[b] = stock'[b].quantity - stock'[b].reserved
      BY <1>8, <1>10, <2>3 DEF Story
    <3> QED
      BY <1>6, <1>8, <2>1, <3>1
  <2> QED
    BY <1>10, <2>2, <2>3 DEF Story
<1>13. Free' = [b \in Batches |-> Free[b] - take[b]]
  BY <1>10, <1>12 DEF Story
<1>14. ASSUME NEW p \in Orders
       PROVE  Held'[p] = IF p = o THEN take ELSE Held[p]
  <2>1. MadeFor(o) = {} /\ MadeFor(o)' = {n}
        /\ (p # o => MadeFor(p)' = MadeFor(p))
    <3>1. /\ \A q : MadeFor(q) = {i \in DOMAIN shipment :
                      shipment[i].status \in {"preparing", "consolidated"}
                      /\ shipment[i].order = q}
          /\ \A q : MadeFor(q)' = {i \in DOMAIN shipment' :
                      shipment'[i].status \in {"preparing", "consolidated"}
                      /\ shipment'[i].order = q}
      BY DEF MadeFor, LiveShipments, Live
    <3>2. MadeFor(o) = {}
      BY <1>5, <3>1 DEF PrimaryShipments
    <3>3. MadeFor(o)' = {n}
      BY <1>7, <1>9, <3>1, <3>2
    <3>4. p # o => MadeFor(p)' = MadeFor(p)
      BY <1>7, <1>9, <3>1
    <3> QED
      BY <3>2, <3>3, <3>4
  <2>2. ASSUME NEW b \in Batches
        PROVE  Held'[p][b] = IF p = o THEN take[b] ELSE Held[p][b]
    <3>1. CASE stock[b].status = "expired"
      <4>1. take[b] = 0
        BY <1>6, <3>1 DEF Bundles
      <4> QED
        BY <1>8, <1>10, <3>1, <4>1 DEF Story
    <3>2. CASE stock[b].status = "available"
      <4>1. Held'[p][b] = GoodsOf(MadeFor(p))'[b] /\ Held[p][b] = GoodsOf(MadeFor(p))[b]
        BY <1>8, <1>10, <3>2 DEF Story
      <4>2. \A S \in SUBSET DOMAIN shipment :
              /\ GoodsOf(S)[b]' = GoodsOf(S)[b]
              /\ GoodsOf(S \cup {n})[b]' = GoodsOf(S)[b] + Goods(row.items)[b]
        <5>1. Typed /\ ShipmentsOK' /\ shipment' = Append(shipment, row) /\ n = Len(shipment) + 1
          BY <1>4, <1>5 DEF Kept, Typed
        <5> QED
          BY <5>1, GoodsOfMore
      <4>3. CASE p = o
        <5>1. GoodsOf(MadeFor(o))'[b] = GoodsOf({} \cup {n})'[b]
          BY <2>1 DEF GoodsOf
        <5>2. GoodsOf({} \cup {n})[b]' = GoodsOf({})[b] + Goods(row.items)[b]
          BY <4>2
        <5>3. GoodsOf({})[b] = 0 /\ take[b] \in Nat
          BY <1>6, GoodsOfParts DEF Kept, Bundles
        <5>4. Held'[o][b] = GoodsOf(MadeFor(o))'[b]
          BY <4>1, <4>3, Zenon
        <5>5. Goods(row.items)[b] = take[b]
          BY <1>6
        <5>6. Held'[o][b] = take[b]
          BY <5>1, <5>2, <5>3, <5>4, <5>5
        <5> QED
          BY <4>3, <5>6
      <4>4. CASE p # o
        <5>1. PICK M : M = MadeFor(p)
          OBVIOUS
        <5>2. M \in SUBSET DOMAIN shipment
          BY <5>1 DEF MadeFor, LiveShipments
        <5>3. GoodsOf(MadeFor(p))'[b] = GoodsOf(M)'[b]
          BY <2>1, <4>4, <5>1 DEF GoodsOf
        <5>4. GoodsOf(M)[b] = GoodsOf(MadeFor(p))[b]
          BY <5>1 DEF GoodsOf
        <5> QED
          BY <4>1, <4>2, <4>4, <5>2, <5>3, <5>4
      <4> QED
        BY <4>3, <4>4
    <3> QED
      BY <1>10, <3>1, <3>2 DEF Story
  <2>3. /\ Held'[p] = [b \in Batches |-> Held'[p][b]] /\ Held[p] = [b \in Batches |-> Held[p][b]]
        /\ take = [b \in Batches |-> take[b]]
    BY <1>6, <1>10 DEF Story, Bundles
  <2> QED
    BY <2>2, <2>3
<1>15. Held' = [Held EXCEPT ![o] = take]
  <2>1. Held' = [p \in Orders |-> Held'[p]] /\ Held = [p \in Orders |-> Held[p]]
    BY DEF Held
  <2> QED
    BY <1>5, <1>14, <2>1
<1>16. take \in Promised!Bundle(Free)
  BY <1>6, <1>12, MayPromise DEF Kept
<1>17. States[o] = "open" /\ States' = [States EXCEPT ![o] = "promised"]
  <2>1. States[o] = KindOf(order[o].status) /\ States' = [States EXCEPT ![o] = KindOf("approved")]
    BY <1>5, StateBecomes DEF Kept
  <2> QED
    BY <1>5, <2>1, Kinds
<1>18. Promised!Promise(o)
  BY <1>5, <1>11, <1>13, <1>15, <1>16, <1>17, Steps
<1> QED
  BY <1>5, <1>18, OneTells

(* A cancelled picking task calls the promise off. *)
LEMMA CancelTaskTold ==
  ASSUME Kept, Kept', NEW c \in Clients, cancelPickingTask(c)
  PROVE  Told
<1>1. PICK o : o = OrderOf(c)
  OBVIOUS
<1>2. o \in Placed /\ order[o].status \in {"approved", "picking"} /\ o \in Orders
  BY <1>1, StatusRead
     DEF Kept, Tracked, cancelPickingTask, Handles, AboutOneOrder, Typed, OrdersOK
<1>3. PICK give \in ToRelease(o) : stock' = Released(stock, give)
  BY <1>1 DEF cancelPickingTask
<1>4. IF ShipmentsOf(o) = {} THEN UNCHANGED shipment
      ELSE \E i \in ShipmentsOf(o) : shipment' = [shipment EXCEPT ![i].status = "cancelled"]
  BY <1>1 DEF cancelPickingTask
<1>5. Become({o}, "cancelled")
  BY <1>1, OneBecomes DEF cancelPickingTask, Kept
<1>6. States[o] = "promised" /\ States' = [States EXCEPT ![o] = "void"]
  <2>1. States[o] = KindOf(order[o].status) /\ States' = [States EXCEPT ![o] = KindOf("cancelled")]
    BY <1>2, <1>5, StateBecomes DEF Kept
  <2> QED
    BY <1>2, <2>1, Kinds
<1>7. \A b \in Batches : stock'[b].status = stock[b].status
  <2>1. give \in Bundles
    BY <1>2, <1>3, ReleaseIsShipment DEF Kept
  <2> QED
    BY <1>3, <2>1, StockColumns DEF Kept
<1>8. ShipmentsOf(o) = PrimaryShipments(o)
  BY OwnShipment DEF Kept, Tracked
<1>9. \E S \in SUBSET LiveShipments :
        /\ LoadsFixed /\ LiveShipments' = LiveShipments \ S /\ Gone' = Gone \cup {}
        /\ \A i \in LiveShipments : shipment[i].order \in {o} <=> i \in S
  <2>1. CASE PrimaryShipments(o) = {}
    <3>1. UNCHANGED shipment
      BY <1>4, <1>8, <2>1
    <3>2. LoadsFixed /\ LiveShipments' = LiveShipments \ {} /\ Gone' = Gone \cup {}
      BY <3>1, NothingMoves DEF LiveShipments, Live, Gone, Kept
    <3>3. \A i \in LiveShipments : shipment[i].order \in {o} <=> i \in {}
      BY <2>1 DEF PrimaryShipments, LiveShipments
    <3>4. {} \in SUBSET LiveShipments
      OBVIOUS
    <3> QED
      BY <3>2, <3>3, <3>4, Zenon
  <2>2. CASE PrimaryShipments(o) # {}
    <3>1. PICK i \in PrimaryShipments(o) : shipment' = [shipment EXCEPT ![i].status = "cancelled"]
      BY <1>4, <1>8, <2>2
    <3>2. i \in DOMAIN shipment /\ shipment[i].order = o
      BY DEF PrimaryShipments
    <3>3. Live(i) /\ shipment[i].shipped = FALSE
      BY <1>2, <3>2, NotReceived DEF Kept, Tracked
    <3>4. Moves({i}, "cancelled", shipment[i].manifest, FALSE)
      BY <3>1, <3>2, <3>3, StatusMoves DEF Kept
    <3>5. /\ LoadsFixed /\ {i} \in SUBSET LiveShipments
          /\ LiveShipments' = LiveShipments \ {i} /\ Gone' = Gone \cup {}
      BY <3>2, <3>3, <3>4, OneLeaves DEF Kept
    <3>6. \A j \in LiveShipments : shipment[j].order \in {o} <=> j \in {i}
      BY <3>2 DEF Kept, Tracked, OneEach, LiveShipments
    <3> QED
      BY <3>5, <3>6
  <2> QED
    BY <2>1, <2>2
<1>10. /\ Held' = [p \in Orders |-> IF p \in {o} THEN Nothing ELSE Held[p]]
       /\ Free' = [b \in Batches |-> Free[b] + Total([p \in {o} |-> Held[p][b]])]
       /\ UNCHANGED Sent
  <2>1. PICK S \in SUBSET LiveShipments :
          /\ LoadsFixed /\ LiveShipments' = LiveShipments \ S /\ Gone' = Gone \cup {}
          /\ \A i \in LiveShipments : shipment[i].order \in {o} <=> i \in S
    BY <1>9
  <2>2. {o} \in SUBSET Orders /\ {} \in {{}, S}
    BY <1>2
  <2> QED
    BY <1>7, <2>1, <2>2, GoodsMove DEF Kept, Tracked
<1>11. Held' = [Held EXCEPT ![o] = Nothing]
  BY <1>10 DEF Held
<1>12. Free' = [b \in Batches |-> Free[b] + Held[o][b]]
  <2>1. \A b \in Batches : Total([p \in {o} |-> Held[p][b]]) = Held[o][b]
    BY <1>2, HeldByOne DEF Kept
  <2> QED
    BY <1>10, <2>1
<1>13. Promised!CallOff(o)
  BY <1>2, <1>6, <1>10, <1>11, <1>12, Steps
<1> QED
  BY <1>2, <1>13, OneTells

(* The orders of O leave, with their goods and nothing else. *)
LEMMA ShipTold ==
  ASSUME Kept, Kept', LoadsFixed, \A b \in Batches : stock'[b].status = stock[b].status,
         NEW O \in SUBSET Placed, Become(O, "delivering"),
         \A o \in O : order[o].status \in {"approved", "picking"},
         NEW S \in SUBSET LiveShipments, LiveShipments' = LiveShipments \ S,
         Gone' = Gone \cup S,
         \A i \in LiveShipments : shipment[i].order \in O <=> i \in S
  PROVE  Told
<1>1. O \in SUBSET Orders /\ S \in {{}, S}
  BY DEF Kept, Typed, OrdersOK
<1>2. States' = [o \in Orders |-> IF o \in O THEN KindOf("delivering") ELSE States[o]]
  BY StatesBecome DEF Kept
<1>3. States' = [o \in Orders |-> IF o \in O THEN "away" ELSE States[o]]
  BY <1>2, Kinds
<1>4. \A o \in O : States[o] = "promised"
  BY <1>1, StatesOf, Kinds
<1>5. /\ Held' = [o \in Orders |-> IF o \in O THEN Nothing ELSE Held[o]]
      /\ Sent' = [b \in Batches |-> Sent[b] + Total([o \in O |-> Held[o][b]])]
      /\ UNCHANGED Free
  BY <1>1, GoodsMove DEF Kept, Tracked
<1>6. Promised!Ship(O)
  BY <1>3, <1>4, <1>5, StepsOfMany
<1> QED
  BY <1>1, <1>6, ManyTell

LEMMA FinalizeTold ==
  ASSUME Kept, Kept', NEW c \in Clients, finalizeBulkShipment(c)
  PROVE  Told
<1>1. PICK o : o = OrderOf(c)
  OBVIOUS
<1>2. o \in Placed /\ order[o].status \in {"approved", "picking"}
  BY <1>1, StatusRead DEF Kept, Tracked, finalizeBulkShipment, Handles, AboutOneOrder
<1>3. /\ order' = WithStatus(o, "delivering")
      /\ IF PrimaryShipments(o) = {} THEN UNCHANGED <<stock, shipment>>
         ELSE \E i \in PrimaryShipments(o) :
                /\ stock' = FinallyDecreased(stock, GoodsOf({i}))
                /\ shipment' = [shipment EXCEPT ![i].status = "in_transit",
                                                ![i].shipped = TRUE]
  BY <1>1 DEF finalizeBulkShipment
<1>4. {o} \in SUBSET Placed /\ Become({o}, "delivering")
      /\ \A p \in {o} : order[p].status \in {"approved", "picking"}
  BY <1>2, <1>3, OneBecomes DEF Kept
<1>5. CASE PrimaryShipments(o) = {}
  <2>1. UNCHANGED <<stock, shipment>>
    BY <1>3, <1>5
  <2>2. LoadsFixed /\ LiveShipments' = LiveShipments \ {} /\ Gone' = Gone \cup {}
    BY <2>1, NothingMoves DEF LiveShipments, Live, Gone, Kept
  <2>3. {} \in SUBSET LiveShipments
        /\ \A i \in LiveShipments : shipment[i].order \in {o} <=> i \in {}
    BY <1>5 DEF PrimaryShipments, LiveShipments
  <2> QED
    BY <1>4, <2>1, <2>2, <2>3, ShipTold
<1>6. CASE PrimaryShipments(o) # {}
  <2>1. PICK i \in PrimaryShipments(o) :
          /\ stock' = FinallyDecreased(stock, GoodsOf({i}))
          /\ shipment' = [shipment EXCEPT ![i].status = "in_transit", ![i].shipped = TRUE]
    BY <1>3, <1>6
  <2>2. i \in DOMAIN shipment /\ shipment[i].order = o
    BY DEF PrimaryShipments
  <2>3. Live(i) /\ shipment[i].shipped = FALSE
    BY <1>2, <2>2, NotReceived DEF Kept, Tracked
  <2>4. Moves({i}, "in_transit", shipment[i].manifest, TRUE)
    BY <2>1, <2>2, DispatchMoves DEF Kept
  <2>5. /\ LoadsFixed /\ {i} \in SUBSET LiveShipments
        /\ LiveShipments' = LiveShipments \ {i} /\ Gone' = Gone \cup {i}
    BY <2>2, <2>3, <2>4, OneLeaves DEF Kept
  <2>6. \A j \in LiveShipments : shipment[j].order \in {o} <=> j \in {i}
    BY <2>2 DEF Kept, Tracked, OneEach, LiveShipments
  <2>7. \A b \in Batches : stock'[b].status = stock[b].status
    <3>1. GoodsOf({i}) \in Bundles
      BY <2>2, GoodsOfType DEF Kept
    <3> QED
      BY <2>1, <3>1, StockColumns DEF Kept
  <2> QED
    BY <1>4, <2>5, <2>6, <2>7, ShipTold
<1> QED
  BY <1>5, <1>6

LEMMA DepartureTold ==
  ASSUME Kept, Kept', NEW c \in Clients, confirmManifestDeparture(c)
  PROVE  Told
<1>1. req[c].kind = "depart"
  BY DEF confirmManifestDeparture, Handles
<1>2. PICK load :
        /\ load = req[c].target.load /\ DOMAIN load \in SUBSET DOMAIN shipment
        /\ \A i \in DOMAIN load :
             load[i] = Goods(shipment[i].items) /\ Live(i) /\ shipment[i].shipped = FALSE
  BY <1>1, DepartureRead DEF Kept
<1>3. PICK S : S = DOMAIN load
  OBVIOUS
<1>4. PICK O : O = {o \in Placed : \E i \in S : shipment[i].order = o}
  OBVIOUS
<1>5. /\ stock' = Exported(stock, [b \in Batches |-> Total([i \in DOMAIN load |-> load[i][b]])])
      /\ shipment' = [i \in DOMAIN shipment |->
                        IF i \in S
                        THEN [shipment[i] EXCEPT !.status = "in_transit", !.shipped = TRUE]
                        ELSE shipment[i]]
      /\ order' = [o \in Placed |-> IF o \in O THEN [order[o] EXCEPT !.status = "delivering"]
                                    ELSE order[o]]
  BY <1>2, <1>3, <1>4 DEF confirmManifestDeparture
<1>6. O \in SUBSET Placed /\ Become(O, "delivering")
  BY <1>4, <1>5, SomeBecome DEF Kept
<1>7. S \in SUBSET LiveShipments /\ \A i \in S : Live(i) /\ i \in DOMAIN shipment
  BY <1>2, <1>3 DEF LiveShipments
<1>8. \A o \in O : order[o].status \in {"approved", "picking"}
  BY <1>4, <1>7 DEF InStep, Suits, Live, Kept, Tracked
<1>9. \A i \in LiveShipments : shipment[i].order \in O <=> i \in S
  <2>1. \A i \in LiveShipments : i \in DOMAIN shipment /\ shipment[i].order \in Placed
    BY ShipmentFacts DEF LiveShipments, Kept
  <2> QED
    BY <1>4, <1>7, <2>1 DEF OneEach, Kept, Tracked
<1>10. /\ LoadsFixed
       /\ \A i \in DOMAIN shipment :
            Place(shipment'[i]) = IF i \in S THEN <<"in_transit", shipment[i].manifest, TRUE>>
                                  ELSE Place(shipment[i])
  BY <1>5, TruckMoves DEF Kept
<1>11. \A i \in DOMAIN shipment :
         /\ shipment'[i].status = IF i \in S THEN "in_transit" ELSE shipment[i].status
         /\ shipment'[i].shipped = IF i \in S THEN TRUE ELSE shipment[i].shipped
  BY <1>10 DEF Place
<1>12. DOMAIN shipment' = DOMAIN shipment
  BY <1>10 DEF LoadsFixed
<1>13. LiveShipments' = LiveShipments \ S
  BY <1>11, <1>12 DEF LiveShipments, Live
<1>14. Gone' = Gone \cup S
  BY <1>7, <1>11, <1>12 DEF Gone
<1>15. \A b \in Batches : stock'[b].status = stock[b].status
  <2>1. \A b : [i \in DOMAIN load |-> load[i][b]] = [i \in S |-> Goods(shipment[i].items)[b]]
    BY <1>2, <1>3
  <2>2. [b \in Batches |-> Total([i \in DOMAIN load |-> load[i][b]])] = GoodsOf(S)
    BY <2>1 DEF GoodsOf
  <2>3. stock' = Exported(stock, GoodsOf(S)) /\ GoodsOf(S) \in Bundles
    BY <1>2, <1>3, <1>5, <2>2, GoodsOfType DEF Kept
  <2> QED
    BY <2>3, StockColumns DEF Kept
<1> QED
  BY <1>6, <1>7, <1>8, <1>9, <1>10, <1>13, <1>14, <1>15, ShipTold

(* Batches expire. *)
LEMMA DayTold ==
  ASSUME Kept, Kept', cronExpireBatches
  PROVE  Told
<1>1. PICK S : S = {b \in Batches : stock'[b].status = "expired"}
  OBVIOUS
<1>2. UNCHANGED States
  <2>1. UNCHANGED order
    BY DEF cronExpireBatches
  <2> QED
    BY <2>1, SameOrders DEF Kept
<1>3. ASSUME NEW o \in Orders PROVE GoodsOf(MadeFor(o))' = GoodsOf(MadeFor(o))
  <2>1. UNCHANGED shipment
    BY DEF cronExpireBatches
  <2>2. MadeFor(o)' = MadeFor(o)
    BY <2>1 DEF MadeFor, LiveShipments, Live
  <2> QED
    BY <2>1, <2>2 DEF GoodsOf
<1>4. Story /\ Story'
  BY StoryGoods, StoryGoodsNext DEF Kept
<1>5. ASSUME NEW b \in Batches
      PROVE  /\ b \in S <=> stock'[b].status = "expired"
             /\ b \notin S => stock'[b].status = "available" /\ stock'[b] = stock[b]
  <2>1. stock'[b].status \in {"available", "expired"}
    BY <1>4 DEF Story
  <2>2. stock[b] \in [quantity : Int, reserved : Int, status : Blocked \cup {"available"}]
    BY StockFacts DEF StockRow, Kept
  <2> DEFINE row == [stock[b] EXCEPT !.reserved = 0, !.status = "expired"]
  <2>3. row.status = "expired"
    BY <2>2
  <2>4. stock'[b] = stock[b] \/ stock'[b] = row
    BY DEF cronExpireBatches
  <2> HIDE DEF row
  <2> QED
    BY <1>1, <2>1, <2>3, <2>4
<1>6. ASSUME NEW b \in Batches
      PROVE  /\ Free'[b] = IF b \in S THEN 0 ELSE Free[b]
             /\ Sent'[b] = IF b \in S THEN 0 ELSE Sent[b]
             /\ \A o \in Orders : Held'[o][b] = IF b \in S THEN 0 ELSE Held[o][b]
  <2>1. CASE b \in S
    BY <1>4, <1>5, <2>1 DEF Story
  <2>2. CASE b \notin S
    <3>1. stock'[b].status = "available" /\ stock[b] = stock'[b]
      BY <1>5, <2>2
    <3>2. /\ Free'[b] = stock'[b].quantity - stock'[b].reserved
          /\ Free[b] = stock[b].quantity - stock[b].reserved
          /\ \A o \in Orders : /\ Held'[o][b] = GoodsOf(MadeFor(o))'[b]
                               /\ Held[o][b] = GoodsOf(MadeFor(o))[b]
      BY <1>4, <3>1 DEF Story
    <3>3. Sent'[b] = Sent[b]
      <4>1. /\ Sent[b] = Opening[b] - stock[b].quantity
            /\ Sent'[b] = Opening[b] - stock'[b].quantity
        BY <3>1 DEF Sent, Unspoilt
      <4> QED
        BY <3>1, <4>1
    <3>4. \A o \in Orders : Held'[o][b] = Held[o][b]
      BY <1>3, <3>2
    <3> QED
      BY <2>2, <3>1, <3>2, <3>3, <3>4
  <2> QED
    BY <2>1, <2>2
<1>7. Free' = [b \in Batches |-> IF b \in S THEN 0 ELSE Free[b]]
  BY <1>4, <1>6 DEF Story
<1>8. Sent' = [b \in Batches |-> IF b \in S THEN 0 ELSE Sent[b]]
  BY <1>4, <1>6 DEF Story
<1>9. Held' = [o \in Orders |-> [b \in Batches |-> IF b \in S THEN 0 ELSE Held[o][b]]]
  <2>1. \A o \in Orders : Held'[o] = [b \in Batches |-> Held'[o][b]]
    BY <1>4 DEF Story
  <2>2. \A o \in Orders : Held'[o] = [b \in Batches |-> IF b \in S THEN 0 ELSE Held[o][b]]
    BY <1>6, <2>1
  <2>3. Held' = [o \in Orders |-> Held'[o]]
    BY DEF Held
  <2> QED
    BY <2>2, <2>3
<1>10. Promised!Spoil(S)
  BY <1>2, <1>7, <1>8, <1>9, StepsOfMany
<1>11. S \in SUBSET Batches
  BY <1>1
<1> QED
  BY <1>10, <1>11, ManyTell

(* Orders and shipments move on, and the story does not. *)
LEMMA NothingTold ==
  ASSUME Kept, Kept', LoadsFixed, \A b \in Batches : stock'[b].status = stock[b].status,
         \A i \in DOMAIN shipment : /\ Live(i)' <=> Live(i)
                                    /\ shipment'[i].shipped = shipment[i].shipped,
         NEW O \in SUBSET Placed, NEW ost, Become(O, ost),
         \A o \in O : KindOf(order[o].status) = KindOf(ost)
  PROVE  Told
<1>1. UNCHANGED States
  BY SameStates DEF Kept
<1>2. UNCHANGED <<Free, Held, Sent>>
  BY GoodsStay DEF Kept, Tracked
<1> QED
  BY <1>1, <1>2, ManyTell

LEMMA ManifestTold ==
  ASSUME Kept, Kept', NEW c \in Clients, createManifest(c) \/ consolidateManifestOrders(c)
  PROVE  Told
<1>1. UNCHANGED stock
  BY DEF createManifest, consolidateManifestOrders
<1>2. PICK S : S = req[c].target
  OBVIOUS
<1>3. /\ S \in SUBSET DOMAIN shipment
      /\ \A i \in S : /\ shipment[i].status = "preparing"
                      /\ order[shipment[i].order].status = "approved"
  BY <1>2, ReadyRead DEF createManifest, consolidateManifestOrders, Handles, Kept
<1>4. LoadsFixed /\ \A i \in DOMAIN shipment :
                      /\ shipment'[i].shipped = shipment[i].shipped
                      /\ \/ shipment'[i].status = shipment[i].status
                         \/ i \in S /\ shipment'[i].status = "consolidated"
  BY <1>2, ManifestLoads DEF Kept
<1>5. \A i \in DOMAIN shipment : Live(i)' <=> Live(i)
  BY <1>3, <1>4 DEF Live
<1>6. \E O \in SUBSET Placed :
        Become(O, "picking") /\ \A o \in O : order[o].status = "approved"
  <2>1. CASE createManifest(c)
    <3>1. Become({}, "picking")
      BY <2>1 DEF createManifest, Become, Placed
    <3> QED
      BY <3>1
  <2>2. CASE consolidateManifestOrders(c)
    <3>1. PICK O : O = {shipment[i].order : i \in S}
      OBVIOUS
    <3>2. order' = [o \in Placed |-> IF o \in O THEN [order[o] EXCEPT !.status = "picking",
                                                                     !.slip = TRUE]
                                     ELSE order[o]]
      BY <1>2, <2>2, <3>1 DEF consolidateManifestOrders
    <3>3. Become(O, "picking")
      BY <3>2, SomeBecome DEF Kept
    <3>4. \A o \in O : o \in Placed /\ order[o].status = "approved"
      BY <1>3, <3>1, ShipmentFacts DEF Kept
    <3> QED
      BY <3>3, <3>4
  <2> QED
    BY <2>1, <2>2
<1>7. PICK O \in SUBSET Placed :
        Become(O, "picking") /\ \A o \in O : order[o].status = "approved"
  BY <1>6
<1>8. \A o \in O : KindOf(order[o].status) = KindOf("picking")
  BY <1>7, Kinds
<1> QED
  BY <1>1, <1>4, <1>5, <1>7, <1>8, NothingTold

(* The store receives its goods. *)
LEMMA ReceiveTold ==
  ASSUME Kept, Kept', NEW c \in Clients, receiveShipment(c)
  PROVE  Told
<1>1. PICK i : i = req[c].target
  OBVIOUS
<1>2. i \in DOMAIN shipment /\ shipment[i].status = "in_transit"
  BY <1>1 DEF Kept, Tracked, Typed, RequestsOK, RequestOK, ReadsHold, ReadHolds,
     receiveShipment, Handles
<1>3. PICK o : o = shipment[i].order
  OBVIOUS
<1>4. o \in Placed /\ o \in Orders /\ order[o].status = "delivering"
  <2>1. o \in Placed
    BY <1>2, <1>3, ShipmentFacts DEF Kept
  <2> QED
    BY <1>2, <1>3, <2>1 DEF InStep, Suits, Kept, Tracked, Typed, OrdersOK
<1>5. UNCHANGED stock /\ shipment' = [shipment EXCEPT ![i].status = "completed"]
  BY <1>1 DEF receiveShipment
<1>6. PICK st \in {"completed", "claimed"} : order' = WithStatus(o, st)
  BY <1>1, <1>3 DEF receiveShipment
<1>7. States[o] = KindOf(order[o].status) /\ States' = [States EXCEPT ![o] = KindOf(st)]
  <2>1. Become({o}, st)
    BY <1>6, OneBecomes DEF Kept
  <2> QED
    BY <1>4, <2>1, StateBecomes DEF Kept
<1>8. States[o] = "away" /\ States' = [States EXCEPT ![o] = "done"]
  BY <1>4, <1>6, <1>7, Kinds
<1>9. Moves({i}, "completed", shipment[i].manifest, shipment[i].shipped)
  BY <1>2, <1>5, StatusMoves DEF Kept
<1>10. \A j \in DOMAIN shipment :
         /\ shipment'[j].status = IF j = i THEN "completed" ELSE shipment[j].status
         /\ shipment'[j].shipped = shipment[j].shipped
  BY <1>9 DEF Moves, Place
<1>11. \A j \in DOMAIN shipment : Live(j)' <=> Live(j)
  BY <1>2, <1>10 DEF Live
<1>12. UNCHANGED <<Free, Held, Sent>>
  BY <1>5, <1>9, <1>10, <1>11, GoodsStay DEF Kept, Tracked, Moves
<1>13. Promised!Finish(o)
  BY <1>4, <1>8, <1>12, Steps
<1> QED
  BY <1>4, <1>13, OneTells

LEMMA ClaimTold ==
  ASSUME Kept, Kept', NEW c \in Clients, createManualClaim(c)
  PROVE  Told
<1>1. PICK i : i = req[c].target.shipment
  OBVIOUS
<1>2. i \in DOMAIN shipment /\ shipment[i].status = "completed"
  BY <1>1 DEF Kept, Tracked, Typed, RequestsOK, RequestOK, ReadsHold, ReadHolds,
     createManualClaim, Handles
<1>3. PICK o : o = shipment[i].order
  OBVIOUS
<1>4. o \in Placed /\ order[o].status \in {"completed", "claimed"}
  <2>1. o \in Placed
    BY <1>2, <1>3, ShipmentFacts DEF Kept
  <2> QED
    BY <1>2, <1>3, <2>1 DEF InStep, Suits, Kept, Tracked
<1>5. UNCHANGED <<stock, shipment>> /\ order' = WithStatus(o, "claimed")
  BY <1>1, <1>3 DEF createManualClaim
<1>6. {o} \in SUBSET Placed /\ Become({o}, "claimed")
      /\ \A p \in {o} : KindOf(order[p].status) = KindOf("claimed")
  BY <1>4, <1>5, OneBecomes, Kinds DEF Kept
<1>7. LoadsFixed /\ \A j \in DOMAIN shipment :
                      /\ Live(j)' <=> Live(j)
                      /\ shipment'[j].shipped = shipment[j].shipped
  BY <1>5, NothingMoves DEF Kept, Live
<1> QED
  BY <1>5, <1>6, <1>7, NothingTold

(* Neither the orders nor the shipments are touched, but for what is scanned. *)
LEMMA UntouchedTold ==
  ASSUME Kept, Kept', UNCHANGED <<order, stock>>,
         \/ UNCHANGED shipment
         \/ \E i \in DOMAIN shipment : \E k \in DOMAIN shipment[i].items :
              verifyManifestItem(i, k)
  PROVE  Told
<1>1. LoadsFixed /\ \A j \in DOMAIN shipment : Place(shipment'[j]) = Place(shipment[j])
  BY NothingMoves, ScanMoves DEF Kept
<1>2. \A j \in DOMAIN shipment : /\ Live(j)' <=> Live(j)
                                 /\ shipment'[j].shipped = shipment[j].shipped
  BY <1>1 DEF Place, Live
<1>3. UNCHANGED States
  BY SameOrders DEF Kept
<1>4. UNCHANGED <<Free, Held, Sent>>
  BY <1>1, <1>2, GoodsStay DEF Kept, Tracked
<1> QED
  BY <1>3, <1>4, ManyTell

(* The store's or the kitchen's answer to an order. *)
LEMMA DecisionTold ==
  ASSUME Kept, Kept', NEW c \in Clients, rejectOrder(c) \/ cancelOrder(c) \/ approveOrder(c)
  PROVE  Told
<1>1. PICK o : o = OrderOf(c)
  OBVIOUS
<1>2. o \in Placed /\ order[o].status = "pending"
  <2>1. req[c].kind \in {"reject", "cancel", "approve"}
    BY DEF rejectOrder, cancelOrder, approveOrder, Handles
  <2> QED
    BY <1>1, <2>1, StatusRead DEF Kept, Tracked, AboutOneOrder
<1>3. ASSUME NEW st \in {"rejected", "cancelled"}, order' = WithStatus(o, st),
             UNCHANGED <<stock, shipment>>
      PROVE  Told
  <2>1. Become({o}, st)
    BY <1>3, OneBecomes DEF Kept
  <2> QED
    BY <1>2, <1>3, <2>1, RefusalTold
<1>4. CASE rejectOrder(c)
  BY <1>1, <1>3, <1>4 DEF rejectOrder
<1>5. CASE cancelOrder(c)
  BY <1>1, <1>3, <1>5 DEF cancelOrder
<1>6. CASE approveOrder(c)
  <2>1. CASE rejectOutOfStock(o)
    BY <1>3, <2>1 DEF rejectOutOfStock
  <2>2. CASE applyApproval(o)
    <3>1. Handles(c, "approve") /\ applyApproval(OrderOf(c))
      BY <1>1, <1>6, <2>2 DEF approveOrder
    <3> QED
      BY <3>1, ApprovalTold
  <2>3. CASE awaitProduction(o)
    <3>1. UNCHANGED <<stock, shipment>> /\ Become({}, "pending")
      BY <2>3, FlagChanges DEF awaitProduction, Kept
    <3>2. LoadsFixed /\ \A j \in DOMAIN shipment :
                          /\ Live(j)' <=> Live(j)
                          /\ shipment'[j].shipped = shipment[j].shipped
      BY <3>1, NothingMoves DEF Kept, Live
    <3>3. {} \in SUBSET Placed /\ \A p \in {} : KindOf(order[p].status) = KindOf("pending")
      OBVIOUS
    <3> QED
      BY <3>1, <3>2, <3>3, NothingTold
  <2> QED
    BY <1>1, <1>6, <2>1, <2>2, <2>3 DEF approveOrder
<1> QED
  BY <1>4, <1>5, <1>6

LEMMA NextTold ==
  ASSUME Normal, Kept, Kept', [Next]_vars
  PROVE  Told
<1>1. ReadsHold
  BY DEF Kept, Tracked
<1>2. ASSUME NEW c \in Clients, OrderRequest(c) PROVE Told
  <2>1. CASE \/ ArriveApprove(c) \/ ArriveConfirm(c) \/ ArriveReject(c) \/ ArriveCancel(c)
             \/ ArriveReceive(c)
    BY <2>1, UntouchedTold
       DEF ArriveApprove, ArriveConfirm, ArriveReject, ArriveCancel, ArriveReceive, Arrive
  <2> QED
    BY <1>1, <1>2, <2>1, NoOverrides, DecisionTold, ConfirmTold, ReceiveTold DEF OrderRequest
<1>3. ASSUME NEW c \in Clients, WarehouseRequest(c) PROVE Told
  <2>1. CASE \/ ArriveCancelTask(c) \/ ArriveFinalize(c) \/ ArriveManifest(c)
             \/ ArriveConsolidate(c) \/ ArriveDeparture(c)
    BY <2>1, UntouchedTold
       DEF ArriveCancelTask, ArriveFinalize, ArriveManifest, ArriveConsolidate,
       ArriveDeparture, Arrive
  <2> QED
    BY <1>1, <1>3, <2>1, NoOverrides, CancelTaskTold, FinalizeTold, ManifestTold,
       DepartureTold DEF WarehouseRequest
<1>4. ASSUME NEW c \in Clients, ClaimRequest(c) \/ Fail(c) PROVE Told
  <2>1. CASE ArriveClaim(c) \/ ArriveResolve(c) \/ resolveClaim(c) \/ Fail(c)
    BY <2>1, UntouchedTold DEF ArriveClaim, ArriveResolve, resolveClaim, Arrive, Fail
  <2> QED
    BY <1>4, <2>1, ClaimTold DEF ClaimRequest
<1>5. ASSUME NEW o \in Orders, createOrder(o) PROVE Told
  BY <1>5, CreateTold
<1>6. CASE cronExpireBatches
  BY <1>6, DayTold
<1>7. CASE UNCHANGED vars
  BY <1>7, UntouchedTold DEF vars
<1>8. CASE \E i \in DOMAIN shipment : \E k \in DOMAIN shipment[i].items :
             verifyManifestItem(i, k)
  <2>1. UNCHANGED <<order, stock>>
    BY <1>8 DEF verifyManifestItem
  <2> QED
    BY <1>8, <2>1, UntouchedTold
<1> QED
  BY <1>2, <1>3, <1>4, <1>5, <1>6, <1>7, <1>8 DEF Next

LEMMA InitTold == Init => Promised!Init
<1> SUFFICES ASSUME Init PROVE Promised!Init
  OBVIOUS
<1>1. DOMAIN shipment = {} /\ Placed = {}
  BY DEF Init, Placed
<1>2. Kept
  BY InitTyped, InitTracked, InitLogged, InitBooked DEF Kept
<1>3. Story
  BY <1>2, StoryGoods DEF Kept
<1>4. LiveShipments = {} /\ Gone = {} /\ \A o : MadeFor(o) = {} /\ PrimaryShipments(o) = {}
  BY <1>1 DEF LiveShipments, Gone, MadeFor, PrimaryShipments
<1>5. \A b \in Batches : Free[b] = Opening[b] /\ Sent[b] = 0
  <2> SUFFICES ASSUME NEW b \in Batches PROVE Free[b] = Opening[b] /\ Sent[b] = 0
    OBVIOUS
  <2>1. stock[b] = [quantity |-> Opening[b], reserved |-> 0, status |-> "available"]
    BY DEF Init
  <2>2. Opening[b] \in Nat
    BY FulfilmentAssumption
  <2> QED
    BY <2>1, <2>2 DEF Free, Sent, Unspoilt
<1>6. Free = Opening /\ Sent = Nothing
  BY <1>3, <1>5, FulfilmentAssumption DEF Story, Nothing
<1>7. \A o \in Orders : Held[o] = Nothing
  BY <1>2, <1>4, HoldsNothing DEF Kept
<1>8. Held = [o \in Orders |-> Nothing]
  BY <1>7 DEF Held
<1>9. States = [o \in Orders |-> "none"]
  BY <1>1 DEF States, OrderState
<1>10. Promised!Zero = Nothing
  BY DEF Promised!Zero, Nothing
<1> QED
  BY <1>6, <1>8, <1>9, <1>10
     DEF Promised!Init, States, Free, Sent, Held, MadeFor

(* Under the same conditions the services implement StockPromise: approving, *)
(* calling off, loading, departing, receiving and expiring move each order   *)
(* and exactly its own goods (SupplyChain!KeepsThePromise).                 *)
THEOREM PromiseIsKept ==
  ASSUME Normal
  PROVE  Spec => KeepsThePromise
<1>1. Kept /\ Kept' /\ [Next]_vars => [Promised!Next]_(Promised!vars)
  BY NextTold DEF Told
<1> QED
  BY <1>1, InitTold, BooksAreKept, PTL DEF Spec, KeepsThePromise, Promised!Spec

-----------------------------------------------------------------------------
(* The coordination hub: inquiries, batch approvals and every override, one *)
(* request at a time.                                                      *)

(* With a second inquiry, a cancelled task or an answer of the kitchen the  *)
(* log of an order is released twice, or left behind.                       *)
Hub == /\ OneAtATime /\ OwnShipments /\ MaxInquiries <= 1
       /\ Endpoints \cap {"confirm", "cancelTask"} = {}

Waiting == {"pending", "coordinating"}

(* On a truck that is being loaded. *)
Loading(i) == shipment[i].manifest # None /\ manifest[shipment[i].manifest] = "preparing"

(* An order waits until it has a shipment.  While it is approved its        *)
(* shipment is being prepared; what is on an open truck, or prepared, has   *)
(* not left.                                                               *)
Proceeds(orderStatus, status, shipped, loading) ==
  /\ orderStatus \notin Waiting
  /\ orderStatus = "approved" => status \in {"preparing", "consolidated"}
  /\ loading => ~shipped /\ status \in {"preparing", "consolidated", "cancelled"}
  /\ status \in {"preparing", "consolidated"} => ~shipped

InOrder ==
  \A i \in DOMAIN shipment :
    Proceeds(order[shipment[i].order].status, shipment[i].status, shipment[i].shipped,
             Loading(i))

(* Nothing is logged for an order before it leaves its first status, ...    *)
LoggedLater ==
  \A o \in Orders : log[o] # Nothing => o \in Placed /\ order[o].status # "pending"

(* ... and nothing is queued before the first inquiry. *)
QueuedOnce == inquiries = 0 => Queued = {}

Life == OneEach /\ InOrder /\ LoggedLater /\ QueuedOnce

(* What a request to the hub has read is still so when it is handled. *)
HubReadHolds(r) ==
  /\ ReadHolds(r)
  /\ r.kind = "inquiry" => inquiries = 0 /\ r.orders = {}
  /\ r.kind = "batchApprove" => \A o \in r.orders : order[o].status \in Waiting
  /\ r.kind = "issue" => ~shipment[r.target.ship].shipped

HubReads == \A c \in Clients : HubReadHolds(req[c])

(* The stock has lost what has left. *)
Trucked == \A b \in Batches : stock[b].quantity = Opening[b] - GoodsOf(Gone)[b]

BooksFollow ==
  /\ Trucked => Trucked'
  /\ Balanced => Balanced' \/ \E c \in Clients : Overrides(c)

(* A step that makes no shipment: the orders O become ost, the shipments of *)
(* S come to st, and leave or not.                                         *)
Advance(O, ost, S, st, leave) ==
  /\ Become(O, ost) /\ LoadsFixed /\ S \in SUBSET DOMAIN shipment
  /\ \A i \in DOMAIN shipment :
       /\ shipment'[i].status = IF i \in S THEN st ELSE shipment[i].status
       /\ shipment'[i].shipped = IF i \in S THEN leave \/ shipment[i].shipped
                                 ELSE shipment[i].shipped

LEMMA AdvanceLife ==
  ASSUME Typed, Life, NEW O, NEW ost, NEW S, NEW st, NEW leave, Advance(O, ost, S, st, leave),
         O = {} \/ ost \notin Waiting, UNCHANGED <<log, inquiries>>,
         \A i \in DOMAIN shipment :
           Proceeds(IF shipment[i].order \in O THEN ost ELSE order[shipment[i].order].status,
                    shipment'[i].status, shipment'[i].shipped, Loading(i)')
  PROVE  Life'
<1>1. /\ DOMAIN shipment' = DOMAIN shipment /\ Placed' = Placed
      /\ \A i \in DOMAIN shipment : /\ shipment'[i].order = shipment[i].order
                                    /\ shipment'[i].linked = shipment[i].linked
                                    /\ shipment'[i].group = shipment[i].group
                                    /\ shipment[i].order \in Placed
      /\ \A p \in Placed : /\ order'[p].group = order[p].group
                           /\ order'[p].status = IF p \in O THEN ost ELSE order[p].status
  BY ShipmentFacts DEF Advance, Become, LoadsFixed, SameLoad
<1>2. OneEach'
  BY <1>1 DEF Life, OneEach
<1>3. InOrder'
  BY <1>1 DEF InOrder
<1>4. LoggedLater'
  BY <1>1 DEF Life, LoggedLater, Nothing, Waiting
<1>5. QueuedOnce'
  BY <1>1 DEF Life, QueuedOnce, Queued, Waiting
<1> QED
  BY <1>2, <1>3, <1>4, <1>5 DEF Life

(* What a row goes through while its order and its truck stay, or its order *)
(* goes on.                                                                *)
LEMMA StillProceeds ==
  ASSUME Typed, Life, NEW i \in DOMAIN shipment, NEW ost, NEW loading,
         ost = order[shipment[i].order].status \/ ost \notin Waiting \cup {"approved"},
         loading => Loading(i)
  PROVE  Proceeds(ost, shipment[i].status, shipment[i].shipped, loading)
  BY DEF Life, InOrder, Proceeds

(* What the queue holds of a batch is a sum. *)
LEMMA QueueHolds ==
  ASSUME Typed, NEW b \in Batches, NEW S \in SUBSET Orders
  PROVE  /\ IsFiniteSet(S) /\ Queued \in SUBSET Orders
         /\ \A l \in [Orders -> Bundles] :
              /\ Nats([o \in S |-> l[o][b]], S)
              /\ Total([o \in S |-> l[o][b]]) = SumOver([o \in S |-> l[o][b]], S)
              /\ Total([o \in S |-> l[o][b]]) \in Nat
<1>1. IsFiniteSet(S) /\ Queued \in SUBSET Orders
  BY FulfilmentAssumption, FS_Subset DEF Typed, OrdersOK, Queued
<1>2. ASSUME NEW l \in [Orders -> Bundles]
      PROVE  /\ Nats([o \in S |-> l[o][b]], S)
             /\ Total([o \in S |-> l[o][b]]) = SumOver([o \in S |-> l[o][b]], S)
             /\ Total([o \in S |-> l[o][b]]) \in Nat
  <2> DEFINE f == [o \in S |-> l[o][b]]
  <2>1. Nats(f, S) /\ DOMAIN f = S
    BY DEF Nats, Bundles
  <2> HIDE DEF f
  <2>2. Total(f) = SumOver(f, S) /\ SumOver(f, S) \in Nat
    BY <1>1, <2>1, TotalIsSum, SumGrows
  <2> QED
    BY <2>1, <2>2 DEF f
<1> QED
  BY <1>1, <1>2

(* The shipments of S are no longer prepared; what they hold is no longer   *)
(* reserved.                                                               *)
LEMMA BalanceMoves ==
  ASSUME Typed, ShipmentsOK', LoadsFixed, Balanced, UNCHANGED log, Queued' = Queued,
         NEW S \in SUBSET LiveShipments, LiveShipments' = LiveShipments \ S,
         \A b \in Batches : stock'[b].status # "expired" =>
           /\ stock[b].status # "expired"
           /\ stock'[b].reserved \in {stock[b].reserved - GoodsOf(S)[b],
                                      Clamped(stock, b, GoodsOf(S)[b])}
  PROVE  Balanced'
<1>1. PICK L : L = LiveShipments
  OBVIOUS
<1>2. PICK Q : Q = Queued
  OBVIOUS
<1>3. L \in SUBSET DOMAIN shipment /\ S \in SUBSET L
  BY <1>1 DEF LiveShipments
<1>4. ASSUME NEW b \in Batches, stock'[b].status # "expired"
      PROVE  Total([o \in Q |-> log'[o][b]]) + GoodsOf(L \ S)'[b] = stock'[b].reserved
  <2>1. GoodsOf(L \ S)[b] + GoodsOf(S)[b] = GoodsOf(L)[b]
    <3>1. /\ L \ S \in SUBSET DOMAIN shipment /\ S \in SUBSET DOMAIN shipment
          /\ (L \ S) \cap S = {} /\ (L \ S) \cup S = L
      BY <1>3
    <3> QED
      BY <3>1, GoodsOfParts
  <2>2. GoodsOf(L \ S)' = GoodsOf(L \ S)
    BY <1>3, GoodsOfKept
  <2>3. Total([o \in Q |-> log[o][b]]) + GoodsOf(L)[b] = stock[b].reserved
    BY <1>1, <1>2, <1>4 DEF Balanced
  <2>4. Total([o \in Q |-> log[o][b]]) \in Nat
    BY <1>2, QueueHolds DEF Typed
  <2>5. GoodsOf(L \ S)[b] \in Nat /\ GoodsOf(S)[b] \in Nat /\ GoodsOf(L)[b] \in Nat
    BY <1>3, GoodsOfSum
  <2>6. PICK t, n, m, k, r :
          /\ t = Total([o \in Q |-> log[o][b]]) /\ n = GoodsOf(L \ S)[b]
          /\ m = GoodsOf(S)[b] /\ k = GoodsOf(L)[b] /\ r = stock[b].reserved
    OBVIOUS
  <2>7. stock'[b].reserved = r - m
    BY <1>4, <2>1, <2>3, <2>4, <2>5, <2>6 DEF Clamped, Maximum
  <2> QED
    BY <2>1, <2>2, <2>3, <2>4, <2>5, <2>6, <2>7
<1>5. LiveShipments' = L \ S /\ Queued' = Q
  BY <1>1, <1>2
<1> QED
  BY <1>4, <1>5 DEF Balanced, GoodsOf

LEMMA TrucksMove ==
  ASSUME Typed, ShipmentsOK', LoadsFixed, Trucked,
         NEW out \in SUBSET DOMAIN shipment, out \cap Gone = {}, Gone' = Gone \cup out,
         \A b \in Batches : stock'[b].quantity = stock[b].quantity - GoodsOf(out)[b]
  PROVE  Trucked'
<1>1. PICK G : G = Gone
  OBVIOUS
<1>2. G \in SUBSET DOMAIN shipment /\ G \cup out \in SUBSET DOMAIN shipment
  BY <1>1 DEF Gone
<1>3. GoodsOf(G \cup out)' = GoodsOf(G \cup out)
  BY <1>2, GoodsOfKept
<1>4. ASSUME NEW b \in Batches
      PROVE  stock'[b].quantity = Opening[b] - GoodsOf(G \cup out)'[b]
  <2>1. GoodsOf(G \cup out)[b] = GoodsOf(G)[b] + GoodsOf(out)[b]
    BY <1>1, <1>2, GoodsOfParts
  <2>2. GoodsOf(G)[b] \in Nat /\ GoodsOf(out)[b] \in Nat /\ Opening[b] \in Nat
    BY <1>2, GoodsOfSum, FulfilmentAssumption
  <2>3. stock[b].quantity = Opening[b] - GoodsOf(G)[b]
    BY <1>1 DEF Trucked
  <2> QED
    BY <1>3, <2>1, <2>2, <2>3
<1>5. Gone' = G \cup out
  BY <1>1
<1> QED
  BY <1>4, <1>5 DEF Trucked, GoodsOf

(* The orders O come to ost, or none does, and no shipment moves on. *)
LEMMA OrdersAdvance ==
  ASSUME Typed, Life, NEW O, NEW ost, Become(O, ost),
         O = {} \/ ost \notin Waiting \cup {"approved"}, LoadsFixed,
         \A i \in DOMAIN shipment : /\ shipment'[i].status = shipment[i].status
                                    /\ shipment'[i].shipped = shipment[i].shipped
                                    /\ Loading(i)' => Loading(i),
         UNCHANGED <<log, inquiries>>
  PROVE  Life'
<1>1. Advance(O, ost, {}, "preparing", FALSE)
  BY DEF Advance
<1>2. ASSUME NEW i \in DOMAIN shipment
      PROVE  Proceeds(IF shipment[i].order \in O THEN ost ELSE order[shipment[i].order].status,
                      shipment'[i].status, shipment'[i].shipped, Loading(i)')
  <2> DEFINE next == IF shipment[i].order \in O THEN ost ELSE order[shipment[i].order].status
  <2>1. next = order[shipment[i].order].status \/ next \notin Waiting \cup {"approved"}
    OBVIOUS
  <2>2. Proceeds(order[shipment[i].order].status, shipment[i].status, shipment[i].shipped,
                 Loading(i))
    BY DEF Life, InOrder
  <2>3. /\ shipment'[i].status = shipment[i].status /\ shipment'[i].shipped = shipment[i].shipped
        /\ Loading(i)' => Loading(i)
    OBVIOUS
  <2> HIDE DEF next
  <2>4. Proceeds(next, shipment'[i].status, shipment'[i].shipped, Loading(i)')
    BY <2>1, <2>2, <2>3 DEF Proceeds
  <2> QED
    BY <2>4 DEF next
<1> QED
  BY <1>1, <1>2, AdvanceLife

(* The queue stays when no order enters or leaves it. *)
LEMMA QueueStays ==
  ASSUME NEW O, NEW ost, Become(O, ost), O = {} \/ ost # "coordinating",
         \A o \in O : o \in Placed => order[o].status # "coordinating"
  PROVE  Queued' = Queued
  BY DEF Become, Queued

(* What the trucks have taken stays. *)
LEMMA TrucksStay ==
  ASSUME Typed, ShipmentsOK', LoadsFixed,
         \A i \in DOMAIN shipment : shipment'[i].shipped = shipment[i].shipped,
         \A b \in Batches : stock'[b].quantity = stock[b].quantity
  PROVE  Trucked => Trucked'
<1> SUFFICES ASSUME Trucked PROVE Trucked'
  OBVIOUS
<1>1. Gone' = Gone \cup {}
  BY DEF Gone, LoadsFixed
<1>2. {} \in SUBSET DOMAIN shipment /\ {} \cap Gone = {}
  OBVIOUS
<1>3. ASSUME NEW b \in Batches
      PROVE  stock'[b].quantity = stock[b].quantity - GoodsOf({})[b]
  <2>1. GoodsOf({})[b] = 0 /\ stock[b].quantity \in Int
    BY GoodsOfParts, StockFacts
  <2> QED
    BY <2>1
<1> QED
  BY <1>1, <1>2, <1>3, TrucksMove

(* No shipment is taken off the list of those being prepared. *)
LEMMA BalanceStays ==
  ASSUME Typed, ShipmentsOK', LoadsFixed, UNCHANGED log, Queued' = Queued,
         \A i \in DOMAIN shipment : Live(i)' <=> Live(i),
         \A b \in Batches : stock'[b].status # "expired" =>
           stock[b].status # "expired" /\ stock'[b].reserved = stock[b].reserved
  PROVE  Balanced => Balanced'
<1> SUFFICES ASSUME Balanced PROVE Balanced'
  OBVIOUS
<1>1. LiveShipments' = LiveShipments \ {} /\ {} \in SUBSET LiveShipments
  BY DEF LiveShipments, LoadsFixed
<1>2. ASSUME NEW b \in Batches, stock'[b].status # "expired"
      PROVE  /\ stock[b].status # "expired"
             /\ stock'[b].reserved \in {stock[b].reserved - GoodsOf({})[b],
                                        Clamped(stock, b, GoodsOf({})[b])}
  <2>1. GoodsOf({})[b] = 0 /\ stock[b].reserved \in Int
    BY GoodsOfParts, StockFacts
  <2> QED
    BY <1>2, <2>1
<1> QED
  BY <1>1, <1>2, BalanceMoves

LEMMA BooksStay ==
  ASSUME Typed, ShipmentsOK', LoadsFixed, UNCHANGED <<stock, log>>, Queued' = Queued,
         \A i \in DOMAIN shipment : /\ Live(i)' <=> Live(i)
                                    /\ shipment'[i].shipped = shipment[i].shipped
  PROVE  BooksFollow
<1>1. Trucked => Trucked'
  BY TrucksStay
<1>2. Balanced => Balanced'
  BY BalanceStays
<1> QED
  BY <1>1, <1>2 DEF BooksFollow

(* Only the orders O change, of which none is in the queue. *)
LEMMA OnlyOrders ==
  ASSUME Typed, ShipmentsOK', Life, NEW O, NEW ost, Become(O, ost),
         ost \notin Waiting \cup {"approved"},
         \A o \in O : o \in Placed => order[o].status # "coordinating",
         UNCHANGED <<stock, log, shipment, manifest, inquiries>>
  PROVE  Life' /\ BooksFollow
<1>1. LoadsFixed
  BY NothingMoves
<1>2. \A i \in DOMAIN shipment : /\ shipment'[i].status = shipment[i].status
                                 /\ shipment'[i].shipped = shipment[i].shipped
                                 /\ Loading(i)' => Loading(i)
                                 /\ Live(i)' <=> Live(i)
  BY DEF Loading, Live
<1>3. Queued' = Queued
  BY QueueStays DEF Waiting
<1>4. Life'
  BY <1>1, <1>2, OrdersAdvance
<1>5. BooksFollow
  BY <1>1, <1>2, <1>3, BooksStay
<1> QED
  BY <1>4, <1>5

LEMMA RefusalAdvances ==
  ASSUME Typed, ShipmentsOK', Life, HubReads, NEW c \in Clients,
         \/ rejectOrder(c) \/ cancelOrder(c)
         \/ approveOrder(c) /\ rejectOutOfStock(OrderOf(c))
  PROVE  Life' /\ BooksFollow
<1>1. PICK o : o = OrderOf(c)
  OBVIOUS
<1>2. req[c].kind \in {"approve", "reject", "cancel"}
  BY DEF rejectOrder, cancelOrder, approveOrder, Handles
<1>3. order[o].status = "pending"
  <2>1. o \in req[c].orders
    BY <1>1, <1>2, OneOrder DEF AboutOneOrder
  <2>2. ReadHolds(req[c])
    BY DEF HubReads, HubReadHolds
  <2> QED
    BY <1>2, <2>1, <2>2 DEF ReadHolds
<1>4. PICK st \in {"rejected", "cancelled"} :
        /\ order' = WithStatus(o, st)
        /\ UNCHANGED <<stock, log, shipment, manifest, inquiries>>
  BY <1>1 DEF rejectOrder, cancelOrder, approveOrder, rejectOutOfStock
<1>5. Become({o}, st)
  BY <1>4, OneBecomes
<1>6. st \notin Waiting \cup {"approved"}
  BY DEF Waiting
<1> QED
  BY <1>3, <1>4, <1>5, <1>6, OnlyOrders

(* The shipments of S come to st, with the orders O, or leave. *)
LEMMA ShipsAdvance ==
  ASSUME Typed, Life, NEW O, NEW ost, Become(O, ost),
         O = {} \/ ost \notin Waiting \cup {"approved"}, LoadsFixed,
         NEW S \in SUBSET DOMAIN shipment, NEW st, NEW leave,
         \A i \in DOMAIN shipment :
           /\ shipment'[i].status = IF i \in S THEN st ELSE shipment[i].status
           /\ shipment'[i].shipped = IF i \in S THEN leave \/ shipment[i].shipped
                                     ELSE shipment[i].shipped
           /\ i \notin S /\ Loading(i)' => Loading(i),
         \A i \in S :
           Proceeds(IF shipment[i].order \in O THEN ost ELSE order[shipment[i].order].status,
                    st, leave \/ shipment[i].shipped, Loading(i)'),
         UNCHANGED <<log, inquiries>>
  PROVE  Life'
<1>1. Advance(O, ost, S, st, leave)
  BY DEF Advance
<1>2. O = {} \/ ost \notin Waiting
  OBVIOUS
<1>3. ASSUME NEW i \in DOMAIN shipment
      PROVE  Proceeds(IF shipment[i].order \in O THEN ost ELSE order[shipment[i].order].status,
                      shipment'[i].status, shipment'[i].shipped, Loading(i)')
  <2> DEFINE next == IF shipment[i].order \in O THEN ost ELSE order[shipment[i].order].status
  <2>1. next = order[shipment[i].order].status \/ next \notin Waiting \cup {"approved"}
    OBVIOUS
  <2>2. Proceeds(order[shipment[i].order].status, shipment[i].status, shipment[i].shipped,
                 Loading(i))
    BY DEF Life, InOrder
  <2>3. i \notin S => /\ shipment'[i].status = shipment[i].status
                      /\ shipment'[i].shipped = shipment[i].shipped
                      /\ Loading(i)' => Loading(i)
    OBVIOUS
  <2>4. i \in S => /\ shipment'[i].status = st
                   /\ shipment'[i].shipped = (leave \/ shipment[i].shipped)
                   /\ Proceeds(next, st, leave \/ shipment[i].shipped, Loading(i)')
    OBVIOUS
  <2> HIDE DEF next
  <2>5. Proceeds(next, shipment'[i].status, shipment'[i].shipped, Loading(i)')
    <3>1. CASE i \in S
      BY <2>4, <3>1
    <3>2. CASE i \notin S
      BY <2>1, <2>2, <2>3, <3>2 DEF Proceeds
    <3> QED
      BY <3>1, <3>2
  <2> QED
    BY <2>5 DEF next
<1> QED
  BY <1>1, <1>2, <1>3, AdvanceLife

(* What shipments and orders say of each other. *)
LEMMA LifeOf ==
  ASSUME Typed, Life, NEW i \in DOMAIN shipment
  PROVE  /\ order[shipment[i].order].status \notin Waiting
         /\ order[shipment[i].order].status = "approved" =>
              Live(i) /\ shipment[i].shipped = FALSE
         /\ Loading(i) => /\ shipment[i].shipped = FALSE
                          /\ shipment[i].status \in {"preparing", "consolidated", "cancelled"}
         /\ Live(i) => shipment[i].shipped = FALSE
         /\ shipment[i].order \in Placed
<1>1. shipment[i].shipped \in BOOLEAN /\ shipment[i].order \in Placed
  BY ShipmentFacts DEF ShipmentRow
<1>2. Proceeds(order[shipment[i].order].status, shipment[i].status, shipment[i].shipped,
               Loading(i))
  BY DEF Life, InOrder
<1> QED
  BY <1>1, <1>2 DEF Proceeds, Live

(* A forced cancellation: what has left stays away. *)
LEMMA ForceCancelAdvances ==
  ASSUME Typed, ShipmentsOK', Life, NEW c \in Clients, forceCancelOrder(c)
  PROVE  Life' /\ BooksFollow
<1>1. PICK o : o = OrderOf(c)
  OBVIOUS
<1>2. /\ IF ShipmentsOf(o) = {} THEN UNCHANGED <<stock, shipment>>
         ELSE \E i \in ShipmentsOf(o) :
                /\ stock' = Released(stock, GoodsOf({i}))
                /\ shipment' = [shipment EXCEPT ![i].status = "cancelled"]
      /\ order' = WithStatus(o, "cancelled")
      /\ UNCHANGED <<log, manifest, inquiries>>
  BY <1>1 DEF forceCancelOrder
<1>3. Become({o}, "cancelled") /\ "cancelled" \notin Waiting \cup {"approved"}
  BY <1>2, OneBecomes DEF Waiting
<1>4. Overrides(c)
  BY DEF forceCancelOrder, Handles, Overrides
<1>5. CASE ShipmentsOf(o) = {}
  <2>1. UNCHANGED <<stock, shipment>>
    BY <1>2, <1>5
  <2>2. LoadsFixed
    BY <2>1, NothingMoves
  <2>3. \A i \in DOMAIN shipment : /\ shipment'[i].status = shipment[i].status
                                   /\ shipment'[i].shipped = shipment[i].shipped
                                   /\ Loading(i)' => Loading(i)
    BY <1>2, <2>1 DEF Loading
  <2>4. Life'
    BY <1>2, <1>3, <2>2, <2>3, OrdersAdvance
  <2>5. Trucked => Trucked'
    BY <2>1, <2>2, <2>3, TrucksStay
  <2> QED
    BY <1>4, <2>4, <2>5 DEF BooksFollow
<1>6. CASE ShipmentsOf(o) # {}
  <2>1. PICK i \in ShipmentsOf(o) : /\ stock' = Released(stock, GoodsOf({i}))
                                    /\ shipment' = [shipment EXCEPT ![i].status = "cancelled"]
    BY <1>2, <1>6
  <2>2. i \in DOMAIN shipment /\ shipment[i].order = o
    BY OwnShipment DEF Life
  <2>3. Moves({i}, "cancelled", shipment[i].manifest, shipment[i].shipped)
    BY <2>1, <2>2, StatusMoves
  <2>4. /\ LoadsFixed
        /\ \A j \in DOMAIN shipment :
             /\ shipment'[j].status = IF j \in {i} THEN "cancelled" ELSE shipment[j].status
             /\ shipment'[j].shipped = shipment[j].shipped
             /\ shipment'[j].manifest = shipment[j].manifest
    BY <2>3 DEF Moves, Place
  <2>5. \A j \in DOMAIN shipment : Loading(j)' => Loading(j)
    BY <1>2, <2>4 DEF Loading
  <2>6. Proceeds("cancelled", "cancelled", FALSE \/ shipment[i].shipped, Loading(i)')
    BY <2>2, <2>5, LifeOf DEF Proceeds, Waiting
  <2>7. Life'
    <3>1. {i} \in SUBSET DOMAIN shipment
      BY <2>2
    <3>2. \A j \in DOMAIN shipment :
            /\ shipment'[j].status = IF j \in {i} THEN "cancelled" ELSE shipment[j].status
            /\ shipment'[j].shipped = IF j \in {i} THEN FALSE \/ shipment[j].shipped
                                      ELSE shipment[j].shipped
            /\ j \notin {i} /\ Loading(j)' => Loading(j)
      <4>1. \A j \in DOMAIN shipment : shipment[j].shipped \in BOOLEAN
        BY ShipmentFacts DEF ShipmentRow
      <4> QED
        BY <2>4, <2>5, <4>1
    <3>3. \A j \in {i} :
            Proceeds(IF shipment[j].order \in {o} THEN "cancelled"
                     ELSE order[shipment[j].order].status,
                     "cancelled", FALSE \/ shipment[j].shipped, Loading(j)')
      BY <2>2, <2>6
    <3> QED
      BY <1>2, <1>3, <2>4, <3>1, <3>2, <3>3, ShipsAdvance
  <2>8. Trucked => Trucked'
    <3>1. GoodsOf({i}) \in Bundles
      BY <2>2, GoodsOfType
    <3>2. \A b \in Batches : stock'[b].quantity = stock[b].quantity
      BY <2>1, <3>1, StockColumns
    <3> QED
      BY <2>4, <3>2, TrucksStay
  <2> QED
    BY <1>4, <2>7, <2>8 DEF BooksFollow
<1> QED
  BY <1>5, <1>6

(* The request's SELECTs. *)
LEMMA HubRead ==
  ASSUME HubReads, NEW c \in Clients
  PROVE  ReadHolds(req[c]) /\ HubReadHolds(req[c])
  BY DEF HubReads, HubReadHolds

LEMMA FinalizeAdvances ==
  ASSUME Typed, ShipmentsOK', Life, HubReads, NEW c \in Clients, finalizeBulkShipment(c)
  PROVE  Life' /\ BooksFollow
<1>1. PICK o : o = OrderOf(c)
  OBVIOUS
<1>2. req[c].kind = "finalize"
  BY DEF finalizeBulkShipment, Handles
<1>3. order[o].status = "approved"
  <2>1. o \in req[c].orders
    BY <1>1, <1>2, OneOrder DEF AboutOneOrder
  <2> QED
    BY <1>2, <2>1, HubRead DEF ReadHolds
<1>4. /\ IF PrimaryShipments(o) = {} THEN UNCHANGED <<stock, shipment>>
         ELSE \E i \in PrimaryShipments(o) :
                /\ shipment[i].manifest = None
                /\ stock' = FinallyDecreased(stock, GoodsOf({i}))
                /\ shipment' = [shipment EXCEPT ![i].status = "in_transit",
                                                ![i].shipped = TRUE]
      /\ order' = WithStatus(o, "delivering")
      /\ UNCHANGED <<log, manifest, inquiries>>
  BY <1>1 DEF finalizeBulkShipment
<1>5. Become({o}, "delivering") /\ "delivering" \notin Waiting \cup {"approved"}
  BY <1>4, OneBecomes DEF Waiting
<1>6. CASE PrimaryShipments(o) = {}
  <2>1. UNCHANGED <<stock, log, shipment, manifest, inquiries>>
    BY <1>4, <1>6
  <2> QED
    BY <1>3, <1>5, <2>1, OnlyOrders
<1>7. CASE PrimaryShipments(o) # {}
  <2>1. PICK i \in PrimaryShipments(o) :
          /\ shipment[i].manifest = None
          /\ stock' = FinallyDecreased(stock, GoodsOf({i}))
          /\ shipment' = [shipment EXCEPT ![i].status = "in_transit", ![i].shipped = TRUE]
    BY <1>4, <1>7
  <2>2. i \in DOMAIN shipment /\ shipment[i].order = o
    BY DEF PrimaryShipments
  <2>3. Live(i) /\ shipment[i].shipped = FALSE
    BY <1>3, <2>2, LifeOf
  <2>4. Moves({i}, "in_transit", None, TRUE)
    BY <2>1, <2>2, DispatchMoves
  <2>5. /\ LoadsFixed /\ {i} \in SUBSET LiveShipments
        /\ LiveShipments' = LiveShipments \ {i} /\ Gone' = Gone \cup {i}
    BY <2>2, <2>3, <2>4, OneLeaves
  <2>6. GoodsOf({i}) \in Bundles
    BY <2>2, GoodsOfType
  <2>7. \A b \in Batches :
          /\ stock'[b].status = stock[b].status
          /\ stock'[b].quantity = stock[b].quantity - GoodsOf({i})[b]
          /\ stock'[b].reserved = stock[b].reserved - GoodsOf({i})[b]
    BY <2>1, <2>6, StockColumns
  <2>8. Queued' = Queued
    BY <1>3, <1>5, QueueStays
  <2>9. Balanced => Balanced'
    BY <1>4, <2>5, <2>7, <2>8, BalanceMoves
  <2>10. Trucked => Trucked'
    <3>1. {i} \in SUBSET DOMAIN shipment /\ {i} \cap Gone = {}
      BY <2>2, <2>3 DEF Gone
    <3> QED
      BY <2>5, <2>7, <3>1, TrucksMove
  <2>11. ASSUME NEW j \in DOMAIN shipment
         PROVE  /\ shipment'[j].status = IF j \in {i} THEN "in_transit" ELSE shipment[j].status
                /\ shipment'[j].shipped = IF j \in {i} THEN TRUE \/ shipment[j].shipped
                                          ELSE shipment[j].shipped
                /\ shipment'[j].manifest = shipment[j].manifest
    <3>1. Place(shipment'[j]) = IF j \in {i} THEN <<"in_transit", None, TRUE>>
                                ELSE Place(shipment[j])
      BY <2>4 DEF Moves
    <3>2. shipment[i].manifest = None
      BY <2>1
    <3>3. CASE j = i
      BY <3>1, <3>2, <3>3 DEF Place
    <3>4. CASE j # i
      BY <3>1, <3>4 DEF Place
    <3> QED
      BY <3>3, <3>4
  <2>12. \A j \in DOMAIN shipment : Loading(j)' => Loading(j)
    BY <1>4, <2>11 DEF Loading
  <2>13. ~Loading(i)'
    BY <2>1, <2>2, <2>12 DEF Loading
  <2>14. Life'
    <3>1. {i} \in SUBSET DOMAIN shipment
      BY <2>2
    <3>2. \A j \in DOMAIN shipment :
            /\ shipment'[j].status = IF j \in {i} THEN "in_transit" ELSE shipment[j].status
            /\ shipment'[j].shipped = IF j \in {i} THEN TRUE \/ shipment[j].shipped
                                      ELSE shipment[j].shipped
            /\ j \notin {i} /\ Loading(j)' => Loading(j)
      BY <2>11, <2>12
    <3>3. Proceeds("delivering", "in_transit", TRUE \/ shipment[i].shipped, Loading(i)')
      BY <2>13 DEF Proceeds, Waiting
    <3>4. \A j \in {i} :
            Proceeds(IF shipment[j].order \in {o} THEN "delivering"
                     ELSE order[shipment[j].order].status,
                     "in_transit", TRUE \/ shipment[j].shipped, Loading(j)')
      BY <2>2, <3>3
    <3> QED
      BY <1>4, <1>5, <2>5, <3>1, <3>2, <3>4, ShipsAdvance
  <2> QED
    BY <2>9, <2>10, <2>14 DEF BooksFollow
<1> QED
  BY <1>6, <1>7

LEMMA ReceiveAdvances ==
  ASSUME Typed, ShipmentsOK', Life, HubReads, NEW c \in Clients, receiveShipment(c)
  PROVE  Life' /\ BooksFollow
<1>1. PICK i : i = req[c].target
  OBVIOUS
<1>2. i \in DOMAIN shipment /\ shipment[i].status = "in_transit"
  <2>1. req[c].kind = "receive"
    BY DEF receiveShipment, Handles
  <2> QED
    BY <1>1, <2>1, HubRead DEF Typed, RequestsOK, RequestOK, ReadHolds
<1>3. /\ UNCHANGED <<stock, log, manifest, inquiries>>
      /\ shipment' = [shipment EXCEPT ![i].status = "completed"]
      /\ \E st \in {"claimed", "completed"} : order' = WithStatus(shipment[i].order, st)
  <2>1. /\ UNCHANGED <<stock, log, manifest, inquiries>>
        /\ shipment' = [shipment EXCEPT ![i].status = "completed"]
    BY <1>1, ReceiptMade
  <2>2. PICK report :
          LET came == Came(shipment[i].items, report)
              lost == Lost(shipment[i].items, report)
              short == \E k \in DOMAIN shipment[i].items : lost[k].quantity > 0
          IN order' = WithStatus(shipment[i].order, IF short THEN "claimed" ELSE "completed")
    BY <1>1, ReceiptMade
  <2> QED
    BY <2>1, <2>2
<1>4. PICK st \in {"claimed", "completed"} : order' = WithStatus(shipment[i].order, st)
  BY <1>3
<1>5. PICK o : o = shipment[i].order
  OBVIOUS
<1>6. Become({o}, st) /\ st \notin Waiting \cup {"approved"}
  BY <1>4, <1>5, OneBecomes DEF Waiting
<1>7. Moves({i}, "completed", shipment[i].manifest, shipment[i].shipped)
  BY <1>2, <1>3, StatusMoves
<1>8. /\ LoadsFixed
      /\ \A j \in DOMAIN shipment :
           /\ shipment'[j].status = IF j \in {i} THEN "completed" ELSE shipment[j].status
           /\ shipment'[j].shipped = shipment[j].shipped
           /\ shipment'[j].manifest = shipment[j].manifest
  BY <1>7 DEF Moves, Place
<1>9. \A j \in DOMAIN shipment : Loading(j)' => Loading(j)
  BY <1>3, <1>8 DEF Loading
<1>10. ~Loading(i)' /\ order[o].status \notin Waiting
  BY <1>2, <1>5, <1>9, LifeOf
<1>11. Life'
  <2>1. {i} \in SUBSET DOMAIN shipment
    BY <1>2
  <2>2. \A j \in DOMAIN shipment :
          /\ shipment'[j].status = IF j \in {i} THEN "completed" ELSE shipment[j].status
          /\ shipment'[j].shipped = IF j \in {i} THEN FALSE \/ shipment[j].shipped
                                    ELSE shipment[j].shipped
          /\ j \notin {i} /\ Loading(j)' => Loading(j)
    <3>1. \A j \in DOMAIN shipment : shipment[j].shipped \in BOOLEAN
      BY ShipmentFacts DEF ShipmentRow
    <3> QED
      BY <1>8, <1>9, <3>1
  <2>3. Proceeds(st, "completed", FALSE \/ shipment[i].shipped, Loading(i)')
    BY <1>6, <1>10 DEF Proceeds
  <2>4. \A j \in {i} :
          Proceeds(IF shipment[j].order \in {o} THEN st ELSE order[shipment[j].order].status,
                   "completed", FALSE \/ shipment[j].shipped, Loading(j)')
    BY <1>5, <2>3
  <2> QED
    BY <1>3, <1>6, <1>8, <2>1, <2>2, <2>4, ShipsAdvance
<1>12. \A j \in DOMAIN shipment : Live(j)' <=> Live(j)
  BY <1>2, <1>8 DEF Live
<1>13. Queued' = Queued
  BY <1>6, <1>10, QueueStays DEF Waiting
<1>14. BooksFollow
  BY <1>3, <1>8, <1>12, <1>13, BooksStay
<1> QED
  BY <1>11, <1>14

LEMMA ClaimAdvances ==
  ASSUME Typed, ShipmentsOK', Life, NEW c \in Clients, createManualClaim(c) \/ resolveClaim(c)
  PROVE  Life' /\ BooksFollow
<1>1. UNCHANGED <<stock, log, shipment, manifest, inquiries>>
  BY DEF createManualClaim, resolveClaim
<1>2. CASE createManualClaim(c)
  <2>1. PICK i : i = req[c].target.shipment
    OBVIOUS
  <2>2. i \in DOMAIN shipment
    BY <1>2, <2>1 DEF Typed, RequestsOK, RequestOK, createManualClaim, Handles
  <2>3. order' = WithStatus(shipment[i].order, "claimed")
    BY <1>2, <2>1 DEF createManualClaim
  <2>4. /\ Become({shipment[i].order}, "claimed") /\ "claimed" \notin Waiting \cup {"approved"}
        /\ order[shipment[i].order].status # "coordinating"
    BY <2>2, <2>3, LifeOf, OneBecomes DEF Waiting
  <2> QED
    BY <1>1, <2>4, OnlyOrders
<1>3. CASE resolveClaim(c)
  <2>1. Become({}, "claimed") /\ "claimed" \notin Waiting \cup {"approved"}
    BY <1>3 DEF resolveClaim, Become, Placed, Waiting
  <2> QED
    BY <1>1, <2>1, OnlyOrders
<1> QED
  BY <1>2, <1>3

(* A new manifest: its shipments, of approved orders, are prepared, and     *)
(* picked if they are consolidated.                                        *)
LEMMA ManifestMade ==
  ASSUME Typed, Life, HubReads, NEW c \in Clients,
         createManifest(c) \/ consolidateManifestOrders(c)
  PROVE  \E S \in SUBSET DOMAIN shipment, m \in Manifests \ DOMAIN manifest :
           /\ \A i \in S : Live(i)
           /\ manifest' = [n \in DOMAIN manifest \cup {m} |->
                             IF n = m THEN "preparing" ELSE manifest[n]]
           /\ LoadsFixed
           /\ \A i \in DOMAIN shipment :
                /\ \/ shipment'[i].status = shipment[i].status
                   \/ i \in S /\ shipment'[i].status = "consolidated"
                /\ shipment'[i].shipped = shipment[i].shipped
                /\ i \notin S => shipment'[i].manifest = shipment[i].manifest
           /\ \E O : /\ Become(O, "picking")
                     /\ \A o \in O : \E i \in S : shipment[i].order = o
           /\ UNCHANGED <<stock, log, inquiries>>
<1>1. PICK S : S = req[c].target
  OBVIOUS
<1>2. /\ S \in SUBSET DOMAIN shipment /\ \A i \in S : Live(i)
      /\ UNCHANGED <<stock, log, inquiries>>
  <2>1. req[c].kind \in {"manifest", "consolidate"}
    BY DEF createManifest, consolidateManifestOrders, Handles
  <2>2. RequestOK(req[c]) /\ ReadHolds(req[c])
    BY HubRead DEF Typed, RequestsOK
  <2> QED
    BY <1>1, <2>1, <2>2 DEF RequestOK, ReadHolds, Open, Live, createManifest,
       consolidateManifestOrders
<1>3. \A i \in DOMAIN shipment :
        /\ \/ shipment'[i].status = shipment[i].status
           \/ i \in S /\ shipment'[i].status = "consolidated"
        /\ shipment'[i].shipped = shipment[i].shipped
  BY <1>1, ManifestLoads
<1>4. LoadsFixed
  BY ManifestLoads
<1>5. CASE createManifest(c)
  <2>1. PICK m \in Manifests \ DOMAIN manifest :
          /\ manifest' = [n \in DOMAIN manifest \cup {m} |->
                            IF n = m THEN "preparing" ELSE manifest[n]]
          /\ shipment' = [i \in DOMAIN shipment |->
                            IF i \in S THEN [shipment[i] EXCEPT !.manifest = m]
                            ELSE shipment[i]]
    BY <1>1, <1>5 DEF createManifest
  <2>2. \A i \in DOMAIN shipment : i \notin S => shipment'[i].manifest = shipment[i].manifest
    BY <2>1
  <2>3. Become({}, "picking") /\ \A o \in {} : \E i \in S : shipment[i].order = o
    BY <1>5 DEF createManifest, Become, Placed
  <2> QED
    BY <1>2, <1>3, <1>4, <2>1, <2>2, <2>3
<1>6. CASE consolidateManifestOrders(c)
  <2>1. PICK m \in Manifests \ DOMAIN manifest :
          /\ manifest' = [n \in DOMAIN manifest \cup {m} |->
                            IF n = m THEN "preparing" ELSE manifest[n]]
          /\ shipment' = [i \in DOMAIN shipment |->
                            IF i \in S THEN [shipment[i] EXCEPT !.manifest = m,
                                                                !.status = "consolidated"]
                            ELSE shipment[i]]
    BY <1>1, <1>6 DEF consolidateManifestOrders
  <2>2. \A i \in DOMAIN shipment : i \notin S => shipment'[i].manifest = shipment[i].manifest
    BY <2>1
  <2>3. PICK O : O = {shipment[i].order : i \in S}
    OBVIOUS
  <2>4. order' = [o \in Placed |-> IF o \in O THEN [order[o] EXCEPT !.status = "picking",
                                                                   !.slip = TRUE]
                                   ELSE order[o]]
    BY <1>1, <1>6, <2>3 DEF consolidateManifestOrders
  <2>5. Become(O, "picking") /\ \A o \in O : \E i \in S : shipment[i].order = o
    BY <2>3, <2>4, SomeBecome
  <2> QED
    BY <1>2, <1>3, <1>4, <2>1, <2>2, <2>5
<1> QED
  BY <1>5, <1>6

LEMMA ManifestAdvances ==
  ASSUME Typed, ShipmentsOK', Life, HubReads, NEW c \in Clients,
         createManifest(c) \/ consolidateManifestOrders(c)
  PROVE  Life' /\ BooksFollow
<1>1. PICK S \in SUBSET DOMAIN shipment, m \in Manifests \ DOMAIN manifest :
        /\ \A i \in S : Live(i)
        /\ manifest' = [n \in DOMAIN manifest \cup {m} |->
                          IF n = m THEN "preparing" ELSE manifest[n]]
        /\ LoadsFixed
        /\ \A i \in DOMAIN shipment :
             /\ \/ shipment'[i].status = shipment[i].status
                \/ i \in S /\ shipment'[i].status = "consolidated"
             /\ shipment'[i].shipped = shipment[i].shipped
             /\ i \notin S => shipment'[i].manifest = shipment[i].manifest
        /\ \E O : /\ Become(O, "picking")
                  /\ \A o \in O : \E i \in S : shipment[i].order = o
        /\ UNCHANGED <<stock, log, inquiries>>
  BY ManifestMade
<1>2. PICK O : Become(O, "picking") /\ \A o \in O : \E i \in S : shipment[i].order = o
  BY <1>1
<1>3. \A i \in DOMAIN shipment : Live(i)' <=> Live(i)
  BY <1>1 DEF Live
<1>4. Queued' = Queued
  <2>1. ASSUME NEW o \in O PROVE order[o].status # "coordinating"
    <3>1. PICK i \in S : shipment[i].order = o
      BY <1>2
    <3>2. order[shipment[i].order].status \notin Waiting
      BY LifeOf
    <3> QED
      BY <3>1, <3>2 DEF Waiting
  <2> QED
    BY <1>2, <2>1, QueueStays
<1>5. BooksFollow
  BY <1>1, <1>3, <1>4, BooksStay
<1>6. \A i \in DOMAIN shipment : i \notin S => (Loading(i)' => Loading(i))
  BY <1>1, NewManifest DEF Loading
<1>7. ASSUME NEW i \in DOMAIN shipment
      PROVE  Proceeds(IF shipment[i].order \in O THEN "picking"
                      ELSE order[shipment[i].order].status,
                      shipment'[i].status, shipment'[i].shipped, Loading(i)')
  <2> DEFINE next == IF shipment[i].order \in O THEN "picking"
                     ELSE order[shipment[i].order].status
  <2>1. next = order[shipment[i].order].status \/ next \notin Waiting \cup {"approved"}
    BY DEF Waiting
  <2>2. Proceeds(order[shipment[i].order].status, shipment[i].status, shipment[i].shipped,
                 Loading(i))
    BY DEF Life, InOrder
  <2>3. /\ \/ shipment'[i].status = shipment[i].status
           \/ i \in S /\ shipment'[i].status = "consolidated"
        /\ shipment'[i].shipped = shipment[i].shipped
        /\ i \in S \/ (Loading(i)' => Loading(i))
        /\ i \in S => shipment[i].status \in {"preparing", "consolidated"}
    BY <1>1, <1>6 DEF Live
  <2> HIDE DEF next
  <2>4. Proceeds(next, shipment'[i].status, shipment'[i].shipped, Loading(i)')
    <3>1. CASE i \in S
      BY <2>1, <2>2, <2>3, <3>1 DEF Proceeds
    <3>2. CASE i \notin S
      BY <2>1, <2>2, <2>3, <3>2 DEF Proceeds
    <3> QED
      BY <3>1, <3>2
  <2> QED
    BY <2>4 DEF next
<1>8. Life'
  <2>1. PICK T : T = {i \in DOMAIN shipment : shipment'[i].status # shipment[i].status}
    OBVIOUS
  <2>2. Advance(O, "picking", T, "consolidated", FALSE)
    <3>1. T \in SUBSET DOMAIN shipment
      BY <2>1
    <3>2. \A i \in DOMAIN shipment :
            /\ shipment'[i].status = IF i \in T THEN "consolidated" ELSE shipment[i].status
            /\ shipment'[i].shipped = IF i \in T THEN FALSE \/ shipment[i].shipped
                                      ELSE shipment[i].shipped
      <4>1. \A i \in DOMAIN shipment : shipment[i].shipped \in BOOLEAN
        BY ShipmentFacts DEF ShipmentRow
      <4> QED
        BY <1>1, <2>1, <4>1
    <3> QED
      BY <1>1, <1>2, <3>1, <3>2 DEF Advance
  <2>3. "picking" \notin Waiting
    BY DEF Waiting
  <2> QED
    BY <1>1, <1>7, <2>2, <2>3, AdvanceLife
<1> QED
  BY <1>5, <1>8

(* A cancelled manifest leaves its shipments where they are. *)
LEMMA CancelManifestAdvances ==
  ASSUME Typed, ShipmentsOK', Life, NEW c \in Clients, cancelManifest(c)
  PROVE  Life' /\ BooksFollow
<1>1. PICK m : m = req[c].target
  OBVIOUS
<1>2. PICK S : S = OnManifest(m)
  OBVIOUS
<1>3. /\ stock' = Released(stock, GoodsOf(S))
      /\ shipment' = [i \in DOMAIN shipment |->
                        IF i \in S THEN [shipment[i] EXCEPT !.manifest = None]
                        ELSE shipment[i]]
      /\ manifest' = [manifest EXCEPT ![m] = "cancelled"]
      /\ UNCHANGED <<log, order, inquiries>>
  BY <1>1, <1>2 DEF cancelManifest
<1>4. /\ LoadsFixed
      /\ \A i \in DOMAIN shipment :
           Place(shipment'[i]) = IF i \in S THEN <<shipment[i].status, None, shipment[i].shipped>>
                                 ELSE Place(shipment[i])
  BY <1>3, AttachMoves
<1>5. \A i \in DOMAIN shipment :
        /\ shipment'[i].status = shipment[i].status
        /\ shipment'[i].shipped = shipment[i].shipped
        /\ shipment'[i].manifest = IF i \in S THEN None ELSE shipment[i].manifest
  BY <1>4 DEF Place
<1>6. \A i \in DOMAIN shipment : Loading(i)' => Loading(i)
  <2>1. \A i \in DOMAIN shipment : shipment[i].manifest \in DOMAIN manifest \cup {None}
    BY ShipmentFacts
  <2> QED
    BY <1>2, <1>3, <1>5, <2>1 DEF Loading, OnManifest
<1>7. Become({}, "picking")
  BY <1>3 DEF Become, Placed
<1>8. Life'
  BY <1>3, <1>4, <1>5, <1>6, <1>7, OrdersAdvance
<1>9. Trucked => Trucked'
  <2>1. GoodsOf(S) \in Bundles
    BY <1>2, GoodsOfType DEF OnManifest
  <2>2. \A b \in Batches : stock'[b].quantity = stock[b].quantity
    BY <1>3, <2>1, StockColumns
  <2> QED
    BY <1>4, <1>5, <2>2, TrucksStay
<1>10. Overrides(c)
  BY DEF cancelManifest, Handles, Overrides
<1> QED
  BY <1>8, <1>9, <1>10 DEF BooksFollow

(* A departure takes what is on the truck; of a load without a cancelled    *)
(* shipment all was reserved.                                              *)
LEMMA DepartureAdvances ==
  ASSUME Typed, ShipmentsOK', Life, HubReads, NEW c \in Clients, confirmManifestDeparture(c)
  PROVE  Life' /\ BooksFollow
<1>1. req[c].kind = "depart"
  BY DEF confirmManifestDeparture, Handles
<1>2. PICK m, load : m = req[c].target.manifest /\ load = req[c].target.load
  OBVIOUS
<1>3. PICK S : S = DOMAIN load
  OBVIOUS
<1>4. /\ S \in SUBSET DOMAIN shipment /\ S = OnManifest(m) /\ manifest[m] = "preparing"
      /\ m # None /\ m \in DOMAIN manifest
      /\ \A i \in S : load[i] = Goods(shipment[i].items)
  <2>1. ReadHolds(req[c]) /\ RequestOK(req[c]) /\ ManifestsOK
    BY HubRead DEF Typed, RequestsOK
  <2> QED
    BY <1>1, <1>2, <1>3, <2>1, FulfilmentAssumption DEF ReadHolds, RequestOK, ManifestsOK
<1>5. /\ stock' = Exported(stock, [b \in Batches |-> Total([i \in DOMAIN load |-> load[i][b]])])
      /\ shipment' = [i \in DOMAIN shipment |->
                        IF i \in S
                        THEN [shipment[i] EXCEPT !.status = "in_transit", !.shipped = TRUE]
                        ELSE shipment[i]]
      /\ order' = [o \in Placed |->
                     IF \E i \in S : shipment[i].order = o
                     THEN [order[o] EXCEPT !.status = "delivering"]
                     ELSE order[o]]
      /\ manifest' = [manifest EXCEPT ![m] = "departed"]
      /\ UNCHANGED <<log, inquiries>>
  BY <1>2, <1>3 DEF confirmManifestDeparture
<1>6. stock' = Exported(stock, GoodsOf(S)) /\ GoodsOf(S) \in Bundles
  <2>1. \A b : [i \in DOMAIN load |-> load[i][b]] = [i \in S |-> Goods(shipment[i].items)[b]]
    BY <1>3, <1>4
  <2>2. [b \in Batches |-> Total([i \in DOMAIN load |-> load[i][b]])] = GoodsOf(S)
    BY <2>1 DEF GoodsOf
  <2> QED
    BY <1>4, <1>5, <2>2, GoodsOfType
<1>7. PICK O : O = {shipment[i].order : i \in S}
  OBVIOUS
<1>8. Become(O, "delivering") /\ "delivering" \notin Waiting \cup {"approved"}
  <2>1. order' = [o \in Placed |-> IF o \in O THEN [order[o] EXCEPT !.status = "delivering"]
                                   ELSE order[o]]
    BY <1>5, <1>7
  <2> QED
    BY <2>1, SomeBecome DEF Waiting
<1>9. /\ LoadsFixed
      /\ \A i \in DOMAIN shipment :
           Place(shipment'[i]) = IF i \in S THEN <<"in_transit", shipment[i].manifest, TRUE>>
                                 ELSE Place(shipment[i])
  BY <1>5, TruckMoves
<1>10. \A i \in DOMAIN shipment :
         /\ shipment'[i].status = IF i \in S THEN "in_transit" ELSE shipment[i].status
         /\ shipment'[i].shipped = IF i \in S THEN TRUE ELSE shipment[i].shipped
         /\ shipment'[i].manifest = shipment[i].manifest
  BY <1>9 DEF Place
<1>11. \A i \in S : Loading(i) /\ shipment[i].shipped = FALSE /\ ~Loading(i)'
                    /\ shipment[i].status \in {"preparing", "consolidated", "cancelled"}
  <2>1. ASSUME NEW i \in S
        PROVE  i \in DOMAIN shipment /\ shipment[i].manifest = m /\ Loading(i)
    BY <1>4 DEF OnManifest, Loading
  <2>2. ASSUME NEW i \in S PROVE ~Loading(i)'
    BY <1>4, <1>5, <1>10, <2>1 DEF Loading
  <2> QED
    BY <2>1, <2>2, LifeOf
<1>12. \A i \in DOMAIN shipment \ S : Loading(i)' => Loading(i)
  <2>1. \A i \in DOMAIN shipment \ S : shipment[i].manifest # m
    BY <1>4 DEF OnManifest
  <2>2. \A i \in DOMAIN shipment : shipment[i].manifest \in DOMAIN manifest \cup {None}
    BY ShipmentFacts
  <2> QED
    BY <1>5, <1>10, <2>1, <2>2 DEF Loading
<1>13. Life'
  <2>1. \A i \in DOMAIN shipment :
          /\ shipment'[i].status = IF i \in S THEN "in_transit" ELSE shipment[i].status
          /\ shipment'[i].shipped = IF i \in S THEN TRUE \/ shipment[i].shipped
                                    ELSE shipment[i].shipped
          /\ i \notin S /\ Loading(i)' => Loading(i)
    BY <1>10, <1>12
  <2>2. ASSUME NEW i \in S
        PROVE  Proceeds(IF shipment[i].order \in O THEN "delivering"
                        ELSE order[shipment[i].order].status,
                        "in_transit", TRUE \/ shipment[i].shipped, Loading(i)')
    <3>1. shipment[i].order \in O /\ ~Loading(i)'
      BY <1>7, <1>11
    <3> QED
      BY <3>1 DEF Proceeds, Waiting
  <2>3. UNCHANGED <<log, inquiries>>
    BY <1>5
  <2>4. S \in SUBSET DOMAIN shipment /\ LoadsFixed
    BY <1>4, <1>9
  <2> QED
    BY <1>8, <2>1, <2>2, <2>3, <2>4, ShipsAdvance
<1>14. DOMAIN shipment' = DOMAIN shipment
  BY <1>9 DEF LoadsFixed
<1>15. \A b \in Batches :
         /\ stock'[b].status = stock[b].status
         /\ stock'[b].quantity = stock[b].quantity - GoodsOf(S)[b]
         /\ stock'[b].reserved = Clamped(stock, b, GoodsOf(S)[b])
  BY <1>6, StockColumns
<1>16. Trucked => Trucked'
  <2>1. S \cap Gone = {}
    BY <1>11 DEF Gone
  <2>2. Gone' = Gone \cup S
    BY <1>4, <1>10, <1>14 DEF Gone
  <2> QED
    BY <1>4, <1>9, <1>15, <2>1, <2>2, TrucksMove
<1>17. ASSUME ~Overrides(c), Balanced PROVE Balanced'
  <2>1. \A i \in S : shipment[i].status # "cancelled"
    BY <1>1, <1>2, <1>3, <1>17 DEF Overrides
  <2>2. S \in SUBSET LiveShipments
    BY <1>4, <1>11, <2>1 DEF LiveShipments, Live
  <2>3. LiveShipments' = LiveShipments \ S
    BY <1>10, <1>14 DEF LiveShipments, Live
  <2>4. Queued' = Queued
    <3>1. ASSUME NEW o \in O PROVE order[o].status # "coordinating"
      <4>1. PICK i \in S : shipment[i].order = o
        BY <1>7
      <4>2. order[shipment[i].order].status \notin Waiting
        BY <1>4, LifeOf
      <4> QED
        BY <4>1, <4>2 DEF Waiting
    <3> QED
      BY <1>8, <3>1, QueueStays
  <2>5. UNCHANGED log
    BY <1>5
  <2> QED
    BY <1>9, <1>15, <1>17, <2>2, <2>3, <2>4, <2>5, BalanceMoves
<1> QED
  BY <1>13, <1>16, <1>17 DEF BooksFollow

(* A scan, and the next day: what expires is no longer counted. *)
LEMMA EnvironmentAdvances ==
  ASSUME Typed, ShipmentsOK', Life,
         \/ cronExpireBatches
         \/ \E i \in DOMAIN shipment : \E k \in DOMAIN shipment[i].items :
              verifyManifestItem(i, k)
  PROVE  Life' /\ BooksFollow
<1>1. LoadsFixed /\ \A i \in DOMAIN shipment : Place(shipment'[i]) = Place(shipment[i])
  BY NothingMoves, ScanMoves DEF cronExpireBatches
<1>2. UNCHANGED <<log, order, manifest, inquiries>>
  BY DEF cronExpireBatches, verifyManifestItem
<1>3. \A i \in DOMAIN shipment : /\ shipment'[i].status = shipment[i].status
                                 /\ shipment'[i].shipped = shipment[i].shipped
                                 /\ shipment'[i].manifest = shipment[i].manifest
  BY <1>1 DEF Place
<1>4. \A i \in DOMAIN shipment : (Loading(i)' => Loading(i)) /\ (Live(i)' <=> Live(i))
  BY <1>2, <1>3 DEF Loading, Live
<1>5. Become({}, "pending")
  BY <1>2 DEF Become, Placed
<1>6. Life'
  BY <1>1, <1>2, <1>3, <1>4, <1>5, OrdersAdvance
<1>7. \A b \in Batches :
        /\ stock'[b].quantity = stock[b].quantity
        /\ stock'[b].status # "expired" => stock[b].status # "expired"
                                           /\ stock'[b].reserved = stock[b].reserved
  <2>1. CASE cronExpireBatches
    <3>1. ASSUME NEW b \in Batches
          PROVE  \/ stock'[b] = stock[b]
                 \/ stock'[b].status = "expired" /\ stock'[b].quantity = stock[b].quantity
      <4>1. stock[b] \in [quantity : Int, reserved : Int,
                          status : Blocked \cup {"available"}]
        BY StockFacts DEF StockRow
      <4> DEFINE row == [stock[b] EXCEPT !.reserved = 0, !.status = "expired"]
      <4>2. row.quantity = stock[b].quantity /\ row.status = "expired"
        BY <4>1
      <4>3. stock'[b] = stock[b] \/ stock'[b] = row
        BY <2>1 DEF cronExpireBatches
      <4> HIDE DEF row
      <4> QED
        BY <4>2, <4>3
    <3> QED
      BY <3>1
  <2>2. CASE \E i \in DOMAIN shipment : \E k \in DOMAIN shipment[i].items :
               verifyManifestItem(i, k)
    BY <2>2 DEF verifyManifestItem
  <2> QED
    BY <2>1, <2>2
<1>8. Queued' = Queued
  BY <1>5, QueueStays
<1>9. Trucked => Trucked'
  BY <1>1, <1>3, <1>7, TrucksStay
<1>10. Balanced => Balanced'
  BY <1>1, <1>2, <1>4, <1>7, <1>8, BalanceStays
<1> QED
  BY <1>6, <1>9, <1>10 DEF BooksFollow

(* The loops of the hub keep the stock rows in balance with what the orders *)
(* of Q hold at that turn.                                                 *)
Covered(rows, held, Q) ==
  \A b \in Batches :
    /\ rows[b].quantity = stock[b].quantity /\ rows[b].status = stock[b].status
    /\ Balanced /\ stock[b].status # "expired" =>
         SumOver([o \in Q |-> held[o][b]], Q) + GoodsOf(LiveShipments)[b] = rows[b].reserved

(* A turn: order o gives back what it holds and takes what it is given; no  *)
(* release is cut at zero.                                                 *)
Turn(rows, next, held, o, take) ==
  \A b \in Batches :
    /\ next[b].quantity = rows[b].quantity /\ next[b].status = rows[b].status
    /\ next[b].reserved = Clamped(rows, b, held[o][b]) + take[b]

LEMMA TurnHolds ==
  ASSUME Typed, NEW rows, NEW held \in [Orders -> Bundles], NEW Q \in SUBSET Orders,
         Covered(rows, held, Q), NEW o \in Q, NEW take \in Bundles,
         NEW next, Turn(rows, next, held, o, take),
         NEW now, now = [held EXCEPT ![o] = take]
  PROVE  Covered(next, now, Q)
<1>1. ASSUME NEW b \in Batches, Balanced, stock[b].status # "expired"
      PROVE  SumOver([p \in Q |-> now[p][b]], Q) + GoodsOf(LiveShipments)[b] = next[b].reserved
  <2> DEFINE f == [p \in Q |-> held[p][b]]
             g == [p \in Q |-> now[p][b]]
  <2>1. /\ Nats(f, Q) /\ Nats(g, Q) /\ f[o] = held[o][b] /\ g[o] = take[b]
        /\ \A p \in Q \ {o} : g[p] = f[p]
    BY DEF Nats, Bundles
  <2>2. SumOver(f, Q) + GoodsOf(LiveShipments)[b] = rows[b].reserved
    BY <1>1 DEF Covered
  <2> HIDE DEF f, g
  <2>3. IsFiniteSet(Q) /\ Ints(f, Q) /\ Ints(g, Q) /\ f[o] \in Nat /\ g[o] \in Nat
    BY <2>1, QueueHolds DEF Nats, Ints
  <2>4. SumOver(g, Q) = SumOver(f, Q) + g[o] - f[o]
    BY <2>1, <2>3, SumChange
  <2>5. SumOver(f, Q) \in Nat /\ f[o] <= SumOver(f, Q)
    <3>1. SumOver(f, {o}) = f[o]
      BY <2>3, SumSingle
    <3> QED
      BY <2>1, <2>3, <3>1, SumGrows
  <2>6. GoodsOf(LiveShipments)[b] \in Nat
    BY StockFacts
  <2>7. next[b].reserved = Clamped(rows, b, f[o]) + g[o]
    BY <2>1 DEF Turn
  <2>8. PICK l, r : l = GoodsOf(LiveShipments)[b] /\ r = rows[b].reserved
    OBVIOUS
  <2>9. Clamped(rows, b, f[o]) = r - f[o]
    BY <2>2, <2>3, <2>5, <2>6, <2>8 DEF Clamped, Maximum
  <2>10. SumOver(g, Q) + l = next[b].reserved
    BY <2>2, <2>3, <2>4, <2>5, <2>6, <2>7, <2>8, <2>9
  <2> QED
    BY <2>8, <2>10 DEF g
<1>2. \A b \in Batches : next[b].quantity = stock[b].quantity /\ next[b].status = stock[b].status
  BY DEF Turn, Covered
<1> QED
  BY <1>1, <1>2 DEF Covered

(* Before the first turn: the orders of S that are not queued hold nothing. *)
LEMMA FirstTurn ==
  ASSUME Typed, Life, NEW S \in SUBSET Orders,
         \A o \in S : o \in Placed /\ order[o].status \in Waiting
  PROVE  Covered(stock, log, Queued \cup S)
<1>1. ASSUME NEW b \in Batches, Balanced, stock[b].status # "expired"
      PROVE  SumOver([o \in Queued \cup S |-> log[o][b]], Queued \cup S)
               + GoodsOf(LiveShipments)[b] = stock[b].reserved
  <2>1. PICK Q : Q = Queued
    OBVIOUS
  <2>2. PICK T : T = S \ Q
    OBVIOUS
  <2>3. Q \in SUBSET Orders /\ T \in SUBSET Orders /\ Q \cap T = {} /\ Q \cup S = Q \cup T
    BY <2>1, <2>2, QueueHolds
  <2>4. \A o \in T : log[o][b] = 0
    BY <2>1, <2>2 DEF Life, LoggedLater, Waiting, Queued, Nothing
  <2> DEFINE f == [o \in Q |-> log[o][b]]
             g == [o \in Q \cup T |-> log[o][b]]
  <2>5. /\ \A o \in Q : g[o] = f[o]
        /\ \A o \in T : g[o] = 0
        /\ Nats(f, Q) /\ Nats(g, Q \cup T)
    BY <2>3, <2>4 DEF Nats, Bundles, Typed
  <2>6. Total(f) = SumOver(f, Q) /\ IsFiniteSet(Q) /\ IsFiniteSet(T)
    BY <2>3, QueueHolds DEF Typed
  <2>7. Total(f) + GoodsOf(LiveShipments)[b] = stock[b].reserved
    BY <1>1, <2>1 DEF Balanced
  <2> HIDE DEF f, g
  <2>8. SumOver(g, Q \cup T) = SumOver(g, Q) + SumOver(g, T)
    <3>1. Ints(g, Q) /\ Ints(g, T)
      BY <2>5 DEF Nats, Ints
    <3> QED
      BY <2>3, <2>6, <3>1, SumUnion
  <2>9. SumOver(g, T) = 0 /\ SumOver(g, Q) = SumOver(f, Q) /\ SumOver(g, Q) \in Nat
    <3>1. SumOver(g, T) = 0
      BY <2>5, <2>6, SumOfZeros
    <3>2. SumOver(g, Q) = SumOver(f, Q)
      BY <2>5, <2>6, SumSame
    <3>3. SumOver(f, Q) \in Nat
      BY <2>5, <2>6, SumGrows
    <3> QED
      BY <3>1, <3>2, <3>3
  <2>10. SumOver(g, Q \cup T) = Total(f)
    BY <2>6, <2>8, <2>9
  <2>11. SumOver(g, Q \cup T) + GoodsOf(LiveShipments)[b] = stock[b].reserved
    BY <2>7, <2>10
  <2> QED
    BY <2>1, <2>3, <2>11 DEF g
<1> QED
  BY <1>1 DEF Covered

(* The orders O are approved, each with a shipment of its own that is being *)
(* prepared.                                                               *)
Added == DOMAIN shipment' \ DOMAIN shipment

Ships(O) ==
  /\ Become(O, "approved") /\ O \in SUBSET Placed
  /\ \A o \in O : order[o].status \in Waiting
  /\ DOMAIN shipment \subseteq DOMAIN shipment'
  /\ \A i \in DOMAIN shipment : shipment'[i] = shipment[i]
  /\ \A i \in Added :
       /\ shipment'[i].order \in O /\ shipment'[i].linked = {shipment'[i].order}
       /\ shipment'[i].group = shipment'[i].order
       /\ Live(i)' /\ shipment'[i].shipped = FALSE /\ shipment'[i].manifest = None
  /\ \A i, j \in Added : shipment'[i].order = shipment'[j].order => i = j
  /\ UNCHANGED <<manifest, inquiries>>

LEMMA ShipsLife ==
  ASSUME Typed, Life, NEW O, Ships(O), \A o \in Orders : log'[o] = log[o] \/ o \in O
  PROVE  Life'
<1>1. \A i \in DOMAIN shipment : shipment[i].order \in Placed /\ shipment[i].order \notin O
  BY LifeOf DEF Ships
<1>2. \A i \in DOMAIN shipment' : i \in DOMAIN shipment \/ i \in Added
  BY DEF Added
<1>3. \A p \in Placed : /\ p \in Placed' /\ order'[p].group = order[p].group
                        /\ order'[p].status = IF p \in O THEN "approved" ELSE order[p].status
  BY DEF Ships, Become
<1>4. OneEach'
  <2>1. \A o \in Placed' : order'[o].group = o
    BY DEF Ships, Become, Life, OneEach
  <2>2. \A i \in DOMAIN shipment' : /\ shipment'[i].linked = {shipment'[i].order}
                                    /\ shipment'[i].group = shipment'[i].order
    BY <1>2 DEF Ships, Life, OneEach
  <2>3. \A i, j \in DOMAIN shipment' : shipment'[i].order = shipment'[j].order => i = j
    BY <1>1, <1>2 DEF Ships, Life, OneEach
  <2> QED
    BY <2>1, <2>2, <2>3 DEF OneEach
<1>5. InOrder'
  <2>1. ASSUME NEW i \in DOMAIN shipment
        PROVE  Proceeds(order'[shipment'[i].order].status, shipment'[i].status,
                        shipment'[i].shipped, Loading(i)')
    <3>1. Proceeds(order[shipment[i].order].status, shipment[i].status, shipment[i].shipped,
                   Loading(i))
      BY DEF Life, InOrder
    <3>2. shipment'[i] = shipment[i] /\ (Loading(i)' <=> Loading(i))
          /\ order'[shipment[i].order].status = order[shipment[i].order].status
      BY <1>1, <1>3 DEF Ships, Loading
    <3> QED
      BY <3>1, <3>2 DEF Proceeds
  <2>2. ASSUME NEW i \in Added
        PROVE  Proceeds(order'[shipment'[i].order].status, shipment'[i].status,
                        shipment'[i].shipped, Loading(i)')
    <3>1. order'[shipment'[i].order].status = "approved"
      BY <1>3 DEF Ships
    <3>2. /\ shipment'[i].status \in {"preparing", "consolidated"}
          /\ shipment'[i].shipped = FALSE /\ ~Loading(i)'
      BY DEF Ships, Live, Loading
    <3> QED
      BY <3>1, <3>2 DEF Proceeds, Waiting
  <2> QED
    BY <1>2, <2>1, <2>2 DEF InOrder
<1>6. LoggedLater'
  <2>1. ASSUME NEW o \in Orders, log'[o] # Nothing
        PROVE  o \in Placed' /\ order'[o].status # "pending"
    <3>1. CASE o \in O
      BY <1>3, <3>1 DEF Ships
    <3>2. CASE o \notin O
      <4>1. o \in Placed /\ order[o].status # "pending"
        BY <2>1, <3>2 DEF Life, LoggedLater
      <4> QED
        BY <1>3, <3>2, <4>1
    <3> QED
      BY <3>1, <3>2
  <2>2. Nothing' = Nothing
    BY DEF Nothing
  <2> QED
    BY <2>1 DEF LoggedLater, Nothing
<1>7. QueuedOnce'
  <2>1. Queued' \in SUBSET Queued
    BY <1>3 DEF Queued, Ships, Become
  <2> QED
    BY <2>1 DEF Life, QueuedOnce, Ships
<1> QED
  BY <1>4, <1>5, <1>6, <1>7 DEF Life

(* The sums of goods, after a step. *)
LEMMA GoodsAddUp ==
  Typed => \A b \in Batches :
    /\ \A S \in SUBSET DOMAIN shipment :
         IsFiniteSet(S) /\ Ints(HeldOf(b), S) /\ GoodsOf(S)[b] = SumOver(HeldOf(b), S)
    /\ \A A, B \in SUBSET DOMAIN shipment : A \cap B = {} =>
         GoodsOf(A \cup B)[b] = GoodsOf(A)[b] + GoodsOf(B)[b]
<1> SUFFICES ASSUME Typed, NEW b \in Batches
             PROVE  /\ \A S \in SUBSET DOMAIN shipment :
                         /\ IsFiniteSet(S) /\ Ints(HeldOf(b), S)
                         /\ GoodsOf(S)[b] = SumOver(HeldOf(b), S)
                    /\ \A A, B \in SUBSET DOMAIN shipment : A \cap B = {} =>
                         GoodsOf(A \cup B)[b] = GoodsOf(A)[b] + GoodsOf(B)[b]
  OBVIOUS
<1>1. \A S \in SUBSET DOMAIN shipment :
        IsFiniteSet(S) /\ Ints(HeldOf(b), S) /\ GoodsOf(S)[b] = SumOver(HeldOf(b), S)
  BY GoodsOfSum
<1>2. \A A, B \in SUBSET DOMAIN shipment : A \cap B = {} =>
        GoodsOf(A \cup B)[b] = GoodsOf(A)[b] + GoodsOf(B)[b]
  BY GoodsOfParts
<1> QED
  BY <1>1, <1>2

LEMMA GoodsAddUpNext ==
  Typed' => \A b \in Batches :
    /\ \A S \in SUBSET DOMAIN shipment' :
         IsFiniteSet(S) /\ Ints(HeldOf(b)', S) /\ GoodsOf(S)'[b] = SumOver(HeldOf(b)', S)
    /\ \A A, B \in SUBSET DOMAIN shipment' : A \cap B = {} =>
         GoodsOf(A \cup B)'[b] = GoodsOf(A)'[b] + GoodsOf(B)'[b]
<1>1. (Typed => \A b \in Batches :
    /\ \A S \in SUBSET DOMAIN shipment :
         IsFiniteSet(S) /\ Ints(HeldOf(b), S) /\ GoodsOf(S)[b] = SumOver(HeldOf(b), S)
    /\ \A A, B \in SUBSET DOMAIN shipment : A \cap B = {} =>
         GoodsOf(A \cup B)[b] = GoodsOf(A)[b] + GoodsOf(B)[b])'
  BY GoodsAddUp, PTL
<1> QED
  BY <1>1

(* The new shipments hold what the orders O hold. *)
LEMMA ShipsGoods ==
  ASSUME Typed, Typed', Life, NEW O, Ships(O), NEW held \in [Orders -> Bundles],
         \A o \in O : \E i \in Added : shipment'[i].order = o,
         \A i \in Added : Goods(shipment'[i].items) = held[shipment'[i].order],
         NEW b \in Batches
  PROVE  /\ GoodsOf(Gone)'[b] = GoodsOf(Gone)[b]
         /\ GoodsOf(LiveShipments)'[b]
              = GoodsOf(LiveShipments)[b] + SumOver([o \in O |-> held[o][b]], O)
<1>1. PICK D : D = DOMAIN shipment
  OBVIOUS
<1>2. PICK N : N = Added
  OBVIOUS
<1>3. PICK L : L = LiveShipments
  OBVIOUS
<1>4. PICK G : G = Gone
  OBVIOUS
<1>5. /\ L \in SUBSET D /\ G \in SUBSET D /\ D \cap N = {} /\ DOMAIN shipment' = D \cup N
      /\ \A i \in D : shipment'[i] = shipment[i]
      /\ \A i \in N : Live(i)' /\ shipment'[i].shipped = FALSE
  BY <1>1, <1>2, <1>3, <1>4 DEF LiveShipments, Gone, Ships, Added
<1>6. LiveShipments' = L \cup N /\ Gone' = G
  BY <1>1, <1>3, <1>4, <1>5 DEF LiveShipments, Live, Gone
<1>7. ASSUME NEW S \in SUBSET D PROVE GoodsOf(S)'[b] = GoodsOf(S)[b]
  <2>1. [i \in S |-> Goods(shipment'[i].items)[b]] = [i \in S |-> Goods(shipment[i].items)[b]]
    BY <1>5
  <2> QED
    BY <2>1 DEF GoodsOf
<1>8. GoodsOf(N)'[b] = SumOver([o \in O |-> held[o][b]], O)
  <2> DEFINE f == HeldOf(b)'
             g == [o \in O |-> held[o][b]]
             key == [i \in N |-> shipment'[i].order]
  <2>1. IsFiniteSet(N) /\ Ints(f, N) /\ GoodsOf(N)'[b] = SumOver(f, N)
    <3>1. N \in SUBSET DOMAIN shipment'
      BY <1>5
    <3> QED
      BY <3>1, GoodsAddUpNext
  <2>2. ASSUME NEW i \in N PROVE g[key[i]] = f[i] /\ f[i] \in Int /\ key[i] \in O
    <3>1. key[i] \in O /\ key[i] = shipment'[i].order
      BY <1>2 DEF Ships
    <3>4. g[key[i]] = held[key[i]][b]
      BY <3>1
    <3>5. f[i] \in Int
      BY <2>1 DEF Ints
    <3>2. f[i] = Goods(shipment'[i].items)[b]
      BY <1>5 DEF HeldOf
    <3>3. Goods(shipment'[i].items) = held[key[i]]
      BY <1>2, <3>1
    <3> HIDE DEF f, g, key
    <3> QED
      BY <3>1, <3>2, <3>3, <3>4, <3>5
  <2>3. \A i, j \in N : key[i] = key[j] => i = j
    BY <1>2 DEF Ships
  <2>4. ImageOf(key, N) = O
    <3>1. \A o \in O : \E i \in N : key[i] = o
      BY <1>2
    <3> QED
      BY <2>2, <3>1 DEF ImageOf
  <2> HIDE DEF f, g, key
  <2>5. Renames(key, N, f, g)
    BY <2>2, <2>3 DEF Renames
  <2>6. SumOver(g, ImageOf(key, N)) = SumOver(f, N)
    BY <2>1, <2>5, SumMoved
  <2> QED
    BY <2>1, <2>4, <2>6 DEF g
<1>9. GoodsOf(L \cup N)'[b] = GoodsOf(L)'[b] + GoodsOf(N)'[b]
  <2>1. L \in SUBSET DOMAIN shipment' /\ N \in SUBSET DOMAIN shipment' /\ L \cap N = {}
    BY <1>5
  <2> QED
    BY <2>1, GoodsAddUpNext
<1>10. GoodsOf(G)'[b] = GoodsOf(G)[b] /\ GoodsOf(L)'[b] = GoodsOf(L)[b]
  BY <1>5, <1>7
<1>11. /\ GoodsOf(Gone)'[b] = GoodsOf(G)'[b]
       /\ GoodsOf(LiveShipments)'[b] = GoodsOf(L \cup N)'[b]
  BY <1>6 DEF GoodsOf
<1> QED
  BY <1>3, <1>4, <1>8, <1>9, <1>10, <1>11

(* ... so the books follow, when every turn has kept them. *)
LEMMA ShipsBooks ==
  ASSUME Typed, Typed', Life, NEW O \in SUBSET Orders, Ships(O),
         NEW held \in [Orders -> Bundles],
         \A o \in O : \E i \in Added : shipment'[i].order = o,
         \A i \in Added : Goods(shipment'[i].items) = held[shipment'[i].order],
         Covered(stock', held, Queued \cup O),
         \A o \in Orders \ O : log'[o] = held[o]
  PROVE  BooksFollow
<1>1. ASSUME Trucked PROVE Trucked'
  <2>1. ASSUME NEW b \in Batches
        PROVE  stock'[b].quantity = Opening[b] - GoodsOf(Gone)'[b]
    <3>1. GoodsOf(Gone)'[b] = GoodsOf(Gone)[b]
      BY ShipsGoods
    <3> QED
      BY <1>1, <3>1 DEF Trucked, Covered
  <2> QED
    BY <2>1 DEF Trucked
<1>2. ASSUME Balanced PROVE Balanced'
  <2>1. PICK Q : Q = Queued \ O
    OBVIOUS
  <2>2. Queued' = Q /\ Queued \cup O = Q \cup O /\ Q \cap O = {} /\ Q \in SUBSET Orders
    <3>1. Queued' = Queued \ O
      BY DEF Ships, Become, Queued
    <3> QED
      BY <2>1, <3>1 DEF Typed, OrdersOK, Queued
  <2>3. ASSUME NEW b \in Batches, stock'[b].status # "expired"
        PROVE  Total([o \in Q |-> log'[o][b]]) + GoodsOf(LiveShipments)'[b] = stock'[b].reserved
    <3> DEFINE all == [o \in Q \cup O |-> held[o][b]]
               new == [o \in O |-> held[o][b]]
               old == [o \in Q |-> log'[o][b]]
    <3>1. /\ \A o \in Q : all[o] = old[o]
          /\ \A o \in O : all[o] = new[o]
          /\ Nats(all, Q \cup O) /\ DOMAIN old = Q
      BY <2>2 DEF Nats, Bundles
    <3>2. SumOver(all, Q \cup O) + GoodsOf(LiveShipments)[b] = stock'[b].reserved
      BY <1>2, <2>2, <2>3 DEF Covered
    <3>3. GoodsOf(LiveShipments)'[b] = GoodsOf(LiveShipments)[b] + SumOver(new, O)
      BY ShipsGoods
    <3> HIDE DEF all, new, old
    <3>4. IsFiniteSet(Q) /\ IsFiniteSet(O) /\ IsFiniteSet(Q \cup O)
      BY <2>2, QueueHolds
    <3>5. /\ SumOver(all, Q \cup O) = SumOver(all, Q) + SumOver(all, O)
          /\ SumOver(all, Q) \in Nat /\ SumOver(all, O) \in Nat
      <4>1. Ints(all, Q) /\ Ints(all, O)
        BY <3>1 DEF Nats, Ints
      <4> QED
        BY <2>2, <3>1, <3>4, <4>1, SumUnion, SumGrows
    <3>6. SumOver(all, Q) = SumOver(old, Q) /\ SumOver(all, O) = SumOver(new, O)
      BY <3>1, <3>4, SumSame
    <3>7. Total(old) = SumOver(old, Q)
      BY <3>1, TotalIsSum
    <3>8. GoodsOf(LiveShipments)[b] \in Nat
      BY StockFacts
    <3>9. Total(old) + GoodsOf(LiveShipments)'[b] = stock'[b].reserved
      BY <3>2, <3>3, <3>5, <3>6, <3>7, <3>8
    <3> QED
      BY <3>9 DEF old
  <2> QED
    BY <2>2, <2>3 DEF Balanced
<1> QED
  BY <1>1, <1>2 DEF BooksFollow

LEMMA ApprovalAdvances ==
  ASSUME Typed, Typed', Life, HubReads, NEW c \in Clients, Handles(c, "approve"),
         applyApproval(OrderOf(c)), UNCHANGED <<manifest, inquiries>>
  PROVE  Life' /\ BooksFollow
<1>1. PICK o : o = OrderOf(c)
  OBVIOUS
<1>2. PICK take : take = Taken(o)
  OBVIOUS
<1>3. PICK row : row = NewShipment(o, {o}, o, "preparing", ItemsOf(take, FirstLine[o]))
  OBVIOUS
<1>4. PICK n : n = Len(shipment) + 1
  OBVIOUS
<1>5. o \in Placed /\ o \in Orders /\ order[o].status = "pending"
  <2>1. req[c].kind = "approve" /\ o \in req[c].orders /\ o \in Placed
    BY <1>1, OneOrder DEF AboutOneOrder, Handles
  <2>2. order[o].status = "pending"
    BY <2>1, HubRead DEF ReadHolds
  <2> QED
    BY <2>1, <2>2 DEF Typed, OrdersOK
<1>6. /\ stock' = Reserved(stock, take)
      /\ log' = [log EXCEPT ![o] = Plus(log[o], take)]
      /\ order' = [order EXCEPT ![o].status = "approved", ![o].confirm = FALSE]
      /\ shipment' \in ShipmentForOrder(shipment, o, order[o].group, take)
  BY <1>1, <1>2 DEF applyApproval, applySmartOrderApproval
<1>7. order[o].group = o /\ \A i \in DOMAIN shipment : shipment[i].group # o
  <2>1. \A i \in DOMAIN shipment : shipment[i].order # o
    BY <1>5, LifeOf DEF Waiting
  <2> QED
    BY <1>5, <2>1 DEF Life, OneEach
<1>8. shipment' = Append(shipment, row)
  BY <1>3, <1>6, <1>7, ShipmentMade DEF NewFor
<1>9. /\ n \notin DOMAIN shipment /\ DOMAIN shipment' = DOMAIN shipment \cup {n}
      /\ \A i \in DOMAIN shipment : shipment'[i] = shipment[i]
      /\ shipment'[n] = row
  BY <1>4, <1>8, ShipmentAdded
<1>10. take \in Bundles /\ Goods(ItemsOf(take, FirstLine[o])) = take
  <2>1. take \in Bundles
    BY <1>2, <1>5, TakesWhatWasOrdered
  <2> QED
    BY <1>5, <2>1, FirstLineTyped, GoodsOfBundle
<1>11. /\ row.order = o /\ row.linked = {o} /\ row.group = o /\ row.status = "preparing"
       /\ row.manifest = None /\ row.shipped = FALSE /\ row.items = ItemsOf(take, FirstLine[o])
  BY <1>3 DEF NewShipment
<1>12. Added = {n}
  BY <1>9 DEF Added
<1>13. Become({o}, "approved")
  BY <1>6, OneBecomes
<1>14. Ships({o})
  <2>1. \A i \in Added :
          /\ shipment'[i].order \in {o} /\ shipment'[i].linked = {shipment'[i].order}
          /\ shipment'[i].group = shipment'[i].order
          /\ Live(i)' /\ shipment'[i].shipped = FALSE /\ shipment'[i].manifest = None
    BY <1>9, <1>11, <1>12 DEF Live
  <2> QED
    BY <1>5, <1>9, <1>12, <1>13, <2>1 DEF Ships, Waiting
<1>15. log[o] = Nothing /\ log \in [Orders -> Bundles]
  BY <1>5 DEF Life, LoggedLater, Typed
<1>16. PICK held : held = [log EXCEPT ![o] = take]
  OBVIOUS
<1>17. held \in [Orders -> Bundles] /\ held[o] = take /\ \A p \in Orders \ {o} : log'[p] = held[p]
  BY <1>5, <1>6, <1>10, <1>15, <1>16
<1>18. Life'
  <2>1. \A p \in Orders : log'[p] = log[p] \/ p \in {o}
    BY <1>5, <1>6, <1>15
  <2> QED
    BY <1>14, <2>1, ShipsLife
<1>19. Covered(stock', held, Queued \cup {o})
  <2>1. {o} \in SUBSET Orders /\ \A p \in {o} : p \in Placed /\ order[p].status \in Waiting
    BY <1>5 DEF Waiting
  <2>2. Covered(stock, log, Queued \cup {o})
    BY <2>1, FirstTurn
  <2>3. Turn(stock, stock', log, o, take)
    <3>1. ASSUME NEW b \in Batches
          PROVE  /\ stock'[b].quantity = stock[b].quantity /\ stock'[b].status = stock[b].status
                 /\ stock'[b].reserved = Clamped(stock, b, log[o][b]) + take[b]
      <4>1. Clamped(stock, b, log[o][b]) = stock[b].reserved
        BY <1>15 DEF Nothing, Clamped
      <4> QED
        BY <1>6, <1>10, <4>1, StockColumns
    <3> QED
      BY <3>1 DEF Turn
  <2>4. Queued \cup {o} \in SUBSET Orders /\ o \in Queued \cup {o}
    BY <1>5 DEF Typed, OrdersOK, Queued
  <2>5. PICK Q : Q = Queued \cup {o}
    OBVIOUS
  <2>6. Covered(stock', held, Q)
    BY <1>10, <1>15, <1>16, <2>2, <2>3, <2>4, <2>5, TurnHolds
  <2> QED
    BY <2>5, <2>6
<1>20. BooksFollow
  <2>1. \A p \in {o} : \E i \in Added : shipment'[i].order = p
    BY <1>9, <1>11, <1>12
  <2>2. \A i \in Added : Goods(shipment'[i].items) = held[shipment'[i].order]
    BY <1>9, <1>10, <1>11, <1>12, <1>17
  <2>3. {o} \in SUBSET Orders
    BY <1>5
  <2> QED
    BY <1>14, <1>17, <1>19, <2>1, <2>2, <2>3, ShipsBooks
<1> QED
  BY <1>18, <1>20

LEMMA TurnColumns ==
  ASSUME NEW rows \in Stocks, NEW held, NEW o, held[o] \in Bundles, NEW take \in Bundles,
         NEW next, next = Reserved(Released(rows, held[o]), take)
  PROVE  Turn(rows, next, held, o, take)
<1>1. PICK freed \in Stocks : freed = Released(rows, held[o])
  BY StockMoves
<1>2. ASSUME NEW row \in StockRow, NEW x
      PROVE  /\ [row EXCEPT !.reserved = x].quantity = row.quantity
             /\ [row EXCEPT !.reserved = x].reserved = x
             /\ [row EXCEPT !.reserved = x].status = row.status
  BY DEF StockRow
<1>3. ASSUME NEW b \in Batches
      PROVE  /\ next[b].quantity = rows[b].quantity /\ next[b].status = rows[b].status
             /\ next[b].reserved = Clamped(rows, b, held[o][b]) + take[b]
  <2>1. rows[b] \in StockRow /\ freed[b] \in StockRow
    BY <1>1 DEF Stocks
  <2>2. /\ freed[b] = [rows[b] EXCEPT !.reserved = Clamped(rows, b, held[o][b])]
        /\ next[b] = [freed[b] EXCEPT !.reserved = freed[b].reserved + take[b]]
    BY <1>1 DEF Reserved, Released
  <2> QED
    BY <1>2, <2>1, <2>2
<1> QED
  BY <1>3 DEF Turn

(* A turn of an inquiry, for an order that holds nothing yet. *)
Requeued(st, next, o) ==
  \E take \in Bundles :
    /\ Turn(st.stock, next.stock, st.log, o, take)
    /\ next.log = [st.log EXCEPT ![o] = take]

LEMMA RequeueTurns ==
  ASSUME Typed, NEW st \in Holdings, NEW o \in Orders, st.log[o] = Nothing,
         NEW next, next = Requeue(st, o)
  PROVE  Requeued(st, next, o)
<1>1. st.stock \in Stocks /\ st.log \in [Orders -> Bundles] /\ st.log[o] \in Bundles
  BY DEF Holdings
<1>2. PICK freed \in Stocks : freed = Released(st.stock, st.log[o])
  BY <1>1, StockMoves
<1>3. ShelfCutOff \in [Products -> Nat] /\ Requested[o] \in [Products -> Nat]
  BY FulfilmentAssumption DEF ShelfCutOff, Typed
<1>4. PICK take \in Bundles : take = Allocation(freed, Requested[o], ShelfCutOff)
  BY <1>3, AllocationTakes
<1>5. next = [stock |-> Reserved(freed, take),
              log |-> [st.log EXCEPT ![o] = Plus(st.log[o], take)]]
  BY <1>2, <1>4 DEF Requeue
<1>6. Plus(Nothing, take) = take
  BY <1>4 DEF Plus, Nothing, Bundles
<1>7. next.stock = Reserved(freed, take) /\ next.log = [st.log EXCEPT ![o] = take]
  BY <1>5, <1>6
<1>8. Turn(st.stock, next.stock, st.log, o, take)
  BY <1>1, <1>2, <1>7, TurnColumns
<1> QED
  BY <1>7, <1>8 DEF Requeued

(* An inquiry queues every order of the day, each holding what it has taken. *)
LEMMA QueueTaken ==
  ASSUME Typed, NEW S \in SUBSET Orders, Covered(stock, log, S),
         \A o \in S : log[o] = Nothing,
         NEW queue \in SetToSeqs(S), NEW end,
         end = RequeueAll([stock |-> stock, log |-> log], queue)
  PROVE  /\ Covered(end.stock, end.log, S) /\ end.log \in [Orders -> Bundles]
         /\ \A o \in Orders \ S : end.log[o] = log[o]
<1>1. PICK n \in Nat : /\ queue \in [1..n -> S]
                       /\ \A j, k \in 1..n : queue[j] = queue[k] => j = k
  BY QueueOf
<1>2. PICK run \in [0..n -> Holdings] :
        /\ run[0] = [stock |-> stock, log |-> log] /\ run[n] = end
        /\ \A k \in 1..n : run[k] = Requeue(run[k - 1], queue[k])
  <2>1. PICK st \in Holdings : st = [stock |-> stock, log |-> log]
    BY DEF Holdings, Typed
  <2>2. queue \in [1..n -> Orders]
    BY <1>1
  <2>3. end = RequeueAll(st, queue)
    BY <2>1
  <2>4. \E run \in [0..n -> Holdings] :
          /\ run[0] = st /\ run[n] = RequeueAll(st, queue)
          /\ \A k \in 1..n : run[k] = Requeue(run[k - 1], queue[k])
    BY <2>2, QueueRuns
  <2> QED
    BY <2>1, <2>3, <2>4
<1> DEFINE Good == {k \in 0..n :
             /\ Covered(run[k].stock, run[k].log, S)
             /\ \A j \in (k + 1)..n : run[k].log[queue[j]] = Nothing
             /\ \A o \in Orders \ S : run[k].log[o] = log[o]}
<1>3. 0 \in Good
  BY <1>1, <1>2
<1>4. ASSUME NEW k \in 1..n, k - 1 \in Good PROVE k \in Good
  <2>1. PICK st \in Holdings : st = run[k - 1]
    BY <1>2
  <2>2. PICK o \in S : o = queue[k]
    BY <1>1
  <2>3. /\ Covered(st.stock, st.log, S) /\ st.log[o] = Nothing
        /\ \A j \in k..n : st.log[queue[j]] = Nothing
        /\ \A p \in Orders \ S : st.log[p] = log[p]
    <3>1. /\ Covered(st.stock, st.log, S)
          /\ \A j \in ((k - 1) + 1)..n : st.log[queue[j]] = Nothing
          /\ \A p \in Orders \ S : st.log[p] = log[p]
      BY <1>4, <2>1
    <3>2. (k - 1) + 1 = k /\ k \in k..n
      OBVIOUS
    <3>3. \A j \in k..n : st.log[queue[j]] = Nothing
      BY <3>1, <3>2
    <3> QED
      BY <2>2, <3>1, <3>2, <3>3
  <2>4. PICK next \in Holdings : next = run[k] /\ next = Requeue(st, o)
    BY <1>2, <2>1, <2>2
  <2>5. PICK take \in Bundles :
          /\ Turn(st.stock, next.stock, st.log, o, take)
          /\ next.log = [st.log EXCEPT ![o] = take]
    <3>1. o \in Orders /\ st.log[o] = Nothing /\ next = Requeue(st, o)
      BY <2>2, <2>3, <2>4
    <3>2. Requeued(st, next, o)
      BY <3>1, RequeueTurns
    <3> QED
      BY <3>2 DEF Requeued
  <2>6. st.log \in [Orders -> Bundles]
    BY DEF Holdings
  <2>7. Covered(next.stock, next.log, S)
    BY <2>2, <2>3, <2>5, <2>6, TurnHolds
  <2>8. ASSUME NEW j \in (k + 1)..n PROVE next.log[queue[j]] = Nothing
    <3>1. queue[j] \in Orders /\ queue[j] # o /\ j \in k..n
      BY <1>1, <2>2
    <3> QED
      BY <2>3, <2>5, <2>6, <3>1
  <2>9. ASSUME NEW p \in Orders \ S PROVE next.log[p] = log[p]
    BY <2>2, <2>3, <2>5, <2>6
  <2>10. k \in 0..n
    OBVIOUS
  <2> QED
    BY <2>4, <2>7, <2>8, <2>9, <2>10
<1> HIDE DEF Good
<1>5. n \in Good
  <2>1. \A k \in 0..n : k \in Good
    BY <1>3, <1>4, EachTurn
  <2> QED
    BY <2>1
<1>6. end \in Holdings
  BY <1>2
<1> QED
  BY <1>2, <1>5, <1>6 DEF Good, Holdings

LEMMA InquiryAdvances ==
  ASSUME Typed, Typed', Life, HubReads, NEW c \in Clients, sendCoordinationInquiry(c)
  PROVE  Life' /\ BooksFollow
<1>1. PICK S : S = OnDay(req[c].target, "pending")
  OBVIOUS
<1>2. S \in SUBSET Placed /\ S \in SUBSET Orders /\ \A o \in S : order[o].status = "pending"
  BY <1>1 DEF OnDay, Typed, OrdersOK
<1>3. inquiries = 0 /\ req[c].orders = {} /\ Queued = {} /\ inquiries \in Nat
  <2>1. req[c].kind = "inquiry"
    BY DEF sendCoordinationInquiry, Handles
  <2> QED
    BY <2>1, HubRead DEF HubReadHolds, Life, QueuedOnce, Typed
<1>4. PICK queue \in SetToSeqs(S) :
        LET end == RequeueAll([stock |-> stock, log |-> log], queue)
        IN stock' = end.stock /\ log' = end.log
  <2>1. req[c].orders \cup S = S
    BY <1>3
  <2> QED
    BY <1>1, <2>1 DEF sendCoordinationInquiry, RequeueAll
<1>5. /\ order' = [o \in Placed |-> IF o \in S THEN [order[o] EXCEPT !.status = "coordinating"]
                                    ELSE order[o]]
      /\ inquiries' = inquiries + 1 /\ UNCHANGED <<shipment, manifest>>
  BY <1>1 DEF sendCoordinationInquiry, lockPendingOrdersForCoordination
<1>6. Become(S, "coordinating")
  BY <1>5, SomeBecome
<1>7. \A o \in S : log[o] = Nothing
  BY <1>2 DEF Life, LoggedLater
<1>8. Covered(stock, log, S)
  <2>1. \A o \in S : o \in Placed /\ order[o].status \in Waiting
    BY <1>2 DEF Waiting
  <2>2. Queued \cup S = S
    BY <1>3
  <2> QED
    BY <1>2, <2>1, <2>2, FirstTurn
<1>9. /\ Covered(stock', log', S) /\ log' \in [Orders -> Bundles]
      /\ \A o \in Orders \ S : log'[o] = log[o]
  <2>1. PICK end : end = RequeueAll([stock |-> stock, log |-> log], queue)
    OBVIOUS
  <2>2. stock' = end.stock /\ log' = end.log
    BY <1>4, <2>1
  <2> QED
    BY <1>2, <1>7, <1>8, <2>1, <2>2, QueueTaken
<1>10. \A p \in Placed : /\ p \in Placed' /\ order'[p].group = order[p].group
                         /\ order'[p].status = IF p \in S THEN "coordinating"
                                               ELSE order[p].status
  BY <1>6 DEF Become
<1>11. Placed' = Placed
  BY <1>6 DEF Become
<1>12. Life'
  <2>1. OneEach'
    BY <1>5, <1>10, <1>11 DEF Life, OneEach
  <2>2. ASSUME NEW i \in DOMAIN shipment
        PROVE  Proceeds(order'[shipment[i].order].status, shipment[i].status,
                        shipment[i].shipped, Loading(i)')
    <3>1. /\ shipment[i].order \in Placed
          /\ order[shipment[i].order].status \notin Waiting
      BY LifeOf
    <3>2. order'[shipment[i].order].status = order[shipment[i].order].status
      BY <1>2, <1>10, <3>1 DEF Waiting
    <3>3. Loading(i)' <=> Loading(i)
      BY <1>5 DEF Loading
    <3>4. Proceeds(order[shipment[i].order].status, shipment[i].status, shipment[i].shipped,
                   Loading(i))
      BY DEF Life, InOrder
    <3> QED
      BY <3>2, <3>3, <3>4 DEF Proceeds
  <2>3. InOrder'
    BY <1>5, <2>2 DEF InOrder
  <2>4. ASSUME NEW o \in Orders, log'[o] # Nothing
        PROVE  o \in Placed /\ order'[o].status # "pending"
    <3>1. CASE o \in S
      BY <1>2, <1>10, <3>1
    <3>2. CASE o \notin S
      <4>1. o \in Placed /\ order[o].status # "pending"
        BY <1>9, <2>4, <3>2 DEF Life, LoggedLater
      <4> QED
        BY <1>10, <3>2, <4>1
    <3> QED
      BY <3>1, <3>2
  <2>5. LoggedLater'
    BY <1>11, <2>4 DEF LoggedLater, Nothing
  <2>6. QueuedOnce'
    BY <1>3, <1>5 DEF QueuedOnce
  <2> QED
    BY <2>1, <2>3, <2>5, <2>6 DEF Life
<1>13. PICK L : L = LiveShipments
  OBVIOUS
<1>14. PICK G : G = Gone
  OBVIOUS
<1>15. /\ LiveShipments' = L /\ Gone' = G
       /\ GoodsOf(L)' = GoodsOf(L) /\ GoodsOf(G)' = GoodsOf(G)
  BY <1>5, <1>13, <1>14 DEF LiveShipments, Live, Gone, GoodsOf
<1>16. Trucked => Trucked'
  <2>1. GoodsOf(Gone)' = GoodsOf(G)'
    BY <1>15 DEF GoodsOf
  <2> QED
    BY <1>9, <1>14, <1>15, <2>1 DEF Trucked, Covered
<1>17. ASSUME Balanced PROVE Balanced'
  <2>1. Queued' = S
    BY <1>2, <1>3, <1>10, <1>11 DEF Queued
  <2>2. ASSUME NEW b \in Batches, stock'[b].status # "expired"
        PROVE  Total([o \in S |-> log'[o][b]]) + GoodsOf(L)'[b] = stock'[b].reserved
    <3>1. SumOver([o \in S |-> log'[o][b]], S) + GoodsOf(L)[b] = stock'[b].reserved
      BY <1>9, <1>13, <1>17, <2>2 DEF Covered
    <3>2. Total([o \in S |-> log'[o][b]]) = SumOver([o \in S |-> log'[o][b]], S)
      BY TotalIsSum
    <3> QED
      BY <1>15, <3>1, <3>2
  <2>3. GoodsOf(LiveShipments)' = GoodsOf(L)'
    BY <1>15 DEF GoodsOf
  <2> QED
    BY <2>1, <2>2, <2>3 DEF Balanced
<1> QED
  BY <1>12, <1>16, <1>17 DEF BooksFollow

(* A turn of a batch approval. *)
GrantTurn(st, next, o, take) ==
  /\ Turn(st.stock, next.stock, st.log, o, take)
  /\ next.takes = [st.takes EXCEPT ![o] = take]
  /\ \A p \in Orders \ {o} : next.log[p] = st.log[p]

LEMMA GrantTurns ==
  ASSUME NEW S \in SUBSET Orders, NEW st \in Grants(S), NEW o \in S,
         NEW granted \in [Products -> Nat], NEW next, next = Grant(st, o, granted)
  PROVE  \E take \in Bundles : GrantTurn(st, next, o, take)
<1>1. /\ st.stock \in Stocks /\ st.log \in [Orders -> Bundles] /\ st.log[o] \in Bundles
      /\ st.takes \in [S -> Bundles] /\ o \in Orders
  BY DEF Grants
<1>2. PICK freed \in Stocks : freed = Released(st.stock, st.log[o])
  BY <1>1, StockMoves
<1>3. CutOffDate(DeliveryOf[o]) \in [Products -> Nat]
  BY <1>1, FulfilmentAssumption DEF CutOffDate
<1>4. PICK take \in Bundles : take = Allocation(freed, granted, CutOffDate(DeliveryOf[o]))
  BY <1>3, AllocationTakes
<1>5. next = [stock |-> Reserved(freed, take),
              log |-> [st.log EXCEPT ![o] = Plus(st.log[o], take)],
              takes |-> [st.takes EXCEPT ![o] = take]]
  BY <1>2, <1>4 DEF Grant
<1>6. /\ next.stock = Reserved(freed, take) /\ next.takes = [st.takes EXCEPT ![o] = take]
      /\ \A p \in Orders \ {o} : next.log[p] = st.log[p]
  BY <1>1, <1>5
<1>7. Turn(st.stock, next.stock, st.log, o, take)
  BY <1>1, <1>2, <1>6, TurnColumns
<1>8. GrantTurn(st, next, o, take)
  BY <1>6, <1>7 DEF GrantTurn
<1> QED
  BY <1>8

(* What is covered after k turns: the orders served hold what they took.    *)
ServedSoFar(k, S, n, queue, st, held, Q) ==
  /\ held \in [Orders -> Bundles] /\ Covered(st.stock, held, Q)
  /\ \A j \in 1..n : IF j <= k THEN held[queue[j]] = st.takes[queue[j]]
                     ELSE held[queue[j]] = st.log[queue[j]]
  /\ \A o \in Orders \ S : held[o] = log[o] /\ st.log[o] = log[o]

(* A batch approval serves every order once. *)
Lists(queue, n, S) ==
  /\ n \in Nat /\ queue \in [1..n -> S]
  /\ \A j, k \in 1..n : queue[j] = queue[k] => j = k
  /\ \A o \in S : \E k \in 1..n : queue[k] = o

AllServed(held, S, Q, end) ==
  /\ held \in [Orders -> Bundles] /\ Covered(end.stock, held, Q)
  /\ \A o \in S : held[o] = end.takes[o]
  /\ \A o \in Orders \ S : held[o] = log[o] /\ end.log[o] = log[o]

LEMMA GrantsTaken ==
  ASSUME Typed, NEW S \in SUBSET Orders, NEW Q \in SUBSET Orders, S \subseteq Q,
         Covered(stock, log, Q), NEW n, NEW queue, Lists(queue, n, S),
         NEW granted \in [S -> [Products -> Nat]],
         NEW st \in Grants(S), st.stock = stock, st.log = log,
         NEW run, GrantRun(run, S, n, queue, granted, st)
  PROVE  \E held : AllServed(held, S, Q, run[n])
<1>0. /\ n \in Nat /\ queue \in [1..n -> S]
      /\ \A j, k \in 1..n : queue[j] = queue[k] => j = k
      /\ \A o \in S : \E k \in 1..n : queue[k] = o
  BY DEF Lists
<1> DEFINE Good == {k \in 0..n : \E held : ServedSoFar(k, S, n, queue, run[k], held, Q)}
<1>1. /\ run \in [0..n -> Grants(S)] /\ run[0] = st
      /\ \A k \in 1..n : run[k] = Grant(run[k - 1], queue[k], granted[queue[k]])
  BY DEF GrantRun
<1>2. 0 \in Good
  <2>1. log \in [Orders -> Bundles]
    BY DEF Typed
  <2>2. ServedSoFar(0, S, n, queue, run[0], log, Q)
    <3>1. \A j \in 1..n : ~(j <= 0)
      BY <1>0
    <3> QED
      BY <1>1, <2>1, <3>1 DEF ServedSoFar
  <2>3. 0 \in 0..n
    BY <1>0
  <2> QED
    BY <2>2, <2>3
<1>3. ASSUME NEW k \in 1..n, k - 1 \in Good PROVE k \in Good
  <2>1. /\ k \in 0..n /\ k - 1 \in 0..n
        /\ \A j \in 1..n : (j <= k <=> j <= k - 1 \/ j = k) /\ ~(k <= k - 1)
    BY <1>0
  <2>2. PICK before \in Grants(S) : before = run[k - 1]
    BY <1>1, <2>1
  <2>3. PICK next \in Grants(S) : next = run[k]
    BY <1>1, <2>1
  <2>4. PICK held : ServedSoFar(k - 1, S, n, queue, before, held, Q)
    BY <1>3, <2>2
  <2>5. PICK o \in S : o = queue[k]
    BY <1>0
  <2>6. PICK given \in [Products -> Nat] : given = granted[o]
    OBVIOUS
  <2>7. PICK take \in Bundles :
          /\ Turn(before.stock, next.stock, before.log, o, take)
          /\ next.takes = [before.takes EXCEPT ![o] = take]
          /\ \A p \in Orders \ {o} : next.log[p] = before.log[p]
    <3>1. next = Grant(before, o, given)
      BY <1>1, <2>2, <2>3, <2>5, <2>6
    <3>2. PICK take \in Bundles : GrantTurn(before, next, o, take)
      BY <3>1, GrantTurns
    <3> QED
      BY <3>2 DEF GrantTurn
  <2>8. /\ held \in [Orders -> Bundles] /\ Covered(before.stock, held, Q)
        /\ \A j \in 1..n : IF j <= k - 1 THEN held[queue[j]] = before.takes[queue[j]]
                           ELSE held[queue[j]] = before.log[queue[j]]
        /\ \A p \in Orders \ S : held[p] = log[p] /\ before.log[p] = log[p]
    BY <2>4 DEF ServedSoFar
  <2>9. Turn(before.stock, next.stock, held, o, take)
    <3>1. held[o] = before.log[o]
      BY <2>1, <2>5, <2>8
    <3> QED
      BY <2>7, <3>1 DEF Turn
  <2>10. PICK now : now = [held EXCEPT ![o] = take]
    OBVIOUS
  <2>11. Covered(next.stock, now, Q)
    <3>1. o \in Q
      OBVIOUS
    <3> QED
      BY <2>8, <2>9, <2>10, <3>1, TurnHolds
  <2>12. /\ now \in [Orders -> Bundles] /\ now[o] = take
         /\ \A p \in Orders \ {o} : now[p] = held[p]
    BY <2>8, <2>10
  <2>13. ASSUME NEW j \in 1..n
         PROVE  IF j <= k THEN now[queue[j]] = next.takes[queue[j]]
                ELSE now[queue[j]] = next.log[queue[j]]
    <3>1. before.takes \in [S -> Bundles]
      BY DEF Grants
    <3>2. CASE j = k
      <4>1. now[queue[j]] = take /\ next.takes[queue[j]] = take /\ j <= k
        BY <2>5, <2>7, <2>12, <3>1, <3>2
      <4> QED
        BY <4>1
    <3>3. CASE j # k
      <4>1. queue[j] # o /\ queue[j] \in S
        BY <1>0, <2>5, <3>3
      <4>2. now[queue[j]] = held[queue[j]] /\ next.log[queue[j]] = before.log[queue[j]]
            /\ next.takes[queue[j]] = before.takes[queue[j]]
        BY <2>7, <2>12, <3>1, <4>1
      <4> QED
        BY <2>1, <2>8, <3>3, <4>2
    <3> QED
      BY <3>2, <3>3
  <2>14. \A p \in Orders \ S : now[p] = log[p] /\ next.log[p] = log[p]
    BY <2>7, <2>8, <2>12
  <2>15. ServedSoFar(k, S, n, queue, next, now, Q)
    BY <2>11, <2>12, <2>13, <2>14 DEF ServedSoFar
  <2> QED
    BY <2>1, <2>3, <2>15
<1> HIDE DEF Good
<1>4. n \in Good
  <2>1. \A k \in 0..n : k \in Good
    BY <1>0, <1>2, <1>3, EachTurn
  <2> QED
    BY <1>0, <2>1
<1>5. PICK held : ServedSoFar(n, S, n, queue, run[n], held, Q)
  BY <1>4 DEF Good
<1>6. /\ held \in [Orders -> Bundles] /\ Covered(run[n].stock, held, Q)
      /\ \A j \in 1..n : held[queue[j]] = run[n].takes[queue[j]]
      /\ \A o \in Orders \ S : held[o] = log[o] /\ run[n].log[o] = log[o]
  BY <1>0, <1>5 DEF ServedSoFar
<1>7. \A o \in S : held[o] = run[n].takes[o]
  <2>1. PICK takes : takes = run[n].takes
    OBVIOUS
  <2>2. \A j \in 1..n : held[queue[j]] = takes[queue[j]]
    BY <1>6, <2>1
  <2>3. ASSUME NEW o \in S PROVE held[o] = takes[o]
    <3>1. PICK j \in 1..n : queue[j] = o
      BY <1>0
    <3> QED
      BY <2>2, <3>1
  <2> QED
    BY <2>1, <2>3
<1> QED
  BY <1>6, <1>7 DEF AllServed

(* The rows of a shipment made for one order alone. *)
LEMMA ItemsOfOne ==
  ASSUME Life, NEW S \in SUBSET Placed, NEW takes \in [S -> Bundles], NEW g \in S,
         NEW first \in [S -> Parts], NEW n, NEW queue, Lists(queue, n, S)
  PROVE  Goods(ItemsFor(queue, g, takes, first)) = takes[g]
<1>0. /\ n \in Nat /\ queue \in [1..n -> S]
      /\ \A j, k \in 1..n : queue[j] = queue[k] => j = k
      /\ \A o \in S : \E k \in 1..n : queue[k] = o
  BY DEF Lists
<1>1. PICK run \in [0..n -> Rows] :
        /\ run[0] = << >> /\ run[n] = ItemsFor(queue, g, takes, first)
        /\ \A k \in 1..n : run[k] = AddItems(run[k - 1], queue[k], g, takes, first)
  <2>1. PICK run : ItemsInTurn(run, n, queue, g, takes, first)
    BY <1>0, ItemsRun
  <2> QED
    BY <2>1 DEF ItemsInTurn
<1>2. PICK rows \in Rows : rows = ItemsOf(takes[g], first[g])
  BY RowsOfBundle DEF Rows
<1>3. PICK at \in 1..n : queue[at] = g
  BY <1>0
<1>4. \A o \in S : order[o].group = o
  BY DEF Life, OneEach
<1> DEFINE Good == {k \in 0..n : run[k] = IF k < at THEN << >> ELSE rows}
<1>5. 0 \in Good
  BY <1>0, <1>1, <1>3
<1>6. ASSUME NEW k \in 1..n, k - 1 \in Good PROVE k \in Good
  <2>1. /\ k \in 0..n
        /\ k < at => k - 1 < at
        /\ k = at => k - 1 < at /\ ~(k < at)
        /\ k # at /\ ~(k < at) => ~(k - 1 < at)
    BY <1>0, <1>3
  <2>2. run[k] = IF order[queue[k]].group = g THEN run[k - 1] \o ItemsOf(takes[queue[k]], first[queue[k]])
                 ELSE run[k - 1]
    BY <1>1 DEF AddItems
  <2>3. run[k - 1] = IF k - 1 < at THEN << >> ELSE rows
    BY <1>6
  <2>4. CASE k = at
    <3>1. run[k] = << >> \o rows
      BY <1>2, <1>3, <1>4, <2>1, <2>2, <2>3, <2>4
    <3>2. << >> \o rows = rows
      BY DEF Rows
    <3> QED
      BY <2>1, <2>4, <3>1, <3>2
  <2>5. CASE k # at
    <3>1. order[queue[k]].group # g
      BY <1>0, <1>3, <1>4, <2>5
    <3>2. run[k] = run[k - 1]
      BY <2>2, <3>1
    <3> QED
      BY <2>1, <2>3, <2>5, <3>2
  <2> QED
    BY <2>4, <2>5
<1> HIDE DEF Good
<1>7. n \in Good
  <2>1. \A k \in 0..n : k \in Good
    BY <1>0, <1>5, <1>6, EachTurn
  <2> QED
    BY <1>0, <2>1
<1>8. run[n] = rows
  BY <1>0, <1>3, <1>7 DEF Good
<1>9. takes[g] \in Bundles /\ first[g] \in Parts
  OBVIOUS
<1>10. Goods(rows) = takes[g]
  BY <1>2, <1>9, GoodsOfBundle
<1> QED
  BY <1>1, <1>8, <1>10

LEMMA BatchAdvances ==
  ASSUME Typed, Typed', Life, HubReads, NEW c \in Clients, batchApproveByAllocation(c)
  PROVE  Life' /\ BooksFollow
<1>1. PICK S, n, m, granted, first, queue, waves, run :
        /\ S = req[c].orders /\ Batch(S, n, m, granted, first, queue, waves, run)
        /\ run[n] \in Grants(S) /\ stock' = run[n].stock /\ log' = run[n].log
        /\ BatchShips(S, n, m, queue, waves, run[n].takes, first)
  BY BatchApproved
<1>2. /\ S \in SUBSET Placed /\ n \in Nat /\ m \in Nat
      /\ granted \in [S -> [Products -> Nat]] /\ queue \in [1..n -> S]
      /\ \A j, k \in 1..n : queue[j] = queue[k] => j = k
      /\ \A o \in S : \E k \in 1..n : queue[k] = o
      /\ \A j, k \in 1..m : waves[j] = waves[k] => j = k
      /\ \A o \in S : \E k \in 1..m : waves[k] = order[o].group
  BY <1>1, Zenon DEF Batch
<1>25. Lists(queue, n, S)
  BY <1>2 DEF Lists
<1>3. waves \in [1..m -> {order[o].group : o \in S}]
  BY <1>1, Zenon DEF Batch
<1>26. first \in [S -> Parts]
  BY <1>1, Zenon DEF Batch
<1>4. PICK st : st = [stock |-> stock, log |-> log, takes |-> [o \in S |-> Nothing]]
  OBVIOUS
<1>5. GrantRun(run, S, n, queue, granted, st)
  BY <1>1, <1>4, Zenon DEF Batch
<1>6. \A o \in S : order[o].status \in Waiting
  <2>1. req[c].kind = "batchApprove"
    BY DEF batchApproveByAllocation, Handles
  <2> QED
    BY <1>1, <2>1, HubRead DEF HubReadHolds
<1>7. S \in SUBSET Orders /\ \A o \in S : order[o].group = o
  BY <1>2 DEF Typed, OrdersOK, Life, OneEach
<1>8. /\ order' = [o \in Placed |->
                    IF o \in S THEN [order[o] EXCEPT !.status = "approved", !.slip = TRUE]
                    ELSE order[o]]
      /\ UNCHANGED <<manifest, inquiries>>
  BY <1>1 DEF batchApproveByAllocation
<1>9. Become(S, "approved")
  BY <1>8, SomeBecome
<1>10. PICK takes \in [S -> Bundles] : takes = run[n].takes
  BY <1>1 DEF Grants
<1>11. /\ DOMAIN shipment \subseteq DOMAIN shipment'
       /\ \A i \in DOMAIN shipment : shipment'[i] = shipment[i]
       /\ \A i \in DOMAIN shipment' :
            \/ i \in DOMAIN shipment /\ shipment'[i] = shipment[i]
            \/ \E k \in 1..m : Consolidates(shipment'[i], S, n, queue, waves[k], takes, first)
       /\ \A k \in 1..m :
            /\ Len(shipment) + k \in DOMAIN shipment'
            /\ Consolidates(shipment'[Len(shipment) + k], S, n, queue, waves[k], takes, first)
  BY <1>1, <1>10 DEF BatchShips
<1>12. Len(shipment') = Len(shipment) + m
  BY <1>1, Zenon DEF BatchShips
<1>13. \A k \in 1..m : waves[k] \in S
  BY <1>3, <1>7
<1>14. ASSUME NEW row, NEW g \in S, Consolidates(row, S, n, queue, g, takes, first)
       PROVE  /\ row.order = g /\ row.linked = {g} /\ row.group = g
              /\ row.status = "consolidated" /\ row.shipped = FALSE /\ row.manifest = None
              /\ Goods(row.items) = takes[g]
  <2>1. /\ row \in ShipmentRow /\ row.manifest = None /\ row.group = g
        /\ row.status = "consolidated" /\ ~row.shipped
        /\ row.order \in S /\ order[row.order].group = g
        /\ row.linked = {queue[k] : k \in InGroup(n, queue, g)}
        /\ row.items = ItemsFor(queue, g, takes, first)
    BY <1>14 DEF Consolidates
  <2>2. row.order = g
    BY <1>7, <2>1
  <2>3. row.shipped \in BOOLEAN
    BY <2>1 DEF ShipmentRow
  <2>4. {queue[k] : k \in InGroup(n, queue, g)} = {g}
    <3>1. PICK k \in 1..n : queue[k] = g
      BY <1>2
    <3>2. \A j \in 1..n : order[queue[j]].group = queue[j]
      BY <1>2, <1>7
    <3>3. \A j \in InGroup(n, queue, g) : queue[j] = g
      BY <3>2 DEF InGroup
    <3>4. k \in InGroup(n, queue, g)
      BY <3>1, <3>2 DEF InGroup
    <3> QED
      BY <3>1, <3>3, <3>4
  <2>5. Goods(ItemsFor(queue, g, takes, first)) = takes[g]
    <3>1. S \in SUBSET Placed
      BY <1>2
    <3> QED
      BY <1>25, <1>26, <3>1, ItemsOfOne
  <2> QED
    BY <2>1, <2>2, <2>3, <2>4, <2>5
<1>15. ASSUME NEW i \in Added
       PROVE  \E k \in 1..m : /\ i = Len(shipment) + k
                              /\ Consolidates(shipment'[i], S, n, queue, waves[k], takes, first)
  <2>1. i \in DOMAIN shipment' /\ i \notin DOMAIN shipment
    BY DEF Added
  <2>2. /\ DOMAIN shipment = 1..Len(shipment) /\ Len(shipment) \in Nat
        /\ DOMAIN shipment' = 1..Len(shipment') /\ Len(shipment') \in Nat
    BY DEF Typed, ShipmentsOK
  <2>3. PICK k \in 1..m : i = Len(shipment) + k
    <3>1. i - Len(shipment) \in 1..m /\ i = Len(shipment) + (i - Len(shipment))
      BY <1>2, <1>12, <2>1, <2>2
    <3> QED
      BY <3>1
  <2>4. Consolidates(shipment'[Len(shipment) + k], S, n, queue, waves[k], takes, first)
    BY <1>11
  <2> QED
    BY <2>3, <2>4
<1>16. ASSUME NEW i \in Added
       PROVE  /\ shipment'[i].order \in S /\ shipment'[i].linked = {shipment'[i].order}
              /\ shipment'[i].group = shipment'[i].order
              /\ Live(i)' /\ shipment'[i].shipped = FALSE /\ shipment'[i].manifest = None
              /\ Goods(shipment'[i].items) = takes[shipment'[i].order]
              /\ \E k \in 1..m : i = Len(shipment) + k /\ shipment'[i].order = waves[k]
  <2>1. PICK k \in 1..m : /\ i = Len(shipment) + k
                          /\ Consolidates(shipment'[i], S, n, queue, waves[k], takes, first)
    BY <1>15
  <2>2. PICK g \in S : g = waves[k]
    BY <1>13
  <2>3. PICK row : row = shipment'[i]
    OBVIOUS
  <2>4. Consolidates(row, S, n, queue, g, takes, first)
    BY <2>1, <2>2, <2>3
  <2>5. /\ row.order = g /\ row.linked = {g} /\ row.group = g
        /\ row.status = "consolidated" /\ row.shipped = FALSE /\ row.manifest = None
        /\ Goods(row.items) = takes[g]
    BY <1>14, <2>4
  <2> QED
    BY <2>1, <2>2, <2>3, <2>5 DEF Live
<1>17. Ships(S)
  <2>1. ASSUME NEW i \in Added, NEW j \in Added, shipment'[i].order = shipment'[j].order
        PROVE  i = j
    <3>1. PICK k \in 1..m : i = Len(shipment) + k /\ shipment'[i].order = waves[k]
      BY <1>16
    <3>2. PICK l \in 1..m : j = Len(shipment) + l /\ shipment'[j].order = waves[l]
      BY <1>16
    <3>3. k = l
      BY <1>2, <2>1, <3>1, <3>2
    <3> QED
      BY <3>1, <3>2, <3>3
  <2>2. S \in SUBSET Placed
    BY <1>2
  <2> QED
    BY <1>6, <1>8, <1>9, <1>11, <1>16, <2>1, <2>2 DEF Ships
<1>18. PICK Q : Q = Queued \cup S
  OBVIOUS
<1>19. Q \in SUBSET Orders /\ S \subseteq Q /\ Covered(stock, log, Q)
  <2>1. Covered(stock, log, Queued \cup S)
    BY <1>2, <1>6, <1>7, FirstTurn
  <2>2. Queued \in SUBSET Orders
    BY DEF Typed, OrdersOK, Queued
  <2> QED
    BY <1>7, <1>18, <2>1, <2>2
<1>20. st \in Grants(S) /\ st.stock = stock /\ st.log = log
  BY <1>4 DEF Grants, Typed, Nothing, Bundles
<1>21. PICK held : AllServed(held, S, Q, run[n])
  <2>1. S \in SUBSET Orders /\ Q \in SUBSET Orders /\ S \subseteq Q
    BY <1>7, <1>19
  <2>2. granted \in [S -> [Products -> Nat]]
    BY <1>2
  <2>3. Covered(stock, log, Q) /\ st \in Grants(S) /\ st.stock = stock /\ st.log = log
    BY <1>19, <1>20
  <2> QED
    BY <1>5, <1>25, <2>1, <2>2, <2>3, GrantsTaken
<1>22. /\ held \in [Orders -> Bundles] /\ Covered(stock', held, Queued \cup S)
       /\ \A o \in S : held[o] = takes[o]
       /\ \A o \in Orders \ S : held[o] = log[o] /\ log'[o] = log[o]
  BY <1>1, <1>10, <1>18, <1>21 DEF AllServed
<1>23. Life'
  <2>1. \A o \in Orders : log'[o] = log[o] \/ o \in S
    BY <1>22
  <2> QED
    BY <1>17, <2>1, ShipsLife
<1>24. BooksFollow
  <2>1. \A o \in S : \E i \in Added : shipment'[i].order = o
    <3>1. ASSUME NEW o \in S PROVE \E i \in Added : shipment'[i].order = o
      <4>1. PICK k \in 1..m : waves[k] = o
        BY <1>2, <1>7
      <4>2. PICK i : i = Len(shipment) + k
        OBVIOUS
      <4>3. i \in DOMAIN shipment' /\ Consolidates(shipment'[i], S, n, queue, o, takes, first)
        BY <1>11, <4>1, <4>2
      <4>4. i \notin DOMAIN shipment
        <5>1. DOMAIN shipment = 1..Len(shipment) /\ Len(shipment) \in Nat
          BY DEF Typed, ShipmentsOK
        <5> QED
          BY <4>2, <5>1
      <4>5. shipment'[i].order = o
        BY <1>14, <4>3
      <4> QED
        BY <4>3, <4>4, <4>5 DEF Added
    <3> QED
      BY <3>1
  <2>2. \A i \in Added : Goods(shipment'[i].items) = held[shipment'[i].order]
    BY <1>16, <1>22
  <2> QED
    BY <1>7, <1>17, <1>22, <2>1, <2>2, ShipsBooks
<1> QED
  BY <1>23, <1>24

(* The rows a report of damage writes: the load of one shipment that has    *)
(* not left, and no physical stock.                                        *)
LEMMA IssueMoves ==
  ASSUME Typed, NEW c \in Clients, reportManifestBatchIssue(c),
         NEW ship, ship = req[c].target.ship
  PROVE  /\ ship \in DOMAIN shipment /\ DOMAIN shipment' = DOMAIN shipment
         /\ \A i \in DOMAIN shipment :
              /\ i # ship => shipment'[i] = shipment[i]
              /\ shipment'[i].order = shipment[i].order
              /\ shipment'[i].linked = shipment[i].linked
              /\ shipment'[i].group = shipment[i].group
              /\ shipment'[i].status = shipment[i].status
              /\ shipment'[i].manifest = shipment[i].manifest
              /\ shipment'[i].shipped = shipment[i].shipped
         /\ \A b \in Batches : stock'[b].quantity = stock[b].quantity
<1> DEFINE item == req[c].target.item
           items == shipment[ship].items
           back == [stock EXCEPT ![item.batch].reserved = @ - item.quantity]
           take == Substitutes(back, item.batch, item.quantity)
<1>1. ship \in DOMAIN shipment /\ item \in ShipmentItemRow
  <2>1. RequestOK(req[c]) /\ req[c].kind = "issue"
    BY DEF Typed, RequestsOK, reportManifestBatchIssue, Handles
  <2> QED
    BY <2>1 DEF RequestOK
<1>2. /\ stock' = [Reserved(back, take) EXCEPT ![item.batch].status = "damaged"]
      /\ \/ shipment' = [shipment EXCEPT ![ship].items = @ \o RowsOfLine(take)]
         \/ \E k \in DOMAIN items :
              shipment' = [shipment EXCEPT ![ship].items = RemoveAt(@, k) \o RowsOfLine(take)]
  BY DEF reportManifestBatchIssue
<1>3. item.batch \in Batches /\ item.quantity \in Nat
  BY <1>1 DEF ShipmentItemRow
<1>4. PICK bad \in Batches : bad = item.batch
  BY <1>3
<1>5. PICK n \in Nat : n = item.quantity
  BY <1>3
<1>6. PICK was : was = [stock EXCEPT ![bad].reserved = stock[bad].reserved - n]
  OBVIOUS
<1>7. was = back
  BY <1>4, <1>5, <1>6
<1>8. PICK more : more = take
  OBVIOUS
<1> HIDE DEF item, back, take
<1>9. stock' = [Reserved(was, more) EXCEPT ![bad].status = "damaged"]
  BY <1>2, <1>4, <1>7, <1>8
<1>11. ASSUME NEW b \in Batches PROVE stock'[b].quantity = stock[b].quantity
  <2>1. stock[b] \in StockRow /\ stock \in Stocks
    BY DEF Typed, Stocks
  <2>2. was[b] = stock[b] \/ was[b] = [stock[b] EXCEPT !.reserved = stock[b].reserved - n]
    BY <1>6, <2>1 DEF Stocks
  <2>3. was[b] \in StockRow
    BY <2>1, <2>2 DEF StockRow
  <2>4. PICK row : row = Reserved(was, more)[b]
    OBVIOUS
  <2>5. row = [was[b] EXCEPT !.reserved = was[b].reserved + more[b]]
    BY <2>4 DEF Reserved
  <2>6. row.quantity = was[b].quantity /\ was[b].quantity = stock[b].quantity
    <3>1. row.quantity = was[b].quantity
      BY <2>3, <2>5 DEF StockRow
    <3>2. was[b].quantity = stock[b].quantity
      BY <2>1, <2>2 DEF StockRow
    <3> QED
      BY <3>1, <3>2
  <2>7. stock'[b] = row \/ stock'[b] = [row EXCEPT !.status = "damaged"]
    BY <1>9, <2>4 DEF Reserved
  <2>8. [row EXCEPT !.status = "damaged"].quantity = row.quantity
    BY <2>3, <2>5 DEF StockRow
  <2> QED
    BY <2>6, <2>7, <2>8
<1>12. PICK rows : shipment' = [shipment EXCEPT ![ship].items = rows]
  <2>1. CASE shipment' = [shipment EXCEPT ![ship].items = @ \o RowsOfLine(take)]
    <3>1. shipment' = [shipment EXCEPT ![ship].items = items \o RowsOfLine(take)]
      BY <2>1
    <3> QED
      BY <3>1
  <2>2. ASSUME NEW k \in DOMAIN items,
               shipment' = [shipment EXCEPT ![ship].items = RemoveAt(@, k) \o RowsOfLine(take)]
        PROVE  \E rows : shipment' = [shipment EXCEPT ![ship].items = rows]
    <3>1. shipment' = [shipment EXCEPT ![ship].items = RemoveAt(items, k) \o RowsOfLine(take)]
      BY <2>2
    <3> QED
      BY <3>1
  <2> QED
    BY <1>2, <2>1, <2>2
<1>13. DOMAIN shipment' = DOMAIN shipment
  BY <1>12 DEF Typed, ShipmentsOK
<1>14. ASSUME NEW i \in DOMAIN shipment
       PROVE  /\ i # ship => shipment'[i] = shipment[i]
              /\ shipment'[i].order = shipment[i].order
              /\ shipment'[i].linked = shipment[i].linked
              /\ shipment'[i].group = shipment[i].group
              /\ shipment'[i].status = shipment[i].status
              /\ shipment'[i].manifest = shipment[i].manifest
              /\ shipment'[i].shipped = shipment[i].shipped
  <2>1. shipment[i] \in ShipmentRow
    BY ShipmentFacts
  <2>2. /\ i # ship => shipment'[i] = shipment[i]
        /\ i = ship => shipment'[i] = [shipment[i] EXCEPT !.items = rows]
    BY <1>12 DEF Typed, ShipmentsOK
  <2> QED
    BY <2>1, <2>2 DEF ShipmentRow
<1> QED
  BY <1>1, <1>11, <1>13, <1>14

LEMMA IssueAdvances ==
  ASSUME Typed, Life, HubReads, NEW c \in Clients, reportManifestBatchIssue(c)
  PROVE  Life' /\ BooksFollow
<1>1. PICK ship : ship = req[c].target.ship
  OBVIOUS
<1>2. /\ ship \in DOMAIN shipment /\ DOMAIN shipment' = DOMAIN shipment
      /\ \A i \in DOMAIN shipment :
           /\ i # ship => shipment'[i] = shipment[i]
           /\ shipment'[i].order = shipment[i].order
           /\ shipment'[i].linked = shipment[i].linked
           /\ shipment'[i].group = shipment[i].group
           /\ shipment'[i].status = shipment[i].status
           /\ shipment'[i].manifest = shipment[i].manifest
           /\ shipment'[i].shipped = shipment[i].shipped
      /\ \A b \in Batches : stock'[b].quantity = stock[b].quantity
  BY <1>1, IssueMoves
<1>3. UNCHANGED <<log, order, manifest, inquiries>>
  BY DEF reportManifestBatchIssue
<1>4. ~shipment[ship].shipped /\ req[c].kind = "issue"
  <2>1. req[c].kind = "issue"
    BY DEF reportManifestBatchIssue, Handles
  <2>2. HubReadHolds(req[c])
    BY HubRead
  <2> QED
    BY <1>1, <2>1, <2>2 DEF HubReadHolds
<1>5. OneEach'
  BY <1>2, <1>3 DEF Life, OneEach, Placed
<1>6. InOrder'
  <2>1. ASSUME NEW i \in DOMAIN shipment
        PROVE  Proceeds(order'[shipment'[i].order].status, shipment'[i].status,
                        shipment'[i].shipped, Loading(i)')
    <3>1. Loading(i)' <=> Loading(i)
      BY <1>2, <1>3 DEF Loading
    <3>2. Proceeds(order[shipment[i].order].status, shipment[i].status, shipment[i].shipped,
                   Loading(i))
      BY DEF Life, InOrder
    <3> QED
      BY <1>2, <1>3, <3>1, <3>2 DEF Proceeds
  <2> QED
    BY <1>2, <2>1 DEF InOrder
<1>7. LoggedLater' /\ QueuedOnce'
  BY <1>3 DEF Life, LoggedLater, QueuedOnce, Queued, Placed, Nothing
<1>8. Trucked => Trucked'
  <2>1. PICK G : G = Gone
    OBVIOUS
  <2>2. /\ Gone' = G /\ G \in SUBSET DOMAIN shipment
        /\ \A i \in G : shipment'[i] = shipment[i]
    <3>1. Gone' = G /\ G \in SUBSET DOMAIN shipment
      BY <1>2, <2>1 DEF Gone
    <3>2. ship \notin G
      BY <1>4, <2>1 DEF Gone
    <3> QED
      BY <1>2, <3>1, <3>2
  <2>3. GoodsOf(G)' = GoodsOf(G)
    <3>1. \A b : [i \in G |-> Goods(shipment'[i].items)[b]]
                 = [i \in G |-> Goods(shipment[i].items)[b]]
      BY <2>2
    <3> QED
      BY <3>1 DEF GoodsOf
  <2>4. GoodsOf(Gone)' = GoodsOf(G)'
    BY <2>2 DEF GoodsOf
  <2> QED
    BY <1>2, <2>1, <2>3, <2>4 DEF Trucked
<1>9. Overrides(c)
  BY <1>4 DEF Overrides
<1> QED
  BY <1>5, <1>6, <1>7, <1>8, <1>9 DEF Life, BooksFollow

(* A step of nobody's request that writes none of these tables. *)
LEMMA NothingWritten ==
  ASSUME Typed, ShipmentsOK', Life,
         UNCHANGED <<stock, log, order, shipment, manifest, inquiries>>
  PROVE  Life' /\ BooksFollow
<1>1. Become({}, "rejected") /\ "rejected" \notin Waiting \cup {"approved"}
  BY DEF Become, Waiting, Placed
<1> QED
  BY <1>1, OnlyOrders

(* A new order has no shipment, is not queued and holds nothing. *)
LEMMA CreateAdvances ==
  ASSUME Typed, Typed', Life, OwnShipments, NEW o \in Orders, createOrder(o)
  PROVE  Life' /\ BooksFollow
<1>1. /\ o \notin Placed /\ Placed' = Placed \cup {o}
      /\ \A p \in Placed : order'[p] = order[p]
      /\ order'[o].group \in {o} \cup OpenGroups(o)
  BY OrderCreated
<1>2. order'[o].status = "pending" /\ UNCHANGED <<stock, log, shipment, manifest, inquiries>>
  <2>1. PICK g : insertOrderWithItems(o, g)
    BY DEF createOrder
  <2>2. order'[o] = [status |-> "pending", group |-> g, created |-> today,
                     slip |-> FALSE, confirm |-> FALSE]
    BY <2>1 DEF insertOrderWithItems
  <2>3. UNCHANGED <<stock, log, shipment, manifest, inquiries>>
    BY DEF createOrder
  <2> QED
    BY <2>2, <2>3
<1>3. OpenGroups(o) = {}
  <2>1. Placed \subseteq Orders
    BY DEF Typed, OrdersOK
  <2> QED
    BY <1>1, <2>1 DEF OpenGroups, OwnShipments, SameTrip
<1>4. \A i \in DOMAIN shipment : shipment[i].order \in Placed
  BY ShipmentFacts
<1>5. Queued' = Queued
  BY <1>1, <1>2 DEF Queued
<1>6. Life'
  <2>1. OneEach'
    BY <1>1, <1>2, <1>3, <1>4 DEF Life, OneEach
  <2>2. InOrder'
    <3>1. ASSUME NEW i \in DOMAIN shipment
          PROVE  Proceeds(order'[shipment'[i].order].status, shipment'[i].status,
                          shipment'[i].shipped, Loading(i)')
      <4>1. Proceeds(order[shipment[i].order].status, shipment[i].status, shipment[i].shipped,
                     Loading(i))
        BY DEF Life, InOrder
      <4>2. shipment'[i] = shipment[i] /\ (Loading(i)' <=> Loading(i))
            /\ order'[shipment[i].order] = order[shipment[i].order]
        BY <1>1, <1>2, <1>4 DEF Loading
      <4> QED
        BY <4>1, <4>2 DEF Proceeds
    <3> QED
      BY <1>2, <3>1 DEF InOrder
  <2>3. LoggedLater'
    BY <1>1, <1>2 DEF Life, LoggedLater, Nothing
  <2>4. QueuedOnce'
    BY <1>2, <1>5 DEF Life, QueuedOnce
  <2> QED
    BY <2>1, <2>2, <2>3, <2>4 DEF Life
<1>7. LoadsFixed /\ ShipmentsOK'
  BY <1>2, NothingMoves DEF Typed
<1>8. \A i \in DOMAIN shipment : /\ Live(i)' <=> Live(i)
                                 /\ shipment'[i].shipped = shipment[i].shipped
  BY <1>2 DEF Live
<1>9. BooksFollow
  <2>1. UNCHANGED <<stock, log>>
    BY <1>2
  <2> QED
    BY <1>5, <1>7, <1>8, <2>1, BooksStay
<1> QED
  BY <1>6, <1>9

LEMMA HubDone ==
  ASSUME OneAtATime, Typed, NEW c \in Clients, Done(c)
  PROVE  HubReads'
<1>1. \A d \in Clients : req'[d] = Idle
  BY DEF OneAtATime, Done, Typed, RequestsOK
<1>2. ASSUME NEW d \in Clients, NEW r, r = Idle, req'[d] = r PROVE HubReadHolds(req[d])'
  BY <1>2 DEF HubReadHolds, ReadHolds, Idle
<1> QED
  BY <1>1, <1>2 DEF HubReads

LEMMA HubArrival ==
  ASSUME OneAtATime, Typed, NEW c \in Clients, NEW kind, NEW S, NEW target,
         Arrive(c, kind, S, target),
         HubReadHolds([kind |-> kind, orders |-> S, target |-> target])
  PROVE  HubReads'
<1> DEFINE r == [kind |-> kind, orders |-> S, target |-> target]
<1>1. \A d \in Clients : req'[d] = r
  BY DEF OneAtATime, Arrive, Typed, RequestsOK
<1>2. HubReadHolds(r)
  OBVIOUS
<1> HIDE DEF r
<1>3. UNCHANGED <<order, shipment, manifest, inquiries>>
  BY DEF Arrive
<1>4. ASSUME NEW d \in Clients PROVE HubReadHolds(req[d])'
  <2>1. req'[d] = r
    BY <1>1
  <2>2. ReadHolds(r)
    BY <1>2 DEF HubReadHolds
  <2>3. ReadHolds(req[d])'
    BY <1>3, <2>1, <2>2 DEF ReadHolds, Open, OnManifest
  <2> QED
    BY <1>2, <1>3, <2>1, <2>3 DEF HubReadHolds
<1> QED
  BY <1>4 DEF HubReads

(* An order placed, a scan or a new day leaves what a request has read. *)
LEMMA HubKept ==
  ASSUME Typed, HubReads, LoadsFixed,
         \A i \in DOMAIN shipment : Place(shipment'[i]) = Place(shipment[i]),
         \A o \in Placed : order'[o].status = order[o].status,
         UNCHANGED <<manifest, req, inquiries>>, ShipmentsOK'
  PROVE  HubReads'
<1>1. ASSUME NEW i \in DOMAIN shipment
      PROVE  /\ shipment'[i].order = shipment[i].order
             /\ shipment'[i].status = shipment[i].status
             /\ shipment'[i].manifest = shipment[i].manifest
             /\ shipment'[i].shipped = shipment[i].shipped
             /\ shipment[i].order \in Placed
             /\ Goods(shipment'[i].items) = Goods(shipment[i].items)
  <2>1. shipment[i] \in ShipmentRow /\ shipment'[i] \in ShipmentRow
    BY ShipmentFacts DEF LoadsFixed, ShipmentsOK
  <2>2. SameLoad(shipment'[i], shipment[i]) /\ Place(shipment'[i]) = Place(shipment[i])
    BY DEF LoadsFixed
  <2> QED
    BY <2>1, <2>2, SameGoods, ShipmentFacts DEF SameLoad, Place
<1>2. DOMAIN shipment' = DOMAIN shipment
  BY DEF LoadsFixed
<1>3. ASSUME NEW c \in Clients, NEW r, r = req[c], req'[c] = r
      PROVE  HubReadHolds(req[c])'
  <2>1. RequestOK(r) /\ ReadHolds(r) /\ HubReadHolds(r)
    BY <1>3, HubRead DEF Typed, RequestsOK
  <2>2. ReadHolds(r)'
    BY <1>1, <1>2, <2>1, StillRead
  <2>3. r.kind = "inquiry" => inquiries' = 0 /\ r.orders = {}
    BY <2>1 DEF HubReadHolds
  <2>4. r.kind = "batchApprove" => \A o \in r.orders : order'[o].status \in Waiting
    BY <2>1 DEF HubReadHolds, RequestOK
  <2>5. r.kind = "issue" => ~shipment'[r.target.ship].shipped
    BY <1>1, <2>1 DEF HubReadHolds, RequestOK
  <2>6. ReadHolds(req[c])'
    BY <1>3, <2>2 DEF ReadHolds
  <2> QED
    BY <1>3, <2>3, <2>4, <2>5, <2>6 DEF HubReadHolds
<1> QED
  BY <1>3 DEF HubReads

(* The requests of the hub; the others read what they always do. *)
LEMMA HubArrivals ==
  ASSUME Hub, Typed, Life, NEW c \in Clients,
         \/ ArriveForceCancel(c) \/ ArriveInquiry(c) \/ ArriveBatchApprove(c)
         \/ ArriveIssue(c) \/ ArriveCancelManifest(c)
  PROVE  HubReads'
<1>1. \E kind, S, target :
        /\ Arrive(c, kind, S, target)
        /\ HubReadHolds([kind |-> kind, orders |-> S, target |-> target])
  <2>1. CASE ArriveForceCancel(c)
    <3>1. PICK o : Arrive(c, "forceCancel", {o}, None)
      BY <2>1 DEF ArriveForceCancel
    <3>2. HubReadHolds([kind |-> "forceCancel", orders |-> {o}, target |-> None])
      BY DEF HubReadHolds, ReadHolds
    <3> QED
      BY <3>1, <3>2
  <2>2. CASE ArriveInquiry(c)
    <3>1. PICK o \in Placed :
            /\ inquiries < MaxInquiries
            /\ Arrive(c, "inquiry", OnDay(DeliveryOf[o], "coordinating"), DeliveryOf[o])
      BY <2>2 DEF ArriveInquiry
    <3>2. inquiries = 0
      BY <3>1, FulfilmentAssumption DEF Hub, Typed
    <3>3. PICK S : S = OnDay(DeliveryOf[o], "coordinating")
      OBVIOUS
    <3>4. S = {}
      BY <3>2, <3>3 DEF Life, QueuedOnce, Queued, OnDay
    <3>5. PICK day : day = DeliveryOf[o]
      OBVIOUS
    <3>6. HubReadHolds([kind |-> "inquiry", orders |-> S, target |-> day])
      BY <3>2, <3>4 DEF HubReadHolds, ReadHolds
    <3> QED
      BY <3>1, <3>3, <3>5, <3>6
  <2>3. CASE ArriveBatchApprove(c)
    <3>1. PICK S \in SUBSET Placed : /\ \A o \in S : order[o].status \in {"pending", "coordinating"}
                                     /\ Arrive(c, "batchApprove", S, None)
      BY <2>3 DEF ArriveBatchApprove
    <3>2. HubReadHolds([kind |-> "batchApprove", orders |-> S, target |-> None])
      BY <3>1 DEF HubReadHolds, ReadHolds, Waiting
    <3> QED
      BY <3>1, <3>2
  <2>4. CASE ArriveIssue(c)
    <3>1. PICK i \in DOMAIN shipment :
            /\ Loading(i)
            /\ \E k \in DOMAIN shipment[i].items :
                 Arrive(c, "issue", {}, [ship |-> i, item |-> shipment[i].items[k]])
      BY <2>4 DEF ArriveIssue, Loading
    <3>2. PICK item : Arrive(c, "issue", {}, [ship |-> i, item |-> item])
      BY <3>1
    <3>3. PICK target : target = [ship |-> i, item |-> item]
      OBVIOUS
    <3>4. target.ship = i /\ ~shipment[i].shipped
      BY <3>1, <3>3, LifeOf
    <3>5. HubReadHolds([kind |-> "issue", orders |-> {}, target |-> target])
      BY <3>4 DEF HubReadHolds, ReadHolds
    <3> QED
      BY <3>2, <3>3, <3>5
  <2>5. CASE ArriveCancelManifest(c)
    <3>1. PICK m : Arrive(c, "cancelManifest", {}, m)
      BY <2>5 DEF ArriveCancelManifest
    <3>2. HubReadHolds([kind |-> "cancelManifest", orders |-> {}, target |-> m])
      BY DEF HubReadHolds, ReadHolds
    <3> QED
      BY <3>1, <3>2
  <2> QED
    BY <2>1, <2>2, <2>3, <2>4, <2>5
<1> QED
  BY <1>1, HubArrival DEF Hub

LEMMA UsualArrivals ==
  ASSUME Hub, Typed, NEW c \in Clients,
         \/ \/ ArriveApprove(c) \/ ArriveConfirm(c) \/ ArriveReject(c) \/ ArriveCancel(c)
            \/ ArriveCancelTask(c) \/ ArriveFinalize(c) \/ ArriveReceive(c)
         \/ \/ ArriveManifest(c) \/ ArriveConsolidate(c) \/ ArriveDeparture(c)
            \/ ArriveClaim(c) \/ ArriveResolve(c)
  PROVE  HubReads'
<1>1. \E kind \in Workflow : \E S, target :
        /\ Arrive(c, kind, S, target)
        /\ ReadHolds([kind |-> kind, orders |-> S, target |-> target])
  BY OrderArrivalsRead, OtherArrivalsRead
<1>2. PICK kind \in Workflow : \E S, target :
        /\ Arrive(c, kind, S, target)
        /\ ReadHolds([kind |-> kind, orders |-> S, target |-> target])
  BY <1>1
<1>3. PICK S, target :
        /\ Arrive(c, kind, S, target)
        /\ ReadHolds([kind |-> kind, orders |-> S, target |-> target])
  BY <1>2
<1>4. HubReadHolds([kind |-> kind, orders |-> S, target |-> target])
  BY <1>3 DEF HubReadHolds, Workflow
<1>5. OneAtATime
  BY DEF Hub
<1> QED
  BY <1>3, <1>4, <1>5, HubArrival

(* The kitchen is not asked, and no task is cancelled. *)
LEMMA NotInHub ==
  ASSUME Hub, Typed, NEW c \in Clients
  PROVE  /\ ~kitchenProductionConfirm(c) /\ ~cancelPickingTask(c)
         /\ \A o : ~awaitProduction(o)
<1>1. \A kind \in {"confirm", "cancelTask"} : kind \notin Endpoints
  BY DEF Hub
<1>2. req[c].kind \in Endpoints \cup {"idle"}
  BY DEF Typed, RequestsOK
<1>3. req[c].kind # "confirm" /\ req[c].kind # "cancelTask"
  BY <1>1, <1>2
<1> QED
  BY <1>1, <1>3 DEF kitchenProductionConfirm, cancelPickingTask, awaitProduction, Handles, Serves

(* What an arrival, a failure or a step of the environment does not write. *)
LEMMA ArrivalAdvances ==
  ASSUME Hub, Typed, Typed', Life, HubReads, NEW c \in Clients,
         HubReads', UNCHANGED <<stock, log, order, shipment, manifest, inquiries>>
  PROVE  Life' /\ HubReads' /\ BooksFollow
<1>1. ShipmentsOK'
  BY DEF Typed
<1> QED
  BY <1>1, NothingWritten

LEMMA OrderRequestAdvances ==
  ASSUME Hub, Typed, Typed', Life, HubReads, NEW c \in Clients, OrderRequest(c)
  PROVE  Life' /\ HubReads' /\ BooksFollow
<1>1. ShipmentsOK' /\ OneAtATime
  BY DEF Typed, Hub
<1>2. CASE \/ ArriveApprove(c) \/ ArriveConfirm(c) \/ ArriveReject(c) \/ ArriveCancel(c)
           \/ ArriveReceive(c)
  <2>1. HubReads'
    BY <1>2, UsualArrivals
  <2>2. UNCHANGED <<stock, log, order, shipment, manifest, inquiries>>
    BY <1>2 DEF ArriveApprove, ArriveConfirm, ArriveReject, ArriveCancel, ArriveReceive, Arrive
  <2> QED
    BY <2>1, <2>2, ArrivalAdvances
<1>3. CASE ArriveForceCancel(c) \/ ArriveInquiry(c) \/ ArriveBatchApprove(c)
  <2>1. HubReads'
    BY <1>3, HubArrivals
  <2>2. UNCHANGED <<stock, log, order, shipment, manifest, inquiries>>
    BY <1>3 DEF ArriveForceCancel, ArriveInquiry, ArriveBatchApprove, Arrive
  <2> QED
    BY <2>1, <2>2, ArrivalAdvances
<1>4. CASE approveOrder(c)
  <2>1. HubReads'
    BY <1>1, <1>4, HubDone DEF approveOrder
  <2>2. Handles(c, "approve") /\ UNCHANGED <<manifest, inquiries>>
    BY <1>4 DEF approveOrder
  <2>3. rejectOutOfStock(OrderOf(c)) \/ applyApproval(OrderOf(c))
    BY <1>4, NotInHub DEF approveOrder
  <2>4. CASE rejectOutOfStock(OrderOf(c))
    BY <1>1, <1>4, <2>1, <2>4, RefusalAdvances
  <2>5. CASE applyApproval(OrderOf(c))
    BY <2>1, <2>2, <2>5, ApprovalAdvances
  <2> QED
    BY <2>3, <2>4, <2>5
<1>5. CASE rejectOrder(c) \/ cancelOrder(c)
  <2>1. HubReads'
    BY <1>1, <1>5, HubDone DEF rejectOrder, cancelOrder
  <2> QED
    BY <1>1, <1>5, <2>1, RefusalAdvances
<1>6. CASE forceCancelOrder(c)
  <2>1. HubReads'
    BY <1>1, <1>6, HubDone DEF forceCancelOrder
  <2> QED
    BY <1>1, <1>6, <2>1, ForceCancelAdvances
<1>7. CASE sendCoordinationInquiry(c)
  <2>1. HubReads'
    BY <1>1, <1>7, HubDone DEF sendCoordinationInquiry
  <2> QED
    BY <1>7, <2>1, InquiryAdvances
<1>8. CASE batchApproveByAllocation(c)
  <2>1. HubReads'
    BY <1>1, <1>8, HubDone DEF batchApproveByAllocation
  <2> QED
    BY <1>8, <2>1, BatchAdvances
<1>9. CASE receiveShipment(c)
  <2>1. HubReads'
    BY <1>1, <1>9, HubDone DEF receiveShipment
  <2> QED
    BY <1>1, <1>9, <2>1, ReceiveAdvances
<1> QED
  BY <1>2, <1>3, <1>4, <1>5, <1>6, <1>7, <1>8, <1>9, NotInHub DEF OrderRequest

LEMMA WarehouseRequestAdvances ==
  ASSUME Hub, Typed, Typed', Life, HubReads, NEW c \in Clients, WarehouseRequest(c)
  PROVE  Life' /\ HubReads' /\ BooksFollow
<1>1. ShipmentsOK' /\ OneAtATime
  BY DEF Typed, Hub
<1>2. CASE \/ ArriveCancelTask(c) \/ ArriveFinalize(c) \/ ArriveManifest(c)
           \/ ArriveConsolidate(c) \/ ArriveDeparture(c)
  <2>1. HubReads'
    BY <1>2, UsualArrivals
  <2>2. UNCHANGED <<stock, log, order, shipment, manifest, inquiries>>
    BY <1>2 DEF ArriveCancelTask, ArriveFinalize, ArriveManifest, ArriveConsolidate,
       ArriveDeparture, Arrive
  <2> QED
    BY <2>1, <2>2, ArrivalAdvances
<1>3. CASE ArriveIssue(c) \/ ArriveCancelManifest(c)
  <2>1. HubReads'
    BY <1>3, HubArrivals
  <2>2. UNCHANGED <<stock, log, order, shipment, manifest, inquiries>>
    BY <1>3 DEF ArriveIssue, ArriveCancelManifest, Arrive
  <2> QED
    BY <2>1, <2>2, ArrivalAdvances
<1>4. CASE finalizeBulkShipment(c)
  <2>1. HubReads'
    BY <1>1, <1>4, HubDone DEF finalizeBulkShipment
  <2> QED
    BY <1>1, <1>4, <2>1, FinalizeAdvances
<1>5. CASE createManifest(c) \/ consolidateManifestOrders(c)
  <2>1. HubReads'
    BY <1>1, <1>5, HubDone DEF createManifest, consolidateManifestOrders
  <2> QED
    BY <1>1, <1>5, <2>1, ManifestAdvances
<1>6. CASE reportManifestBatchIssue(c)
  <2>1. HubReads'
    BY <1>1, <1>6, HubDone DEF reportManifestBatchIssue
  <2> QED
    BY <1>6, <2>1, IssueAdvances
<1>7. CASE cancelManifest(c)
  <2>1. HubReads'
    BY <1>1, <1>7, HubDone DEF cancelManifest
  <2> QED
    BY <1>1, <1>7, <2>1, CancelManifestAdvances
<1>8. CASE confirmManifestDeparture(c)
  <2>1. HubReads'
    BY <1>1, <1>8, HubDone DEF confirmManifestDeparture
  <2> QED
    BY <1>1, <1>8, <2>1, DepartureAdvances
<1> QED
  BY <1>2, <1>3, <1>4, <1>5, <1>6, <1>7, <1>8, NotInHub DEF WarehouseRequest

LEMMA ClaimRequestAdvances ==
  ASSUME Hub, Typed, Typed', Life, HubReads, NEW c \in Clients, ClaimRequest(c) \/ Fail(c)
  PROVE  Life' /\ HubReads' /\ BooksFollow
<1>1. ShipmentsOK' /\ OneAtATime
  BY DEF Typed, Hub
<1>2. CASE ArriveClaim(c) \/ ArriveResolve(c)
  <2>1. HubReads'
    BY <1>2, UsualArrivals
  <2>2. UNCHANGED <<stock, log, order, shipment, manifest, inquiries>>
    BY <1>2 DEF ArriveClaim, ArriveResolve, Arrive
  <2> QED
    BY <2>1, <2>2, ArrivalAdvances
<1>3. CASE createManualClaim(c) \/ resolveClaim(c)
  <2>1. HubReads'
    BY <1>1, <1>3, HubDone DEF createManualClaim, resolveClaim
  <2> QED
    BY <1>1, <1>3, <2>1, ClaimAdvances
<1>4. CASE Fail(c)
  <2>1. HubReads'
    BY <1>1, <1>4, HubDone DEF Fail
  <2>2. UNCHANGED <<stock, log, order, shipment, manifest, inquiries>>
    BY <1>4 DEF Fail
  <2> QED
    BY <2>1, <2>2, ArrivalAdvances
<1> QED
  BY <1>2, <1>3, <1>4 DEF ClaimRequest

LEMMA NextHub ==
  ASSUME Hub, Typed, Typed', Life, HubReads, [Next]_vars
  PROVE  Life' /\ HubReads' /\ BooksFollow
<1>1. ShipmentsOK' /\ OneAtATime /\ OwnShipments
  BY DEF Typed, Hub
<1>2. CASE UNCHANGED vars
  <2>1. UNCHANGED <<stock, log, order, shipment, manifest, inquiries, req>>
    BY <1>2 DEF vars
  <2>2. LoadsFixed /\ \A i \in DOMAIN shipment : Place(shipment'[i]) = Place(shipment[i])
    BY <2>1, NothingMoves
  <2>3. HubReads'
    BY <1>1, <2>1, <2>2, HubKept
  <2> QED
    BY <1>1, <2>1, <2>3, NothingWritten
<1>3. ASSUME NEW o \in Orders, createOrder(o) PROVE Life' /\ HubReads' /\ BooksFollow
  <2>1. /\ \A p \in Placed : order'[p].status = order[p].status
        /\ UNCHANGED <<shipment, manifest, req, inquiries>>
    BY <1>3, OrderCreated
  <2>2. LoadsFixed /\ \A i \in DOMAIN shipment : Place(shipment'[i]) = Place(shipment[i])
    BY <2>1, NothingMoves
  <2>3. HubReads'
    BY <1>1, <2>1, <2>2, HubKept
  <2> QED
    BY <1>1, <1>3, <2>3, CreateAdvances
<1>4. CASE \/ cronExpireBatches
           \/ \E i \in DOMAIN shipment : \E k \in DOMAIN shipment[i].items :
                verifyManifestItem(i, k)
  <2>1. UNCHANGED <<order, manifest, req, inquiries>>
    BY <1>4 DEF cronExpireBatches, verifyManifestItem
  <2>2. LoadsFixed /\ \A i \in DOMAIN shipment : Place(shipment'[i]) = Place(shipment[i])
    BY <1>4, NothingMoves, ScanMoves DEF cronExpireBatches
  <2>3. HubReads'
    BY <1>1, <2>1, <2>2, HubKept
  <2> QED
    BY <1>1, <1>4, <2>3, EnvironmentAdvances
<1> QED
  BY <1>2, <1>3, <1>4, OrderRequestAdvances, WarehouseRequestAdvances, ClaimRequestAdvances
     DEF Next

LEMMA InitHub == Init => Life /\ HubReads /\ Trucked
<1> SUFFICES ASSUME Init PROVE Life /\ HubReads /\ Trucked
  OBVIOUS
<1>1. Placed = {} /\ DOMAIN shipment = {}
  BY DEF Init, Placed
<1>2. Life
  <2>1. OneEach
    BY <1>1 DEF OneEach
  <2>2. InOrder
    BY <1>1 DEF InOrder
  <2>3. LoggedLater
    BY <1>1 DEF LoggedLater, Init
  <2>4. QueuedOnce
    BY <1>1 DEF QueuedOnce, Queued
  <2> QED
    BY <2>1, <2>2, <2>3, <2>4 DEF Life
<1>3. ASSUME NEW c \in Clients PROVE HubReadHolds(req[c])
  <2>1. req[c] = Idle
    BY DEF Init
  <2> QED
    BY <2>1 DEF Idle, HubReadHolds, ReadHolds
<1>4. Typed
  BY InitTyped
<1>5. Trucked
  <2>1. Gone = {}
    BY <1>1 DEF Gone
  <2>2. ASSUME NEW b \in Batches PROVE stock[b].quantity = Opening[b] - GoodsOf(Gone)[b]
    <3>1. GoodsOf(Gone)[b] = 0
      BY <1>4, <2>1, GoodsOfParts
    <3>2. stock[b].quantity = Opening[b] /\ Opening[b] \in Nat
      BY FulfilmentAssumption DEF Init
    <3> QED
      BY <3>1, <3>2
  <2> QED
    BY <2>2 DEF Trucked
<1> QED
  BY <1>2, <1>3, <1>5 DEF HubReads

(* One request at a time, with a shipment of its own for each order, at     *)
(* most one inquiry, and neither the kitchen's answers nor cancelled tasks: *)
(* the reservations stay accounted for, by the queue of the coordination    *)
(* hub and the shipments, through inquiries, batch approvals and all that   *)
(* follows, and only what a coordinator overrides unbalances them           *)
(* (SupplyChain!QueueHoldsItsStock).                                        *)
THEOREM QueueIsKept ==
  ASSUME Hub
  PROVE  Spec => QueueHoldsItsStock
<1>1. Init => Typed /\ Life /\ HubReads
  BY InitTyped, InitHub
<1>2. Typed /\ Life /\ HubReads /\ [Next]_vars
        => /\ Typed' /\ Life' /\ HubReads'
           /\ (Balanced => Balanced' \/ \E c \in Clients : Overrides(c))
  BY NextTyped, NextHub DEF BooksFollow
<1>3. (Balanced => Balanced' \/ \E c \in Clients : Overrides(c))
        => [Balanced => Balanced' \/ \E c \in Clients : Overrides(c)]_vars
  OBVIOUS
<1> QED
  BY <1>1, <1>2, <1>3, PTL DEF Spec, QueueHoldsItsStock

(* ... and whatever a coordinator overrides, the physical stock falls by    *)
(* what the trucks have taken (SupplyChain!PhysicalFollowsTrucks).          *)
THEOREM TrucksTakeTheStockAnyway ==
  ASSUME Hub
  PROVE  Spec => []PhysicalFollowsTrucks
<1>1. Init => Typed /\ Life /\ HubReads /\ Trucked
  BY InitTyped, InitHub
<1>2. Typed /\ Life /\ HubReads /\ Trucked /\ [Next]_vars
        => Typed' /\ Life' /\ HubReads' /\ Trucked'
  BY NextTyped, NextHub DEF BooksFollow
<1>3. Trucked => PhysicalFollowsTrucks
  BY DEF Trucked, PhysicalFollowsTrucks, Gone
<1> QED
  BY <1>1, <1>2, <1>3, PTL DEF Spec
=============================================================================
