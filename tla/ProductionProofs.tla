--------------------------- MODULE ProductionProofs ---------------------------
(* Theorems of ProductionService, for any recipe, lots and orders.  Types  *)
(* and the expiry of what is made need no assumption on the requests; the  *)
(* books of the ingredients balance when requests are handled one at a     *)
(* time (startProduction and completeProduction read without a lock).      *)
EXTENDS ProductionService, QuantitiesProofs

(* The requests under way, with what they have read. *)
Request ==
       {Idle}
  \cup [kind : {"start"}, order : Orders]
  \cup [kind : {"reserve"}, order : Orders, day : 0..Horizon, free : [Lots -> Nat]]
  \cup [kind : {"complete"}, order : Orders, used : [Lots -> Nat]]

Typed == TypeOK /\ req \in [Clients -> Request]

-----------------------------------------------------------------------------
(* Lemmas about the operators.                                             *)

(* What a request of each kind has read. *)
LEMMA RequestFields ==
  ASSUME NEW r \in Request
  PROVE  /\ r.kind = "start" => r.order \in Orders
         /\ r.kind = "reserve" =>
              r.order \in Orders /\ r.day \in 0..Horizon /\ r.free \in [Lots -> Nat]
         /\ r.kind = "complete" => r.order \in Orders /\ r.used \in [Lots -> Nat]
  BY DEF Request, Idle

(* The sum over the lots of one ingredient. *)
LEMMA OverLots ==
  ASSUME NEW f, NEW S \in SUBSET Lots
  PROVE  Total([l \in S |-> f[l]]) = SumOver(f, S)
<1>1. IsFiniteSet(S)
  BY ProductionAssumption, FS_Subset
<1>2. SumOver([l \in S |-> f[l]], S) = SumOver(f, S)
  BY <1>1, SumSame
<1> QED
  BY <1>2, TotalIsSum

(* The loop over the lots takes no more of a lot than is free, exactly the *)
(* need of each ingredient if that much is free in all, and of a later lot *)
(* only when the earlier ones are used up.                                 *)
LEMMA AllocationServes ==
  ASSUME NEW o \in Orders, NEW free \in [Lots -> Nat]
  PROVE  LET take == Allocation(o, free)
         IN /\ take \in [Lots -> Nat]
            /\ \A l \in Lots : take[l] <= free[l]
            /\ \A p \in Ingredients :
                 Total([l \in LotsOf(p) |-> take[l]])
                   = Minimum(Need(o, p), SumOver(free, LotsOf(p)))
            /\ \A l \in Lots : take[l] > 0 =>
                 \A m \in SoonerThan(l) : take[m] = free[m]
<1> DEFINE take == Allocation(o, free)
<1>1. \A p \in Ingredients : Need(o, p) \in Nat
  BY ProductionAssumption DEF Need
<1>2. ASSUME NEW l \in Lots
      PROVE  /\ ProductOf[l] \in Ingredients /\ LotsOf(ProductOf[l]) \in SUBSET Lots
             /\ SoonerThan(l) \in SUBSET Lots
             /\ SumOver(free, SoonerThan(l)) \in Nat
             /\ take[l] = Minimum(free[l],
                            Maximum(Need(o, ProductOf[l]) - SumOver(free, SoonerThan(l)), 0))
  <2>1. SoonerThan(l) \in SUBSET Lots /\ LotsOf(ProductOf[l]) \in SUBSET Lots
    BY DEF SoonerThan, LotsOf
  <2>2. Total([m \in SoonerThan(l) |-> free[m]]) = SumOver(free, SoonerThan(l))
    BY <2>1, OverLots
  <2>3. SumOver(free, SoonerThan(l)) \in Nat
    BY <2>1, ProductionAssumption, SumGrows DEF Nats
  <2> QED
    BY <2>1, <2>2, <2>3, ProductionAssumption DEF Allocation
<1>3. ASSUME NEW l \in Lots PROVE take[l] \in Nat /\ take[l] <= free[l]
  BY <1>1, <1>2 DEF Minimum, Maximum
<1>4. ASSUME NEW p \in Ingredients
      PROVE  Total([l \in LotsOf(p) |-> take[l]])
               = Minimum(Need(o, p), SumOver(free, LotsOf(p)))
  <2> DEFINE S == LotsOf(p)
             n == Need(o, p)
  <2>1. S \in SUBSET Lots /\ IsFiniteSet(S)
    BY ProductionAssumption, FS_Subset DEF LotsOf
  <2>2. ASSUME NEW l \in S
        PROVE  take[l] = Minimum(free[l],
                 Maximum(n - SumOver(free, {m \in S : ExpiryOf[m] < ExpiryOf[l]}), 0))
    <3>1. l \in Lots /\ ProductOf[l] = p
      BY DEF LotsOf
    <3>2. SoonerThan(l) = {m \in S : ExpiryOf[m] < ExpiryOf[l]}
      BY <3>1 DEF SoonerThan
    <3> QED
      BY <1>2, <3>1, <3>2
  <2>3. \A l, m \in S : l # m => ExpiryOf[l] # ExpiryOf[m]
    BY ProductionAssumption DEF LotsOf
  <2>4. Ints(ExpiryOf, S) /\ Nats(free, S) /\ n \in Nat
    BY <1>1, <2>1, ProductionAssumption DEF Ints, Nats
  <2>5. Total([l \in S |-> take[l]]) = SumOver(take, S)
    BY <2>1, OverLots
  <2>6. SumOver(take, S) = Minimum(n, SumOver(free, S))
    <3> HIDE DEF take, S, n
    <3> QED
      BY <2>1, <2>2, <2>3, <2>4, Served
  <2> QED
    BY <2>5, <2>6
<1>5. ASSUME NEW l \in Lots, take[l] > 0, NEW m \in SoonerThan(l)
      PROVE  take[m] = free[m]
  <2>1. m \in Lots /\ ProductOf[m] = ProductOf[l] /\ ExpiryOf[m] < ExpiryOf[l]
    BY DEF SoonerThan, LotsOf
  <2>2. m \notin SoonerThan(m) /\ SoonerThan(m) \cup {m} \in SUBSET SoonerThan(l)
    BY <2>1, ProductionAssumption DEF SoonerThan, LotsOf
  <2>3. IsFiniteSet(SoonerThan(l)) /\ IsFiniteSet(SoonerThan(m))
    BY <1>2, <2>1, ProductionAssumption, FS_Subset
  <2>4. SumOver(free, SoonerThan(m) \cup {m}) <= SumOver(free, SoonerThan(l))
    <3>1. Nats(free, SoonerThan(l))
      BY <1>2 DEF Nats
    <3> QED
      BY <2>2, <2>3, <3>1, SumGrows
  <2>5. SumOver(free, SoonerThan(m) \cup {m}) = free[m] + SumOver(free, SoonerThan(m))
    <3>1. Ints(free, SoonerThan(m) \cup {m})
      BY <1>2, <2>1 DEF Ints
    <3> QED
      BY <2>2, <2>3, <3>1, SumAdd
  <2>6. Need(o, ProductOf[l]) - SumOver(free, SoonerThan(l)) > 0
    BY <1>1, <1>2, <1>5 DEF Minimum, Maximum
  <2>7. /\ take[m] = Minimum(free[m],
                       Maximum(Need(o, ProductOf[l]) - SumOver(free, SoonerThan(m)), 0))
        /\ SumOver(free, SoonerThan(m)) \in Nat /\ SumOver(free, SoonerThan(l)) \in Nat
        /\ Need(o, ProductOf[l]) \in Nat /\ free[m] \in Nat
    BY <1>1, <1>2, <2>1
  <2> HIDE DEF take
  <2> QED
    BY <2>4, <2>5, <2>6, <2>7 DEF Minimum, Maximum
<1>6. take \in [Lots -> Nat]
  BY <1>3 DEF Allocation
<1> QED
  BY <1>3, <1>4, <1>5, <1>6

(* The expiry day of a finished batch is a day, none of its ingredients'   *)
(* earlier.                                                                *)
LEMMA FinishedGoodExpiry ==
  ASSUME NEW used \in [Lots -> Nat], today \in Nat
  PROVE  /\ calculateFinishedGoodExpiry(used) \in Nat
         /\ \A l \in Parents(used) : calculateFinishedGoodExpiry(used) <= ExpiryOf[l]
<1> DEFINE D == {today + ShelfLife} \cup {ExpiryOf[l] : l \in Parents(used)}
<1>1. D \subseteq Nat /\ D # {}
  BY ProductionAssumption DEF Parents
<1>2. Min(D) \in D /\ \A d \in D : Min(D) <= d
  <2> HIDE DEF D
  <2> QED
    BY <1>1, LeastNumber DEF Min
<1> QED
  BY <1>1, <1>2 DEF calculateFinishedGoodExpiry
-----------------------------------------------------------------------------
(* Types, for any number of requests.                                      *)

(* The initial state has the types. *)
LEMMA InitTyped == Init => Typed
  BY ProductionAssumption DEF Init, Typed, TypeOK, Request, Idle, Nothing, Statuses

(* A request that ends leaves the others as they are. *)
LEMMA DoneTyped ==
  ASSUME NEW c \in Clients, req \in [Clients -> Request], Done(c)
  PROVE  req' \in [Clients -> Request]
  BY DEF Done, Request

(* A row with a new quantity and new reservations is still a row. *)
LEMMA TwoFields ==
  ASSUME NEW Q, NEW P, NEW T,
         NEW row \in [quantity : Q, reserved : P, status : T],
         NEW x \in Q, NEW y \in P
  PROVE  [row EXCEPT !.quantity = x, !.reserved = y]
           \in [quantity : Q, reserved : P, status : T]
OBVIOUS

(* Every step keeps the types. *)
LEMMA NextTyped == Typed /\ [Next]_vars => Typed'
<1> SUFFICES ASSUME Typed, [Next]_vars PROVE Typed'
  OBVIOUS
<1> USE DEF Typed
<1>1. ASSUME NEW o \in Orders, createOrder(o) PROVE Typed'
  BY <1>1 DEF createOrder, TypeOK, Statuses
<1>2. ASSUME NEW c \in Clients, ArriveStart(c) PROVE Typed'
  BY <1>2 DEF ArriveStart, TypeOK, Request
<1>3. ASSUME NEW c \in Clients, listAvailableInventoryFefo(c) PROVE Typed'
  <2>1. req[c] \in Request /\ req[c].order \in Orders
    BY <1>3, RequestFields DEF listAvailableInventoryFefo
  <2> DEFINE r == [kind |-> "reserve", order |-> req[c].order, day |-> today,
                   free |-> [l \in Lots |->
                               Maximum(stock[l].quantity - stock[l].reserved, 0)]]
  <2>2. r \in Request
    <3>1. r.free \in [Lots -> Nat]
      BY DEF TypeOK, Maximum
    <3> QED
      BY <2>1, <3>1 DEF TypeOK, Request
  <2>3. req' = [req EXCEPT ![c] = r]
    BY <1>3 DEF listAvailableInventoryFefo
  <2> HIDE DEF r
  <2> QED
    BY <1>3, <2>2, <2>3 DEF listAvailableInventoryFefo, TypeOK
<1>4. ASSUME NEW c \in Clients, startProduction(c) PROVE Typed'
  <2> DEFINE o == req[c].order
             take == Allocation(o, req[c].free)
  <2>1. o \in Orders /\ req[c].free \in [Lots -> Nat]
    BY <1>4, RequestFields DEF startProduction
  <2>2. take \in [Lots -> Nat]
    BY <2>1, AllocationServes
  <2>3. req' \in [Clients -> Request]
    BY <1>4, DoneTyped DEF startProduction
  <2>4. /\ stock' = [l \in Lots |-> [stock[l] EXCEPT !.reserved = @ + take[l]]]
        /\ held' = [held EXCEPT ![o] = [l \in Lots |-> @[l] + take[l]]]
        /\ status' = [status EXCEPT ![o] = "in_progress"]
        /\ UNCHANGED <<today, output>>
    BY <1>4 DEF startProduction
  <2> HIDE DEF take, o
  <2>5. ASSUME NEW l \in Lots
        PROVE  stock'[l] \in [quantity : Nat, reserved : Nat,
                              status : {"available", "expired", "damaged"}]
    <3>1. stock[l] \in [quantity : Nat, reserved : Nat,
                        status : {"available", "expired", "damaged"}] /\ take[l] \in Nat
      BY <2>2 DEF TypeOK
    <3> QED
      BY <2>4, <3>1
  <2>6. stock' \in [Lots -> [quantity : Nat, reserved : Nat,
                             status : {"available", "expired", "damaged"}]]
    BY <2>4, <2>5
  <2>7. held' \in [Orders -> [Lots -> Nat]]
    <3>1. [l \in Lots |-> held[o][l] + take[l]] \in [Lots -> Nat]
      BY <2>1, <2>2 DEF TypeOK
    <3> QED
      BY <2>1, <2>4, <3>1 DEF TypeOK
  <2>8. status' \in [Orders -> Statuses]
    BY <2>4 DEF TypeOK, Statuses
  <2> QED
    BY <2>3, <2>4, <2>6, <2>7, <2>8 DEF TypeOK
<1>5. ASSUME NEW c \in Clients, ArriveComplete(c) PROVE Typed'
  BY <1>5 DEF ArriveComplete, TypeOK, Request
<1>6. ASSUME NEW c \in Clients, completeProduction(c) PROVE Typed'
  <2> DEFINE o == req[c].order
             used == req[c].used
             e == calculateFinishedGoodExpiry(used)
  <2>1. o \in Orders /\ used \in [Lots -> Nat]
    BY <1>6, RequestFields DEF completeProduction
  <2>2. e \in Nat
    BY <2>1, FinishedGoodExpiry DEF TypeOK
  <2>3. req' \in [Clients -> Request]
    BY <1>6, DoneTyped DEF completeProduction
  <2>4. PICK actual \in 1..(Planned[o] + Surplus) :
          output' = [output EXCEPT ![o] = Append(@,
            [made |-> today, expiry |-> e, quantity |-> actual, parents |-> used])]
    BY <1>6 DEF completeProduction
  <2>5. [made |-> today, expiry |-> e, quantity |-> actual, parents |-> used] \in Batch
    BY <2>1, <2>2, ProductionAssumption DEF Batch, TypeOK
  <2>6. output' \in [Orders -> Seq(Batch)]
    BY <2>1, <2>4, <2>5 DEF TypeOK
  <2>7. stock' \in [Lots -> [quantity : Nat, reserved : Nat,
                             status : {"available", "expired", "damaged"}]]
    <3>1. stock' = [l \in Lots |-> decreaseStockAndReserved(stock[l], used[l])]
      BY <1>6 DEF completeProduction
    <3> HIDE DEF used
    <3>2. ASSUME NEW l \in Lots
          PROVE  decreaseStockAndReserved(stock[l], used[l])
                   \in [quantity : Nat, reserved : Nat,
                        status : {"available", "expired", "damaged"}]
      <4>1. stock[l] \in [quantity : Nat, reserved : Nat,
                          status : {"available", "expired", "damaged"}]
            /\ used[l] \in Nat
        BY <2>1 DEF TypeOK
      <4>2. Maximum(stock[l].quantity - used[l], 0) \in Nat
            /\ Maximum(stock[l].reserved - used[l], 0) \in Nat
        BY <4>1 DEF Maximum
      <4> QED
        BY <4>1, <4>2, TwoFields DEF decreaseStockAndReserved
    <3> QED
      BY <3>1, <3>2
  <2> QED
    BY <1>6, <2>1, <2>3, <2>6, <2>7 DEF completeProduction, TypeOK, Statuses
<1>7. ASSUME NEW c \in Clients, Fail(c) PROVE Typed'
  BY <1>7, DoneTyped DEF Fail, TypeOK
<1>8. ASSUME cronExpireBatches PROVE Typed'
  <2>1. today' \in 0..Horizon /\ UNCHANGED <<status, held, output, req>>
    <3>1. /\ today < Horizon /\ today' = today + 1
          /\ UNCHANGED <<status, held, output, req>>
      BY <1>8 DEF cronExpireBatches
    <3>2. today \in 0..Horizon /\ Horizon \in Nat
      BY ProductionAssumption DEF TypeOK
    <3> QED
      BY <3>1, <3>2
  <2>2. ASSUME NEW l \in Lots
        PROVE  stock'[l] \in [quantity : Nat, reserved : Nat,
                              status : {"available", "expired", "damaged"}]
    <3>1. stock[l] \in [quantity : Nat, reserved : Nat,
                        status : {"available", "expired", "damaged"}]
      BY DEF TypeOK
    <3>2. stock'[l] = stock[l]
            \/ stock'[l] = [stock[l] EXCEPT !.reserved = 0, !.status = "expired"]
      BY <1>8 DEF cronExpireBatches
    <3>3. [stock[l] EXCEPT !.reserved = 0, !.status = "expired"]
            \in [quantity : Nat, reserved : Nat,
                 status : {"available", "expired", "damaged"}]
      BY <3>1
    <3> QED
      BY <3>1, <3>2, <3>3
  <2>3. stock' = [l \in Lots |-> stock'[l]]
    BY <1>8 DEF cronExpireBatches
  <2> QED
    BY <2>1, <2>2, <2>3 DEF TypeOK
<1>9. ASSUME NEW l \in Lots, reportWaste(l) PROVE Typed'
  BY <1>9 DEF reportWaste, TypeOK
<1>10. CASE UNCHANGED vars
  BY <1>10 DEF vars, TypeOK
<1> QED
  BY <1>1, <1>2, <1>3, <1>4, <1>5, <1>6, <1>7, <1>8, <1>9, <1>10 DEF Next

(* Whatever the requests, the variables have their types. *)
THEOREM TypeCorrect == Spec => []TypeOK
<1>1. Typed => TypeOK
  BY DEF Typed
<1> QED
  BY <1>1, InitTyped, NextTyped, PTL DEF Spec

-----------------------------------------------------------------------------
(* The expiry of what is made, for any number of requests.                 *)

(* No finished batch outlives a lot it was made of: its lines one by one.  *)
WithinIngredients ==
  \A o \in Orders : \A k \in DOMAIN output[o] :
    \A l \in Parents(output[o][k].parents) : output[o][k].expiry <= ExpiryOf[l]

(* Only a completion makes a batch, and computes its expiry. *)
LEMMA NextWithinIngredients ==
  Typed /\ WithinIngredients /\ [Next]_vars => WithinIngredients'
<1> SUFFICES ASSUME Typed, WithinIngredients, [Next]_vars PROVE WithinIngredients'
  OBVIOUS
<1>1. ASSUME NEW c \in Clients, completeProduction(c) PROVE WithinIngredients'
  <2> DEFINE o == req[c].order
             used == req[c].used
             e == calculateFinishedGoodExpiry(used)
  <2>1. o \in Orders /\ used \in [Lots -> Nat]
    BY <1>1, RequestFields DEF completeProduction, Typed
  <2>2. PICK actual \in 1..(Planned[o] + Surplus) :
          output' = [output EXCEPT ![o] = Append(@,
            [made |-> today, expiry |-> e, quantity |-> actual, parents |-> used])]
    BY <1>1 DEF completeProduction
  <2>3. \A l \in Parents(used) : e <= ExpiryOf[l]
    <3>1. today \in Nat
      BY ProductionAssumption DEF Typed, TypeOK
    <3> HIDE DEF used
    <3> QED
      BY <2>1, <3>1, FinishedGoodExpiry
  <2> HIDE DEF o, used, e
  <2>4. ASSUME NEW q \in Orders, NEW k \in DOMAIN output'[q],
               NEW l \in Parents(output'[q][k].parents)
        PROVE  output'[q][k].expiry <= ExpiryOf[l]
    <3>1. output \in [Orders -> Seq(Batch)]
      BY DEF Typed, TypeOK
    <3>2. CASE q = o /\ k = Len(output[o]) + 1
      BY <2>1, <2>2, <2>3, <2>4, <3>1, <3>2
    <3>3. CASE ~(q = o /\ k = Len(output[o]) + 1)
      <4>1. k \in DOMAIN output[q] /\ output'[q][k] = output[q][k]
        BY <2>1, <2>2, <3>1, <3>3
      <4> QED
        BY <2>4, <4>1 DEF WithinIngredients
    <3> QED
      BY <3>2, <3>3
  <2> QED
    BY <2>4 DEF WithinIngredients
<1>2. ASSUME UNCHANGED output PROVE WithinIngredients'
  BY <1>2 DEF WithinIngredients
<1> QED
  BY <1>1, <1>2 DEF Next, vars, createOrder, ArriveStart, listAvailableInventoryFefo,
     startProduction, ArriveComplete, Fail, cronExpireBatches, reportWaste

(* Whatever the requests, no finished batch outlives an ingredient. *)
THEOREM FreshGoods == Spec => []NeverOutlivesIngredients
<1>1. Init => WithinIngredients
  BY DEF Init, WithinIngredients
<1>2. WithinIngredients => NeverOutlivesIngredients
  BY DEF WithinIngredients, NeverOutlivesIngredients, Made, Range
<1> QED
  BY <1>1, <1>2, InitTyped, NextTyped, NextWithinIngredients, PTL DEF Spec

-----------------------------------------------------------------------------
(* The books of the ingredients, when requests are handled one at a time.  *)
(* startProduction and completeProduction read the status and the free      *)
(* quantities without a lock: two of them would invalidate ReadsHold.      *)

OneAtATime == \A c, d \in Clients : c = d

(* What the request under way has read is still so. *)
ReadsHold ==
  \A c \in Clients :
    /\ req[c].kind \in {"start", "reserve"} =>
         status[req[c].order] \in {"draft", "pending"}
    /\ req[c].kind = "complete" =>
         status[req[c].order] = "in_progress" /\ req[c].used = held[req[c].order]
    /\ req[c].kind = "reserve" =>
         \A l \in Lots : stock[l].status = "available" =>
           req[c].free[l] = Maximum(stock[l].quantity - stock[l].reserved, 0)

(* An order that has not started holds nothing. *)
NothingHeldBefore ==
  \A o \in Orders : status[o] \in {"none", "draft", "pending"} => held[o] = Nothing

Balanced ==
  /\ Typed /\ ReadsHold /\ NothingHeldBefore
  /\ HeldIsReserved /\ ConsumptionIsTraced /\ RecipeIsMet /\ OneBatchPerOrder

(* What the orders of S hold of a lot. *)
HeldOf(h, l) == [o \in Orders |-> h[o][l]]

LEMMA HeldSum ==
  ASSUME NEW h, NEW l, NEW S \in SUBSET Orders
  PROVE  /\ IsFiniteSet(S)
         /\ Total([o \in S |-> h[o][l]]) = SumOver(HeldOf(h, l), S)
<1>1. IsFiniteSet(S)
  BY ProductionAssumption, FS_Subset
<1>2. Total([o \in S |-> h[o][l]]) = SumOver([o \in S |-> h[o][l]], S)
  BY TotalIsSum
<1>3. \A o \in S : [q \in S |-> h[q][l]][o] = HeldOf(h, l)[o]
  BY DEF HeldOf
<1> QED
  BY <1>1, <1>2, <1>3, SumSame

(* Quantities held are natural numbers; an order in progress holds at most *)
(* what all of them hold.                                                  *)
LEMMA HeldParts ==
  ASSUME NEW h \in [Orders -> [Lots -> Nat]], NEW l \in Lots, NEW S \in SUBSET Orders
  PROVE  /\ SumOver(HeldOf(h, l), S) \in Nat
         /\ \A o \in S : /\ SumOver(HeldOf(h, l), S)
                              = h[o][l] + SumOver(HeldOf(h, l), S \ {o})
                         /\ SumOver(HeldOf(h, l), S \ {o}) \in Nat
         /\ \A o \in Orders \ S : SumOver(HeldOf(h, l), S \cup {o})
                              = h[o][l] + SumOver(HeldOf(h, l), S)
<1>1. \A T \in SUBSET Orders : /\ IsFiniteSet(T)
                               /\ Nats(HeldOf(h, l), T) /\ Ints(HeldOf(h, l), T)
  BY ProductionAssumption, FS_Subset DEF HeldOf, Nats, Ints
<1>2. \A T \in SUBSET Orders : SumOver(HeldOf(h, l), T) \in Nat
  BY <1>1, SumGrows
<1>3. ASSUME NEW o \in S
      PROVE  SumOver(HeldOf(h, l), S) = h[o][l] + SumOver(HeldOf(h, l), S \ {o})
  BY <1>1, SumRemove DEF HeldOf
<1>4. ASSUME NEW o \in Orders \ S
      PROVE  SumOver(HeldOf(h, l), S \cup {o}) = h[o][l] + SumOver(HeldOf(h, l), S)
  <2>1. S \cup {o} \in SUBSET Orders
    OBVIOUS
  <2> QED
    BY <1>1, <2>1, SumAdd DEF HeldOf
<1> QED
  BY <1>2, <1>3, <1>4

(* What is reserved of a lot, as a sum over the orders in progress. *)
LEMMA ReservedSum ==
  ASSUME HeldIsReserved, NEW l \in Lots, stock[l].status = "available"
  PROVE  /\ stock[l].reserved = SumOver(HeldOf(held, l), InProgress)
         /\ stock[l].reserved <= stock[l].quantity
<1>1. InProgress \in SUBSET Orders
  BY DEF InProgress
<1>2. Total([o \in InProgress |-> held[o][l]]) = SumOver(HeldOf(held, l), InProgress)
  BY <1>1, HeldSum
<1> QED
  BY <1>2 DEF HeldIsReserved

(* The quantity of a lot in the lineage of the batches of a sequence. *)
Used(batches, l) == Total([k \in DOMAIN batches |-> batches[k].parents[l]])
UsedBy(out, l) == [o \in Orders |-> Used(out[o], l)]

LEMMA UsedSum ==
  ASSUME NEW out, NEW l
  PROVE  Total([o \in Orders |->
           Total([k \in DOMAIN out[o] |-> out[o][k].parents[l]])])
             = SumOver(UsedBy(out, l), Orders)
  BY TotalIsSum DEF UsedBy, Used

(* No batch has used anything ... *)
LEMMA NoneUsed ==
  ASSUME NEW l
  PROVE  Used(<< >>, l) = 0
<1>1. DOMAIN [k \in DOMAIN << >> |-> << >>[k].parents[l]] = {}
  OBVIOUS
<1> QED
  BY <1>1, TotalIsSum, SumEmpty DEF Used

(* ... and one batch what it was made of. *)
LEMMA OneUsed ==
  ASSUME NEW l, NEW b, b.parents[l] \in Int
  PROVE  Used(<<b>>, l) = b.parents[l]
<1> DEFINE f == [k \in DOMAIN <<b>> |-> <<b>>[k].parents[l]]
<1>1. DOMAIN f = {1} /\ f[1] = b.parents[l]
  OBVIOUS
<1>2. SumOver(f, {1}) = f[1]
  <2> HIDE DEF f
  <2>1. SumOver(f, {} \cup {1}) = f[1] + SumOver(f, {})
    BY <1>1, SumAdd, FS_EmptySet DEF Ints
  <2> QED
    BY <1>1, <2>1, SumEmpty
<1>3. Used(<<b>>, l) = SumOver(f, DOMAIN f)
  BY TotalIsSum DEF Used
<1> QED
  BY <1>1, <1>2, <1>3

(* What is used of a lot is a number of units, for every order. *)
LEMMA UsedType ==
  ASSUME Typed, NEW l \in Lots, NEW o \in Orders
  PROVE  UsedBy(output, l)[o] \in Nat
<1> DEFINE f == [k \in DOMAIN output[o] |-> output[o][k].parents[l]]
<1>1. output[o] \in Seq(Batch)
  BY DEF Typed, TypeOK
<1>2. DOMAIN f = 1..Len(output[o]) /\ IsFiniteSet(DOMAIN f)
  BY <1>1, FS_Interval
<1>3. Nats(f, DOMAIN f)
  <2>1. \A k \in DOMAIN f : f[k] = output[o][k].parents[l] /\ output[o][k] \in Batch
    BY <1>1, <1>2
  <2> HIDE DEF f
  <2> QED
    BY <2>1 DEF Nats, Batch
<1>4. UsedBy(output, l)[o] = SumOver(f, DOMAIN f)
  BY TotalIsSum DEF UsedBy, Used
<1> HIDE DEF f
<1> QED
  BY <1>2, <1>3, <1>4, SumGrows

(* An order that has not completed has no batch. *)
LEMMA NoBatchYet ==
  ASSUME Balanced, NEW o \in Orders, status[o] # "completed"
  PROVE  output[o] = << >>
<1>1. Len(output[o]) = 0 /\ output[o] \in Seq(Batch)
  BY DEF Balanced, OneBatchPerOrder, Typed, TypeOK
<1> QED
  BY <1>1

(* Nothing has started in the beginning. *)
LEMMA InitBalanced == Init => Balanced
<1> SUFFICES ASSUME Init PROVE Balanced
  OBVIOUS
<1>1. Typed /\ ReadsHold /\ NothingHeldBefore /\ RecipeIsMet /\ OneBatchPerOrder
  BY InitTyped DEF Init, ReadsHold, Idle, NothingHeldBefore, RecipeIsMet, InProgress,
     OneBatchPerOrder
<1>2. HeldIsReserved
  <2>1. ASSUME NEW l \in Lots PROVE Total([o \in InProgress |-> held[o][l]]) = 0
    <3>1. InProgress = {}
      BY DEF Init, InProgress
    <3> QED
      BY <3>1, HeldSum, SumEmpty
  <2> QED
    <3>1. ASSUME NEW l \in Lots
          PROVE  stock[l].reserved = 0 /\ stock[l].quantity \in Nat
      BY ProductionAssumption DEF Init
    <3> QED
      BY <2>1, <3>1 DEF HeldIsReserved
<1>3. ConsumptionIsTraced
  <2>1. ASSUME NEW l \in Lots PROVE SumOver(UsedBy(output, l), Orders) = 0
    <3>1. \A o \in Orders : UsedBy(output, l)[o] = 0
      BY NoneUsed DEF Init, UsedBy
    <3> QED
      BY <3>1, SumOfZeros, ProductionAssumption
  <2> QED
    BY <2>1, UsedSum, ProductionAssumption DEF Init, ConsumptionIsTraced
<1> QED
  BY <1>1, <1>2, <1>3 DEF Balanced

(* Requests handled one at a time: the others are the one that steps. *)
LEMMA OnlyOne ==
  ASSUME OneAtATime, NEW c \in Clients
  PROVE  Clients = {c}
  BY DEF OneAtATime

(* A step that leaves the tables alone. *)
LEMMA ReadingBalanced ==
  ASSUME Balanced, Typed', ReadsHold', UNCHANGED <<stock, status, held, output>>
  PROVE  Balanced'
<1>1. /\ UNCHANGED InProgress
      /\ \A l \in Lots : UNCHANGED Total([o \in InProgress |-> held[o][l]])
  BY DEF InProgress
<1>2. HeldIsReserved'
  BY <1>1 DEF Balanced, HeldIsReserved
<1>3. ConsumptionIsTraced'
  BY DEF Balanced, ConsumptionIsTraced
<1>4. RecipeIsMet'
  BY <1>1 DEF Balanced, RecipeIsMet
<1>5. NothingHeldBefore' /\ OneBatchPerOrder'
  BY DEF Balanced, NothingHeldBefore, OneBatchPerOrder
<1> QED
  BY <1>2, <1>3, <1>4, <1>5 DEF Balanced

(* The ingredients of the new order come out of what is free. *)
LEMMA StartBalanced ==
  ASSUME OneAtATime, Balanced, Typed', NEW c \in Clients, startProduction(c)
  PROVE  Balanced'
<1> DEFINE o == req[c].order
           free == req[c].free
           take == Allocation(o, free)
<1>1. o \in Orders /\ free \in [Lots -> Nat]
  BY RequestFields DEF startProduction, Balanced, Typed
<1>2. /\ status[o] \in {"draft", "pending"} /\ held[o] = Nothing
      /\ \A l \in Lots : stock[l].status = "available" =>
           free[l] = Maximum(stock[l].quantity - stock[l].reserved, 0)
  BY <1>1 DEF startProduction, Balanced, ReadsHold, NothingHeldBefore
<1>3. /\ take \in [Lots -> Nat] /\ \A l \in Lots : take[l] <= free[l]
      /\ \A p \in Ingredients :
           Total([l \in LotsOf(p) |-> take[l]])
             = Minimum(Need(o, p), SumOver(free, LotsOf(p)))
  BY <1>1, AllocationServes
<1>4. /\ \A p \in Ingredients : Total([l \in LotsOf(p) |-> take[l]]) >= Need(o, p)
      /\ stock' = [l \in Lots |-> [stock[l] EXCEPT !.reserved = @ + take[l]]]
      /\ held' = [held EXCEPT ![o] = [l \in Lots |-> @[l] + take[l]]]
      /\ status' = [status EXCEPT ![o] = "in_progress"]
      /\ req' = [req EXCEPT ![c] = Idle]
      /\ UNCHANGED <<today, output>>
  BY DEF startProduction, Done
<1>5. Covers(o, take)
  <2>1. ASSUME NEW p \in Ingredients
        PROVE  Total([l \in LotsOf(p) |-> take[l]]) = Need(o, p)
    <3>1. Need(o, p) \in Nat /\ SumOver(free, LotsOf(p)) \in Nat
      <4>1. IsFiniteSet(LotsOf(p)) /\ Nats(free, LotsOf(p))
        BY <1>1, ProductionAssumption, FS_Subset DEF LotsOf, Nats
      <4> QED
        BY <1>1, <4>1, ProductionAssumption, SumGrows DEF Need
    <3> HIDE DEF o, free, take
    <3> QED
      BY <1>3, <1>4, <3>1 DEF Minimum
  <2> QED
    BY <2>1 DEF Covers
<1> HIDE DEF o, free, take
<1>6. held' = [held EXCEPT ![o] = take]
  <2>1. [l \in Lots |-> held[o][l] + take[l]] = take
    <3>1. \A l \in Lots : held[o][l] = 0 /\ take[l] \in Nat
      BY <1>2, <1>3 DEF Nothing
    <3> QED
      BY <1>3, <3>1
  <2> QED
    BY <1>1, <1>4, <2>1 DEF Balanced, Typed, TypeOK
<1>7. o \notin InProgress /\ InProgress' = InProgress \cup {o}
  BY <1>1, <1>2, <1>4 DEF InProgress, Balanced, Typed, TypeOK
<1>8. ReadsHold'
  BY <1>4, OnlyOne DEF ReadsHold, Idle, Balanced, Typed, TypeOK
<1>9. NothingHeldBefore'
  BY <1>1, <1>4, <1>6 DEF NothingHeldBefore, Balanced, Typed, TypeOK
<1>10. HeldIsReserved'
  <2>1. ASSUME NEW l \in Lots, stock'[l].status = "available"
        PROVE  /\ stock'[l].reserved = Total([q \in InProgress' |-> held'[q][l]])
               /\ stock'[l].reserved <= stock'[l].quantity
    <3>1. /\ stock[l].status = "available"
          /\ stock'[l].reserved = stock[l].reserved + take[l]
          /\ stock'[l].quantity = stock[l].quantity
          /\ stock[l].quantity \in Nat /\ stock[l].reserved \in Nat
      BY <1>4, <2>1 DEF Balanced, Typed, TypeOK
    <3>2. /\ stock[l].reserved = SumOver(HeldOf(held, l), InProgress)
          /\ stock[l].reserved <= stock[l].quantity
      BY <3>1, ReservedSum DEF Balanced
    <3>3. take[l] <= stock[l].quantity - stock[l].reserved
      BY <1>1, <1>2, <1>3, <3>1, <3>2 DEF Maximum
    <3>4. SumOver(HeldOf(held', l), InProgress')
            = take[l] + SumOver(HeldOf(held', l), InProgress)
      <4>1. held' \in [Orders -> [Lots -> Nat]]
        BY DEF Typed, TypeOK
      <4>2. InProgress \in SUBSET Orders /\ o \in Orders \ InProgress
        BY <1>1, <1>7 DEF InProgress
      <4>3. held'[o][l] = take[l]
        BY <1>1, <1>6 DEF Balanced, Typed, TypeOK
      <4>4. SumOver(HeldOf(held', l), InProgress \cup {o})
              = held'[o][l] + SumOver(HeldOf(held', l), InProgress)
        BY <4>1, <4>2, HeldParts
      <4> QED
        BY <1>7, <4>3, <4>4
    <3>5. SumOver(HeldOf(held', l), InProgress) = SumOver(HeldOf(held, l), InProgress)
      <4>1. \A q \in InProgress : HeldOf(held', l)[q] = HeldOf(held, l)[q]
        BY <1>6, <1>7 DEF HeldOf, InProgress, Balanced, Typed, TypeOK
      <4>2. IsFiniteSet(InProgress)
        BY HeldSum DEF InProgress
      <4> QED
        BY <4>1, <4>2, SumSame
    <3>6. Total([q \in InProgress' |-> held'[q][l]])
            = SumOver(HeldOf(held', l), InProgress')
      BY HeldSum DEF InProgress
    <3> QED
      BY <1>3, <3>1, <3>2, <3>3, <3>4, <3>5, <3>6
  <2> QED
    BY <2>1 DEF HeldIsReserved
<1>11. ConsumptionIsTraced'
  <2>1. \A l \in Lots : /\ stock'[l].status = stock[l].status
                        /\ stock'[l].quantity = stock[l].quantity
    BY <1>4 DEF Balanced, Typed, TypeOK
  <2> QED
    BY <1>4, <2>1 DEF Balanced, ConsumptionIsTraced
<1>12. RecipeIsMet'
  BY <1>1, <1>4, <1>5, <1>6, <1>7 DEF Balanced, RecipeIsMet, InProgress, Typed, TypeOK
<1>13. OneBatchPerOrder'
  BY <1>1, <1>2, <1>4 DEF Balanced, OneBatchPerOrder, Typed, TypeOK
<1> QED
  BY <1>8, <1>9, <1>10, <1>11, <1>12, <1>13 DEF Balanced

(* The ingredients of the completed order, exactly, are gone; its batch     *)
(* says so.                                                                *)
LEMMA CompletionBalanced ==
  ASSUME OneAtATime, Balanced, Typed', NEW c \in Clients, completeProduction(c)
  PROVE  Balanced'
<1> DEFINE o == req[c].order
           used == req[c].used
           e == calculateFinishedGoodExpiry(used)
<1>1. /\ o \in Orders /\ used \in [Lots -> Nat]
      /\ status[o] = "in_progress" /\ used = held[o]
  BY RequestFields DEF completeProduction, Balanced, Typed, ReadsHold
<1>2. PICK actual \in 1..(Planned[o] + Surplus) :
        output' = [output EXCEPT ![o] = Append(@,
          [made |-> today, expiry |-> e, quantity |-> actual, parents |-> used])]
  BY DEF completeProduction
<1>3. /\ stock' = [l \in Lots |-> decreaseStockAndReserved(stock[l], used[l])]
      /\ status' = [status EXCEPT ![o] = "completed"]
      /\ req' = [req EXCEPT ![c] = Idle]
      /\ UNCHANGED <<today, held>>
  BY DEF completeProduction, Done
<1> DEFINE b == [made |-> today, expiry |-> e, quantity |-> actual, parents |-> used]
<1>4. output[o] = << >> /\ output' = [output EXCEPT ![o] = <<b>>]
  <2>1. output[o] = << >>
    BY <1>1, NoBatchYet
  <2> HIDE DEF o, used, e
  <2>2. Append(<< >>, b) = <<b>>
    OBVIOUS
  <2> QED
    BY <1>2, <2>1, <2>2
<1>5. b.parents = used
  OBVIOUS
<1> HIDE DEF o, used, e, b
<1>6. o \in InProgress /\ InProgress' = InProgress \ {o}
  BY <1>1, <1>3 DEF InProgress, Balanced, Typed, TypeOK
<1>7. ASSUME NEW l \in Lots, stock'[l].status = "available"
      PROVE  /\ stock[l].status = "available"
             /\ stock[l].reserved = used[l] + SumOver(HeldOf(held, l), InProgress')
             /\ SumOver(HeldOf(held, l), InProgress') \in Nat
             /\ stock'[l].quantity = stock[l].quantity - used[l]
             /\ stock'[l].reserved = stock[l].reserved - used[l]
             /\ stock[l].reserved <= stock[l].quantity
             /\ stock[l].quantity \in Nat /\ used[l] \in Nat
  <2>1. /\ stock[l].status = "available"
        /\ stock[l].quantity \in Nat /\ stock[l].reserved \in Nat /\ used[l] \in Nat
        /\ stock'[l].quantity = Maximum(stock[l].quantity - used[l], 0)
        /\ stock'[l].reserved = Maximum(stock[l].reserved - used[l], 0)
    BY <1>1, <1>3, <1>7 DEF decreaseStockAndReserved, Balanced, Typed, TypeOK
  <2>2. /\ stock[l].reserved = SumOver(HeldOf(held, l), InProgress)
        /\ stock[l].reserved <= stock[l].quantity
    BY <2>1, ReservedSum DEF Balanced
  <2>3. /\ SumOver(HeldOf(held, l), InProgress)
             = held[o][l] + SumOver(HeldOf(held, l), InProgress \ {o})
        /\ SumOver(HeldOf(held, l), InProgress \ {o}) \in Nat
    BY <1>6, HeldParts DEF Balanced, Typed, TypeOK, InProgress
  <2> QED
    BY <1>1, <1>6, <2>1, <2>2, <2>3 DEF Maximum
<1>8. ReadsHold'
  BY <1>3, OnlyOne DEF ReadsHold, Idle, Balanced, Typed, TypeOK
<1>9. NothingHeldBefore'
  BY <1>1, <1>3 DEF NothingHeldBefore, Balanced, Typed, TypeOK
<1>10. HeldIsReserved'
  <2>1. ASSUME NEW l \in Lots, stock'[l].status = "available"
        PROVE  /\ stock'[l].reserved = Total([q \in InProgress' |-> held'[q][l]])
               /\ stock'[l].reserved <= stock'[l].quantity
    <3>1. Total([q \in InProgress' |-> held'[q][l]])
            = SumOver(HeldOf(held, l), InProgress')
      BY <1>3, HeldSum DEF InProgress
    <3> QED
      BY <1>7, <2>1, <3>1
  <2> QED
    BY <2>1 DEF HeldIsReserved
<1>11. ConsumptionIsTraced'
  <2>1. ASSUME NEW l \in Lots, stock'[l].status = "available"
        PROVE  Opening[l] - stock'[l].quantity
                 = SumOver(UsedBy(output', l), Orders)
    <3>1. Opening[l] - stock[l].quantity = SumOver(UsedBy(output, l), Orders)
      BY <1>7, <2>1, UsedSum DEF Balanced, ConsumptionIsTraced
    <3>2. UsedBy(output, l)[o] = 0 /\ UsedBy(output', l)[o] = used[l]
      <4>1. Used(<<b>>, l) = used[l]
        BY <1>1, <1>5, OneUsed
      <4> QED
        BY <1>1, <1>4, <4>1, NoneUsed DEF UsedBy, Balanced, Typed, TypeOK
    <3>3. \A q \in Orders \ {o} : UsedBy(output', l)[q] = UsedBy(output, l)[q]
      BY <1>4 DEF UsedBy, Balanced, Typed, TypeOK
    <3>4. Ints(UsedBy(output, l), Orders) /\ Ints(UsedBy(output', l), Orders)
      BY <2>1, <3>2, <3>3, UsedType, <1>7 DEF Ints, Balanced, Typed
    <3>5. SumOver(UsedBy(output', l), Orders)
            = SumOver(UsedBy(output, l), Orders) + used[l] - 0
      BY <1>1, <3>2, <3>3, <3>4, ProductionAssumption, SumChange
    <3>6. SumOver(UsedBy(output, l), Orders) \in Int
      BY <3>4, ProductionAssumption, SumType
    <3> QED
      BY <1>7, <2>1, <3>1, <3>5, <3>6, ProductionAssumption
  <2> QED
    BY <2>1, UsedSum DEF ConsumptionIsTraced
<1>12. RecipeIsMet'
  <2>1. Covers(o, used)
    BY <1>1, <1>6 DEF Balanced, RecipeIsMet
  <2>2. \A q \in InProgress' : Covers(q, held'[q])
    BY <1>3, <1>6 DEF Balanced, RecipeIsMet
  <2>3. ASSUME NEW q \in Orders, NEW k \in DOMAIN output'[q]
        PROVE  Covers(q, output'[q][k].parents)
    <3>1. CASE q = o
      BY <1>1, <1>4, <1>5, <2>1, <2>3, <3>1 DEF Balanced, Typed, TypeOK
    <3>2. CASE q # o
      BY <1>4, <2>3, <3>2 DEF Balanced, Typed, TypeOK, RecipeIsMet
    <3> QED
      BY <3>1, <3>2
  <2> QED
    BY <2>2, <2>3 DEF RecipeIsMet, Covers
<1>13. OneBatchPerOrder'
  BY <1>1, <1>3, <1>4 DEF Balanced, OneBatchPerOrder, Typed, TypeOK
<1> QED
  BY <1>8, <1>9, <1>10, <1>11, <1>12, <1>13 DEF Balanced

(* Expiry and waste: the lots they touch are not available any more. *)
LEMMA LossBalanced ==
  ASSUME Balanced, Typed', UNCHANGED <<status, held, output, req>>,
         \A l \in Lots : stock'[l] = stock[l] \/ stock'[l].status # "available"
  PROVE  Balanced'
<1>1. /\ UNCHANGED InProgress
      /\ \A l \in Lots : UNCHANGED Total([o \in InProgress |-> held[o][l]])
  BY DEF InProgress
<1>2. HeldIsReserved'
  BY <1>1 DEF Balanced, HeldIsReserved
<1>3. ConsumptionIsTraced'
  BY DEF Balanced, ConsumptionIsTraced
<1>4. ReadsHold'
  BY DEF Balanced, ReadsHold
<1>5. RecipeIsMet'
  BY <1>1 DEF Balanced, RecipeIsMet
<1>6. NothingHeldBefore' /\ OneBatchPerOrder'
  BY DEF Balanced, NothingHeldBefore, OneBatchPerOrder
<1> QED
  BY <1>2, <1>3, <1>4, <1>5, <1>6 DEF Balanced

(* Every step keeps the books, requests handled one at a time. *)
LEMMA NextBalanced ==
  ASSUME OneAtATime
  PROVE  Balanced /\ [Next]_vars => Balanced'
<1> SUFFICES ASSUME Balanced, [Next]_vars PROVE Balanced'
  OBVIOUS
<1>1. Typed /\ Typed'
  BY NextTyped DEF Balanced
<1>2. ASSUME NEW o \in Orders, createOrder(o) PROVE Balanced'
  <2>1. /\ UNCHANGED <<today, stock, held, output, req>>
        /\ status' \in [Orders -> Statuses]
        /\ \A q \in Orders : \/ status'[q] = status[q]
                             \/ status[q] = "none" /\ status'[q] \in {"draft", "pending"}
    BY <1>1, <1>2 DEF createOrder, Typed, TypeOK
  <2>2. UNCHANGED InProgress
    BY <2>1 DEF InProgress
  <2>3. \A l \in Lots : UNCHANGED Total([q \in InProgress |-> held[q][l]])
    BY <2>1, <2>2
  <2>4. HeldIsReserved' /\ ConsumptionIsTraced' /\ RecipeIsMet'
    <3>1. HeldIsReserved'
      BY <2>1, <2>2, <2>3 DEF Balanced, HeldIsReserved
    <3>2. ConsumptionIsTraced'
      BY <2>1 DEF Balanced, ConsumptionIsTraced
    <3>3. RecipeIsMet'
      BY <2>1, <2>2 DEF Balanced, RecipeIsMet
    <3> QED
      BY <3>1, <3>2, <3>3
  <2>5. ReadsHold'
    <3>1. \A d \in Clients : req[d].kind \in {"start", "reserve", "complete"}
            => req[d].order \in Orders
      BY <1>1, RequestFields DEF Typed
    <3> QED
      BY <2>1, <3>1 DEF Balanced, ReadsHold
  <2>6. NothingHeldBefore' /\ OneBatchPerOrder'
    BY <2>1 DEF Balanced, NothingHeldBefore, OneBatchPerOrder
  <2> QED
    BY <1>1, <2>4, <2>5, <2>6 DEF Balanced
<1>3. ASSUME NEW c \in Clients, ArriveStart(c) PROVE Balanced'
  <2>1. ReadsHold'
    BY <1>1, <1>3, OnlyOne DEF ArriveStart, ReadsHold, Typed
  <2> QED
    BY <1>1, <1>3, <2>1, ReadingBalanced DEF ArriveStart
<1>4. ASSUME NEW c \in Clients, listAvailableInventoryFefo(c) PROVE Balanced'
  <2>1. ReadsHold'
    BY <1>1, <1>4, OnlyOne DEF listAvailableInventoryFefo, ReadsHold, Balanced, Typed
  <2> QED
    BY <1>1, <1>4, <2>1, ReadingBalanced DEF listAvailableInventoryFefo
<1>5. ASSUME NEW c \in Clients, startProduction(c) PROVE Balanced'
  BY <1>1, <1>5, StartBalanced
<1>6. ASSUME NEW c \in Clients, ArriveComplete(c) PROVE Balanced'
  <2>1. ReadsHold'
    BY <1>1, <1>6, OnlyOne DEF ArriveComplete, ReadsHold, Typed
  <2> QED
    BY <1>1, <1>6, <2>1, ReadingBalanced DEF ArriveComplete
<1>7. ASSUME NEW c \in Clients, completeProduction(c) PROVE Balanced'
  BY <1>1, <1>7, CompletionBalanced
<1>8. ASSUME NEW c \in Clients, Fail(c) PROVE Balanced'
  <2>1. ReadsHold'
    BY <1>1, <1>8, OnlyOne DEF Fail, Done, Idle, ReadsHold, Typed
  <2> QED
    BY <1>1, <1>8, <2>1, ReadingBalanced DEF Fail
<1>9. ASSUME cronExpireBatches PROVE Balanced'
  <2>1. \A l \in Lots : stock'[l] = stock[l] \/ stock'[l].status # "available"
    BY <1>1, <1>9 DEF cronExpireBatches, Typed, TypeOK
  <2> QED
    BY <1>1, <1>9, <2>1, LossBalanced DEF cronExpireBatches
<1>10. ASSUME NEW l \in Lots, reportWaste(l) PROVE Balanced'
  <2>1. \A m \in Lots : stock'[m] = stock[m] \/ stock'[m].status # "available"
    BY <1>1, <1>10 DEF reportWaste, Typed, TypeOK
  <2> QED
    BY <1>1, <1>10, <2>1, LossBalanced DEF reportWaste
<1>11. CASE UNCHANGED vars
  <2>1. \A l \in Lots : stock'[l] = stock[l] \/ stock'[l].status # "available"
    BY <1>11 DEF vars
  <2> QED
    BY <1>1, <1>11, <2>1, LossBalanced DEF vars
<1> QED
  BY <1>2, <1>3, <1>4, <1>5, <1>6, <1>7, <1>8, <1>9, <1>10, <1>11 DEF Next

(* The books balance in every reachable state, requests handled one at a   *)
(* time.                                                                   *)
LEMMA BooksBalance ==
  ASSUME OneAtATime
  PROVE  Spec => []Balanced
  BY InitBalanced, NextBalanced, PTL DEF Spec

(* The ingredients of the orders in progress, and nothing else, are        *)
(* reserved and there, if no two requests overlap.                         *)
THEOREM IngredientsReserved ==
  ASSUME OneAtATime
  PROVE  Spec => []HeldIsReserved
<1>1. Balanced => HeldIsReserved
  BY DEF Balanced
<1> QED
  BY <1>1, BooksBalance, PTL

(* What has gone of a lot is in the lineage of the finished batches, if no *)
(* two requests overlap.                                                   *)
THEOREM ConsumptionTraced ==
  ASSUME OneAtATime
  PROVE  Spec => []ConsumptionIsTraced
<1>1. Balanced => ConsumptionIsTraced
  BY DEF Balanced
<1> QED
  BY <1>1, BooksBalance, PTL

(* A started order holds what the recipe asks for and a batch is made of   *)
(* it, if no two requests overlap.                                         *)
THEOREM RecipeMet ==
  ASSUME OneAtATime
  PROVE  Spec => []RecipeIsMet
<1>1. Balanced => RecipeIsMet
  BY DEF Balanced
<1> QED
  BY <1>1, BooksBalance, PTL

(* A completed order has yielded one batch, if no two requests overlap. *)
THEOREM OneBatch ==
  ASSUME OneAtATime
  PROVE  Spec => []OneBatchPerOrder
<1>1. Balanced => OneBatchPerOrder
  BY DEF Balanced
<1> QED
  BY <1>1, BooksBalance, PTL

(* Only a start of production takes of a lot, and of a later one only when *)
(* the earlier ones have nothing else to give.                             *)
LEMMA StartTakesEarliest ==
  ASSUME Balanced, NEW c \in Clients, startProduction(c), NEW o \in Orders,
         NEW l \in Lots, held'[o][l] > held[o][l], NEW m \in SoonerThan(l),
         stock[m].status = "available"
  PROVE  stock'[m].quantity <= stock'[m].reserved
<1> DEFINE p == req[c].order
           free == req[c].free
           take == Allocation(p, free)
<1>1. p \in Orders /\ free \in [Lots -> Nat] /\ m \in Lots
  BY RequestFields DEF startProduction, Balanced, Typed, SoonerThan, LotsOf
<1>2. /\ take \in [Lots -> Nat]
      /\ \A x \in Lots : take[x] > 0 => \A y \in SoonerThan(x) : take[y] = free[y]
  BY <1>1, AllocationServes
<1>3. free[m] = Maximum(stock[m].quantity - stock[m].reserved, 0)
  BY <1>1 DEF startProduction, Balanced, ReadsHold
<1>4. /\ stock' = [x \in Lots |-> [stock[x] EXCEPT !.reserved = @ + take[x]]]
      /\ held' = [held EXCEPT ![p] = [x \in Lots |-> @[x] + take[x]]]
  BY DEF startProduction
<1> HIDE DEF p, free, take
<1>5. o = p /\ take[l] > 0
  <2>1. held \in [Orders -> [Lots -> Nat]]
    BY DEF Balanced, Typed, TypeOK
  <2>2. o # p => held'[o] = held[o]
    BY <1>1, <1>4, <2>1
  <2>3. o = p => held'[o][l] = held[o][l] + take[l]
    BY <1>1, <1>4, <2>1
  <2>4. held[o][l] \in Nat /\ take[l] \in Nat
    BY <1>2, <2>1
  <2> QED
    BY <2>2, <2>3, <2>4
<1>6. take[m] = free[m]
  BY <1>2, <1>5
<1>7. /\ stock[m].quantity \in Nat /\ stock[m].reserved \in Nat
      /\ stock'[m].quantity = stock[m].quantity
      /\ stock'[m].reserved = stock[m].reserved + take[m]
  BY <1>1, <1>4 DEF Balanced, Typed, TypeOK
<1> QED
  BY <1>3, <1>6, <1>7 DEF Maximum

(* First expired, first out, if no two requests overlap. *)
THEOREM EarliestLotsFirst ==
  ASSUME OneAtATime
  PROVE  Spec => FirstExpiredFirstOut
<1> DEFINE A == \A o \in Orders : \A l \in Lots : held'[o][l] > held[o][l] =>
                  \A m \in SoonerThan(l) : stock[m].status = "available"
                    => stock'[m].quantity <= stock'[m].reserved
<1>1. Balanced /\ [Next]_vars => [A]_vars
  <2> SUFFICES ASSUME Balanced, [Next]_vars PROVE [A]_vars
    OBVIOUS
  <2>1. ASSUME NEW c \in Clients, startProduction(c) PROVE A
    BY <2>1, StartTakesEarliest
  <2>2. ASSUME UNCHANGED held PROVE A
    <3>1. \A o \in Orders : \A l \in Lots : held[o][l] \in Nat
      BY DEF Balanced, Typed, TypeOK
    <3> QED
      BY <2>2, <3>1
  <2> HIDE DEF A
  <2> QED
    BY <2>1, <2>2 DEF Next, vars, createOrder, ArriveStart, listAvailableInventoryFefo,
       ArriveComplete, completeProduction, Fail, cronExpireBatches, reportWaste
<1>2. Spec => [][A]_vars
  BY <1>1, BooksBalance, PTL DEF Spec
<1> QED
  BY <1>2 DEF FirstExpiredFirstOut
=============================================================================
