--------------------------- MODULE ProductionService ---------------------------
(***************************************************************************)
(* The kitchen's production orders: the ingredients of an order are        *)
(* reserved first expired first out when production starts, and consumed   *)
(* when it completes, by a new batch of finished goods that records which   *)
(* lots it was made of.                                                    *)
(*                                                                         *)
(* startProduction and completeProduction read with plain SELECTs, so each *)
(* is a request that reads and, later, a transaction that writes.  The     *)
(* nightly expiry and waste reports write the same inventory rows.         *)
(***************************************************************************)
EXTENDS Quantities, Sequences, FiniteSets, FiniteSetsExt

CONSTANTS
  Clients,      \* requests the server handles at the same time
  Orders,       \* identifiers of the production orders
  Planned,      \* the planned quantity of each order
  Ingredients,  \* the raw materials of the recipe
  PerOutput,    \* the quantity of each raw material per unit of output
  ShelfLife,    \* shelf life of the finished good, in days
  Lots,         \* batches of raw material
  ProductOf, ExpiryOf, Opening,
  Surplus,      \* bound: units an order may yield beyond its plan
  Horizon       \* bound: the last day of an instance

ASSUME ProductionAssumption ==
  /\ IsFiniteSet(Orders) /\ IsFiniteSet(Lots)
  /\ Planned \in [Orders -> Nat \ {0}]
  /\ PerOutput \in [Ingredients -> Nat \ {0}]
  /\ ProductOf \in [Lots -> Ingredients]
  /\ ExpiryOf \in [Lots -> Nat]
  /\ Opening \in [Lots -> Nat]
  /\ ShelfLife \in Nat /\ Surplus \in Nat /\ Horizon \in Nat
  \* ORDER BY expiry_date leaves ties open; the instances have none.
  /\ \A l, m \in Lots :
       l # m /\ ProductOf[l] = ProductOf[m] => ExpiryOf[l] # ExpiryOf[m]

VARIABLES
  today,
  stock,   \* inventory row and batch status of each lot
  status,  \* of each production order
  held,    \* production_reservations: per order, the quantity of each lot
  output,  \* the finished batches of each order, with their lineage
  req      \* per client: the request in flight and what it has read

vars == <<today, stock, status, held, output, req>>

Statuses == {"none", "draft", "pending", "in_progress", "completed"}

Need(o, p) == PerOutput[p] * Planned[o]

LotsOf(p) == {l \in Lots : ProductOf[l] = p}
SoonerThan(l) == {m \in LotsOf(ProductOf[l]) : ExpiryOf[m] < ExpiryOf[l]}

Nothing == [l \in Lots |-> 0]
Idle == [kind |-> "idle"]
Done(c) == req' = [req EXCEPT ![c] = Idle]

Init ==
  /\ today = 0
  /\ stock = [l \in Lots |-> [quantity |-> Opening[l], reserved |-> 0,
                              status |-> "available"]]
  /\ status = [o \in Orders |-> "none"]
  /\ held = [o \in Orders |-> Nothing]
  /\ output = [o \in Orders |-> << >>]
  /\ req = [c \in Clients |-> Idle]

(* createOrder: pending when a store's order asks for it, else a draft. *)
createOrder(o) ==
  /\ status[o] = "none"
  /\ \E s \in {"draft", "pending"} : status' = [status EXCEPT ![o] = s]
  /\ UNCHANGED <<today, stock, held, output, req>>

-----------------------------------------------------------------------------
(* Start of production.                                                    *)

ArriveStart(c) ==
  \E o \in Orders :
    /\ req[c] = Idle
    /\ status[o] \in {"draft", "pending"}
    /\ req' = [req EXCEPT ![c] = [kind |-> "start", order |-> o]]
    /\ UNCHANGED <<today, stock, status, held, output>>

(* listAvailableInventoryFefo, without a lock. *)
listAvailableInventoryFefo(c) ==
  /\ req[c].kind = "start"
  /\ req' = [req EXCEPT ![c] =
       [kind |-> "reserve", order |-> req[c].order, day |-> today,
        free |-> [l \in Lots |->
                    Maximum(stock[l].quantity - stock[l].reserved, 0)]]]
  /\ UNCHANGED <<today, stock, status, held, output>>

(* Mutant: a lot is taken as a whole. *)
Allocation_WholeLots(o, free) ==
  [l \in Lots |->
     LET before == Total([m \in SoonerThan(l) |-> free[m]])
     IN IF Need(o, ProductOf[l]) > before THEN free[l] ELSE 0]

(* Mutant: ORDER BY expiry_date DESC. *)
Allocation_LatestFirst(o, free) ==
  [l \in Lots |->
     LET before == Total([m \in LotsOf(ProductOf[l]) \ (SoonerThan(l) \cup {l})
                            |-> free[m]])
     IN Minimum(free[l], Maximum(Need(o, ProductOf[l]) - before, 0))]

(* What the loop over the lots takes of each, first expired first. *)
Allocation(o, free) ==
  [l \in Lots |->
     LET before == Total([m \in SoonerThan(l) |-> free[m]])
     IN Minimum(free[l], Maximum(Need(o, ProductOf[l]) - before, 0))]

(* startProduction: all the ingredients or none; it throws on the first lot *)
(* it would take that has passed its expiry day, whatever its status.      *)
startProduction(c) ==
  LET o == req[c].order
      take == Allocation(o, req[c].free)
  IN /\ req[c].kind = "reserve"
     /\ \A l \in Lots : take[l] > 0 => ExpiryOf[l] >= req[c].day
     /\ \A p \in Ingredients : Total([l \in LotsOf(p) |-> take[l]]) >= Need(o, p)
     /\ stock' = [l \in Lots |-> [stock[l] EXCEPT !.reserved = @ + take[l]]]
     /\ held' = [held EXCEPT ![o] = [l \in Lots |-> @[l] + take[l]]]
     /\ status' = [status EXCEPT ![o] = "in_progress"]
     /\ Done(c)
     /\ UNCHANGED <<today, output>>

-----------------------------------------------------------------------------
(* Completion.                                                             *)

(* findOrderById reads the status and the reservations. *)
ArriveComplete(c) ==
  \E o \in Orders :
    /\ req[c] = Idle
    /\ status[o] = "in_progress"
    /\ req' = [req EXCEPT ![c] = [kind |-> "complete", order |-> o, used |-> held[o]]]
    /\ UNCHANGED <<today, stock, status, held, output>>

Parents(used) == {l \in Lots : used[l] > 0}

(* Mutant: the shelf life alone decides. *)
calculateFinishedGoodExpiry_ShelfOnly(used) == today + ShelfLife

(* calculateFinishedGoodExpiry: within the shelf life, and not after any    *)
(* ingredient.                                                             *)
calculateFinishedGoodExpiry(used) ==
  Min({today + ShelfLife} \cup {ExpiryOf[l] : l \in Parents(used)})

(* Mutant: GREATEST(..., 0) is dropped. *)
decreaseStockAndReserved_NoClamp(row, n) ==
  [row EXCEPT !.quantity = @ - n, !.reserved = @ - n]

(* Mutant: the reservation is given back, the stock stays. *)
decreaseStockAndReserved_KeepStock(row, n) ==
  [row EXCEPT !.reserved = Maximum(@ - n, 0)]

(* Mutant: the reservations of the order stay. *)
decreaseStockAndReserved_KeepReserved(row, n) ==
  [row EXCEPT !.quantity = Maximum(@ - n, 0)]

(* decreaseStockAndReserved: both clamped at zero. *)
decreaseStockAndReserved(row, n) ==
  [row EXCEPT !.quantity = Maximum(@ - n, 0), !.reserved = Maximum(@ - n, 0)]

(* Mutant: the order stays open for another completion. *)
completeProduction_StaysOpen(c) ==
  LET o == req[c].order
      used == req[c].used
  IN /\ req[c].kind = "complete"
     /\ \E actual \in 1..(Planned[o] + Surplus) :
          output' = [output EXCEPT ![o] = Append(@,
                       [made |-> today, expiry |-> calculateFinishedGoodExpiry(used),
                        quantity |-> actual, parents |-> used])]
     /\ stock' = [l \in Lots |-> decreaseStockAndReserved(stock[l], used[l])]
     /\ Len(output[o]) < 2   \* bound
     /\ Done(c)
     /\ UNCHANGED <<today, held, status>>

(* completeProduction: the ingredients are consumed, the batch is made.     *)
completeProduction(c) ==
  LET o == req[c].order
      used == req[c].used
  IN /\ req[c].kind = "complete"
     /\ \E actual \in 1..(Planned[o] + Surplus) :
          output' = [output EXCEPT ![o] = Append(@,
                       [made |-> today, expiry |-> calculateFinishedGoodExpiry(used),
                        quantity |-> actual, parents |-> used])]
     /\ stock' = [l \in Lots |-> decreaseStockAndReserved(stock[l], used[l])]
     /\ status' = [status EXCEPT ![o] = "completed"]
     /\ Done(c)
     /\ UNCHANGED <<today, held>>

-----------------------------------------------------------------------------
(* An exception: the transaction is rolled back. *)
Fail(c) ==
  /\ req[c] # Idle
  /\ Done(c)
  /\ UNCHANGED <<today, stock, status, held, output>>

(* runAutoExpireExpiredBatches, at 00:01 of the next day. *)
cronExpireBatches ==
  /\ today < Horizon
  /\ today' = today + 1
  /\ stock' = [l \in Lots |->
       IF ExpiryOf[l] <= today' /\ stock[l].status \notin {"expired", "damaged"}
       THEN [stock[l] EXCEPT !.reserved = 0, !.status = "expired"]
       ELSE stock[l]]
  /\ UNCHANGED <<status, held, output, req>>

(* reportWaste: a whole lot is destroyed, whoever has reserved it. *)
reportWaste(l) ==
  /\ stock[l].quantity > 0
  /\ stock' = [stock EXCEPT ![l] =
                 [quantity |-> 0, reserved |-> 0, status |-> "damaged"]]
  /\ UNCHANGED <<today, status, held, output, req>>

Next ==
  \/ \E o \in Orders : createOrder(o)
  \/ \E c \in Clients :
       \/ ArriveStart(c) \/ listAvailableInventoryFefo(c) \/ startProduction(c)
       \/ ArriveComplete(c) \/ completeProduction(c)
       \/ Fail(c)
  \/ cronExpireBatches
  \/ \E l \in Lots : reportWaste(l)

Spec == Init /\ [][Next]_vars

-----------------------------------------------------------------------------
(* Properties.                                                             *)

(* Every variable has its type. *)
Batch == [made : 0..Horizon, expiry : Nat, quantity : Nat \ {0},
          parents : [Lots -> Nat]]

TypeOK ==
  /\ today \in 0..Horizon
  /\ stock \in [Lots -> [quantity : Nat, reserved : Nat,
                         status : {"available", "expired", "damaged"}]]
  /\ status \in [Orders -> Statuses]
  /\ held \in [Orders -> [Lots -> Nat]]
  /\ output \in [Orders -> Seq(Batch)]
  /\ DOMAIN req = Clients

InProgress == {o \in Orders : status[o] = "in_progress"}
Made == UNION {Range(output[o]) : o \in Orders}

(* The ingredients of the orders in progress, and nothing else, are         *)
(* reserved, and are there: starting one order never takes what another    *)
(* holds, and completing it never gives back more than its own.            *)
HeldIsReserved ==
  \A l \in Lots : stock[l].status = "available" =>
    /\ stock[l].reserved = Total([o \in InProgress |-> held[o][l]])
    /\ stock[l].reserved <= stock[l].quantity

(* Traceability: what has gone of a lot is what the lineage of the finished *)
(* batches says was made of it.                                            *)
ConsumptionIsTraced ==
  \A l \in Lots : stock[l].status = "available" =>
    Opening[l] - stock[l].quantity =
      Total([o \in Orders |->
        Total([k \in DOMAIN output[o] |-> output[o][k].parents[l]])])

(* A started order holds exactly what the recipe asks for, and a finished   *)
(* batch is made of exactly that.                                          *)
Covers(o, lots) ==
  \A p \in Ingredients : Total([l \in LotsOf(p) |-> lots[l]]) = Need(o, p)

RecipeIsMet ==
  /\ \A o \in InProgress : Covers(o, held[o])
  /\ \A o \in Orders : \A k \in DOMAIN output[o] : Covers(o, output[o][k].parents)

(* A completed order has yielded one batch, any other order none. *)
OneBatchPerOrder ==
  \A o \in Orders : Len(output[o]) = IF status[o] = "completed" THEN 1 ELSE 0

(* Finished goods never outlive an ingredient they were made of. *)
NeverOutlivesIngredients ==
  \A b \in Made : \A l \in Parents(b.parents) : b.expiry <= ExpiryOf[l]

(* First expired, first out: an order takes of a lot only if the lots of    *)
(* the ingredient that expire before it had nothing else to give.          *)
FirstExpiredFirstOut ==
  [][\A o \in Orders : \A l \in Lots : held'[o][l] > held[o][l] =>
       \A m \in SoonerThan(l) : stock[m].status = "available"
         => stock'[m].quantity <= stock'[m].reserved]_vars

(* A lot that the nightly job has expired is not reserved any more. *)
ExpiredLotsStayUnused ==
  [][\A l \in Lots : stock[l].status = "expired"
       => stock'[l].reserved <= stock[l].reserved]_vars
=============================================================================
