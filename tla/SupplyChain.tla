----------------------------- MODULE SupplyChain -----------------------------
(***************************************************************************)
(* The order, warehouse and claim services on their shared tables: the     *)
(* life of an order from the store's request to its receipt and claims.    *)
(***************************************************************************)
EXTENDS OrderService, WarehouseService, ClaimService

Init ==
  /\ today = 0
  /\ stock = [b \in Batches |-> [quantity |-> Opening[b], reserved |-> 0,
                                 status |-> "available"]]
  /\ log = [o \in Orders |-> Nothing]
  /\ order = [o \in {} |-> o]
  /\ shipment = << >>
  /\ manifest = [m \in {} |-> m]
  /\ storeStock = [s \in DOMAIN RouteOf |-> Nothing]
  /\ claim = << >>
  /\ inquiries = 0
  /\ req = [c \in Clients |-> Idle]

(* An exception: nothing the request did remains. *)
Fail(c) ==
  /\ req[c] # Idle
  /\ Done(c)
  /\ UNCHANGED <<today, stock, log, order, shipment, manifest, storeStock, claim, inquiries>>

OrderRequest(c) ==
  \/ ArriveApprove(c) \/ approveOrder(c)
  \/ ArriveConfirm(c) \/ kitchenProductionConfirm(c)
  \/ ArriveReject(c) \/ rejectOrder(c)
  \/ ArriveCancel(c) \/ cancelOrder(c)
  \/ ArriveForceCancel(c) \/ forceCancelOrder(c)
  \/ ArriveInquiry(c) \/ sendCoordinationInquiry(c)
  \/ ArriveBatchApprove(c) \/ batchApproveByAllocation(c)
  \/ ArriveReceive(c) \/ receiveShipment(c)

WarehouseRequest(c) ==
  \/ ArriveCancelTask(c) \/ cancelPickingTask(c)
  \/ ArriveFinalize(c) \/ finalizeBulkShipment(c)
  \/ ArriveManifest(c) \/ createManifest(c)
  \/ ArriveConsolidate(c) \/ consolidateManifestOrders(c)
  \/ ArriveIssue(c) \/ reportManifestBatchIssue(c)
  \/ ArriveCancelManifest(c) \/ cancelManifest(c)
  \/ ArriveDeparture(c) \/ confirmManifestDeparture(c)

ClaimRequest(c) ==
  \/ ArriveClaim(c) \/ createManualClaim(c)
  \/ ArriveResolve(c) \/ resolveClaim(c)

Next ==
  \/ \E o \in Orders : createOrder(o)
  \/ \E c \in Clients : OrderRequest(c) \/ WarehouseRequest(c) \/ ClaimRequest(c)
                         \/ Fail(c)
  \/ \E i \in DOMAIN shipment : \E k \in DOMAIN shipment[i].items :
       verifyManifestItem(i, k)
  \/ cronExpireBatches

Spec == Init /\ [][Next]_vars

-----------------------------------------------------------------------------
(* Properties.                                                             *)

(* Every variable has its type. *)
TypeOK ==
  /\ today \in 0..Horizon
  /\ stock \in [Batches -> StockRow]
  /\ log \in [Orders -> [Batches -> Nat]]
  /\ Placed \subseteq Orders
  /\ \A o \in Placed :
       order[o] \in OrderRow
  /\ \A i \in DOMAIN shipment :
       /\ shipment[i] \in ShipmentRow
       /\ shipment[i].linked \cup {shipment[i].order} \subseteq Placed
       /\ shipment[i].manifest \in DOMAIN manifest \cup {None}
  /\ DOMAIN manifest \subseteq Manifests
  /\ \A m \in DOMAIN manifest : manifest[m] \in ManifestStatus
  /\ storeStock \in [DOMAIN RouteOf -> [Batches -> Int]]
  /\ claim \in Seq(ClaimRow)
  /\ \A k \in DOMAIN claim : claim[k].shipment \in DOMAIN shipment
  /\ inquiries \in Nat
  /\ DOMAIN req = Clients

Live(i) == shipment[i].status \in {"preparing", "consolidated"}
LiveShipments == {i \in DOMAIN shipment : Live(i)}

(* Until the truck leaves, the goods of a shipment stay reserved: whatever  *)
(* was released, exported or cancelled for other orders, a batch reserves   *)
(* at least what the shipments being prepared hold of it.  A batch that     *)
(* expires loses its reservations, but not under a shipment still in time.  *)
PromisedIsReserved ==
  LET inTime == {i \in LiveShipments : DeliveryOf[shipment[i].order] >= today}
  IN \A b \in Batches :
       /\ GoodsOf(inTime)[b] > 0 => GoodsOf(inTime)[b] <= stock[b].reserved
       /\ stock[b].status # "expired"
            => GoodsOf(LiveShipments)[b] <= stock[b].reserved

(* ... and nothing else is: no reservation outlives the shipment it was     *)
(* made for (a leak would make stock unsellable for ever).                 *)
ReservedIsPromised ==
  \A b \in Batches :
    stock[b].reserved <= GoodsOf(LiveShipments)[b]

(* An order, the shipment made for it and the goods move together: approved *)
(* or picking while the shipment is prepared, delivering while it is on the *)
(* road, claimed when there is a claim on what was received and completed   *)
(* when there is none, cancelled together.                                 *)
Claimed(i) == \E k \in DOMAIN claim : claim[k].shipment = i

Follows(orderStatus, i) ==
  CASE Live(i) -> orderStatus \in {"approved", "picking"}
    [] shipment[i].status = "in_transit" -> orderStatus = "delivering"
    [] shipment[i].status = "completed" ->
         orderStatus = IF Claimed(i) THEN "claimed" ELSE "completed"
    [] shipment[i].status = "cancelled" -> orderStatus = "cancelled"

OrderFollowsShipment ==
  \A i \in DOMAIN shipment : \A o \in shipment[i].linked :
    Follows(order[o].status, i)

(* Rejected, cancelled, completed and claimed orders never come back; only  *)
(* a claim may still follow a completed one.                               *)
Closed == {"rejected", "cancelled", "completed", "claimed"}

ClosedOrdersStayClosed ==
  [][\A o \in Placed : order[o].status \in Closed =>
       \/ order'[o].status = order[o].status
       \/ order[o].status = "completed" /\ order'[o].status = "claimed"]_vars

(* The safety window: no order is sent goods that expire before it is       *)
(* delivered, travel and the buffer of two hours included.                 *)
FreshAtDelivery ==
  \A i \in DOMAIN shipment :
    shipment[i].status # "cancelled" =>
      \A k \in DOMAIN shipment[i].items : \A o \in shipment[i].linked :
        ExpiryOf[shipment[i].items[k].batch] > DeliveryOf[o] + Margin[o]

(* A shipment never carries more of a product than the orders on it asked   *)
(* for: an approval gives what was requested or less.                      *)
NeverMoreThanRequested ==
  \A i \in LiveShipments : \A p \in Products :
    Total([b \in {b \in Batches : ProductOf[b] = p} |-> Goods(shipment[i].items)[b]])
      <= Total([o \in shipment[i].linked |-> Requested[o][p]])

(* The physical stock of the kitchen falls by what the trucks have taken    *)
(* and by nothing else, and no shipment is taken twice.                    *)
PhysicalFollowsTrucks ==
  LET gone == GoodsOf({i \in DOMAIN shipment : shipment[i].shipped})
  IN \A b \in Batches : stock[b].quantity = Opening[b] - gone[b]

(* Every row on a truck that has departed was scanned, and what is recorded *)
(* on its manifest has left: nothing joins or changes a load on the road.   *)
NothingLeavesUnscanned ==
  \A m \in DOMAIN manifest : manifest[m] = "departed" =>
    \A i \in OnManifest(m) :
      shipment[i].shipped /\ \A k \in DOMAIN shipment[i].items :
                               shipment[i].items[k].picked

(* Each unit a truck has brought to a store is in its stock or in one of    *)
(* its claims, and no claim takes what is not there.  It is in one of them  *)
(* only, unless the store has received a shipment with two rows of one      *)
(* batch: each of these is credited what was reported of the batch.         *)
Arrived(s) == {i \in DOMAIN shipment : shipment[i].status = "completed"
                                       /\ StoreOfShipment(i) = s}
OneRowPerBatch(i) ==
  \A b \in Batches : \A j, k \in RowsOf(shipment[i].items, b) : j = k

(* The units of a product in the stock of the store and in its claims.      *)
Accounted(s, p) ==
  LET claims == {k \in DOMAIN claim : StoreOfShipment(claim[k].shipment) = s}
  IN PerProduct(storeStock[s])[p] + Total([k \in claims |-> claim[k].items[p]])

EveryUnitIsAccounted ==
  \A s \in DOMAIN RouteOf :
    /\ \A b \in Batches : storeStock[s][b] >= 0
    /\ \A p \in Products :
         LET brought == PerProduct(GoodsOf(Arrived(s)))[p]
         IN /\ Accounted(s, p) >= brought
            /\ (\A i \in Arrived(s) : OneRowPerBatch(i)) => Accounted(s, p) = brought

(* What the documents of a receipt say: the store gets what has come and is *)
(* good, the rest is claimed (bussiness-rule.md).  They know of no exception *)
(* for two lines of one product.                                           *)
NoUnitIsCreditedTwice ==
  \A s \in DOMAIN RouteOf, p \in Products :
    Accounted(s, p) <= PerProduct(GoodsOf(Arrived(s)))[p]

(* The books of the reservations balance: each is accounted for by an order *)
(* in the reservation queue (what the first inquiry held for it) or by a    *)
(* shipment being prepared.  New approvals cannot eat the queue's stock and *)
(* nothing is held twice.  Only what a coordinator overrides unbalances     *)
(* them: a forced cancellation (the order leaves the queue and its stock    *)
(* stays reserved, or stock is given back after the truck has left), the    *)
(* departure of a shipment cancelled that way, a cancelled manifest (its    *)
(* shipments keep their items) and a damaged batch.                        *)
Queued == {o \in Placed : order[o].status = "coordinating"}

Balanced ==
  \A b \in Batches : stock[b].status # "expired" =>
    Total([o \in Queued |-> log[o][b]]) + GoodsOf(LiveShipments)[b]
      = stock[b].reserved

Overrides(c) ==
  \/ req[c].kind \in {"forceCancel", "cancelManifest", "issue"}
  \/ /\ req[c].kind = "depart"
     /\ \E i \in DOMAIN req[c].target.load : shipment[i].status = "cancelled"

QueueHoldsItsStock ==
  [][Balanced => Balanced' \/ \E c \in Clients : Overrides(c)]_vars

-----------------------------------------------------------------------------
(* Refinement.                                                             *)

OrderState(o) ==
  IF o \notin Placed THEN "none"
  ELSE CASE order[o].status \in {"pending", "coordinating"} -> "open"
         [] order[o].status \in {"approved", "picking"} -> "promised"
         [] order[o].status = "delivering" -> "away"
         [] order[o].status \in {"completed", "claimed"} -> "done"
         [] order[o].status \in {"rejected", "cancelled"} -> "void"

Unspoilt(f) == [b \in Batches |-> IF stock[b].status = "expired" THEN 0 ELSE f[b]]

Promised == INSTANCE StockPromise WITH
  state <- [o \in Orders |-> OrderState(o)],
  free  <- Unspoilt([b \in Batches |-> stock[b].quantity - stock[b].reserved]),
  held  <- [o \in Orders |->
              Unspoilt(GoodsOf({i \in LiveShipments : shipment[i].order = o}))],
  gone  <- Unspoilt([b \in Batches |-> Opening[b] - stock[b].quantity])

(* Handled one request at a time, the endpoints keep the kitchen's promise: *)
(* approving, cancelling, loading, departing and receiving move each order  *)
(* and exactly its own goods.                                              *)
KeepsThePromise == Promised!Spec
=============================================================================
