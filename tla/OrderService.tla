----------------------------- MODULE OrderService -----------------------------
(***************************************************************************)
(* The endpoints of the order service that change state, and the store's   *)
(* receipt of a shipment.  See Fulfilment for the two steps of a request.  *)
(***************************************************************************)
EXTENDS Fulfilment

-----------------------------------------------------------------------------
(* Placing an order.                                                       *)

(* findExistingConsolidationGroupId: the group of a pending order of the    *)
(* same store, placed today for the same day.                              *)
OpenGroups(o) ==
  {order[p].group : p \in {p \in Placed :
      /\ StoreOf[p] = StoreOf[o]
      /\ DeliveryOf[p] = DeliveryOf[o]
      /\ order[p].status = "pending"
      /\ order[p].created = today}}

(* insertOrderWithItems, with the group the order has been given. *)
insertOrderWithItems(o, g) ==
  order' = [p \in Placed \cup {o} |->
              IF p = o THEN [status |-> "pending", group |-> g, created |-> today,
                             slip |-> FALSE, confirm |-> FALSE]
              ELSE order[p]]

(* createOrder: one transaction, serialised per store by an advisory lock.  *)
(* The order joins an open group; after the closing time, or when there is *)
(* none, it gets a group of its own.                                       *)
createOrder(o) ==
  /\ Serves("create")
  /\ o \notin Placed
  /\ DeliveryOf[o] > today
  /\ \E g \in {o} \cup OpenGroups(o) : insertOrderWithItems(o, g)
  /\ UNCHANGED <<today, stock, log, shipment, manifest, storeStock, claim,
                 inquiries, req>>

-----------------------------------------------------------------------------
(* Approval.                                                               *)

ArriveApprove(c) ==
  \E o \in Placed : order[o].status = "pending" /\ Arrive(c, "approve", {o}, None)

(* What lockStockForOrder takes for the order, given the safety window. *)
Taken(o) ==
  Allocation(stock, Requested[o], CutOffDate(DeliveryOf[o] + Margin[o]))

(* An order of which nothing is there is rejected, in the transaction that  *)
(* was to approve it ...                                                   *)
rejectOutOfStock(o) ==
  /\ Total(Requested[o]) > 0 /\ Total(Taken(o)) = 0
  /\ order' = WithStatus(o, "rejected")
  /\ UNCHANGED <<stock, log, shipment>>

(* The rows and the header of the order, and the question to the kitchen. *)
applySmartOrderApproval(o) ==
  order' = [order EXCEPT ![o].status = "approved", ![o].confirm = FALSE]

(* ... any other gets what is there; the rest is cut, and the goods go on a *)
(* shipment.                                                               *)
applyApproval(o) ==
  /\ Total(Requested[o]) > 0 => Total(Taken(o)) > 0
  /\ stock' = Reserved(stock, Taken(o))
  /\ log' = [log EXCEPT ![o] = Plus(@, Taken(o))]
  /\ applySmartOrderApproval(o)
  /\ shipment' \in ShipmentForOrder(shipment, o, order[o].group, Taken(o))

setOrderProductionFlag(o) == order' = [order EXCEPT ![o].confirm = TRUE]

(* An order that is cut, when more could be produced before the truck      *)
(* leaves, may be left to the kitchen: the transaction is rolled back, and  *)
(* the order flagged (requires_production_confirm) after it.               *)
awaitProduction(o) ==
  /\ Serves("confirm")
  /\ Total(Taken(o)) > 0
  /\ \E p \in Products : PerProduct(Taken(o))[p] < Requested[o][p]
  /\ setOrderProductionFlag(o)
  /\ UNCHANGED <<stock, log, shipment>>

approveOrder(c) ==
  /\ Handles(c, "approve")
  /\ \/ rejectOutOfStock(OrderOf(c))
     \/ applyApproval(OrderOf(c))
     \/ awaitProduction(OrderOf(c))
  /\ Done(c)
  /\ UNCHANGED <<today, manifest, storeStock, claim, inquiries>>

ArriveConfirm(c) ==
  \E o \in Placed :
    /\ order[o].status \in {"coordinating", "pending"}
    /\ order[o].confirm
    /\ Arrive(c, "confirm", {o}, None)

(* The kitchen will not produce what is missing ...                        *)
refuseProduction(o) ==
  /\ \E give \in ToRelease(o) : stock' = Released(stock, give)
  /\ order' = [order EXCEPT ![o].status = "rejected", ![o].confirm = FALSE]

(* ... or will: the order is approved, with no goods and no shipment.       *)
acceptProduction(o) ==
  /\ order' = [order EXCEPT ![o].status = "approved", ![o].confirm = FALSE]
  /\ UNCHANGED stock

kitchenProductionConfirm(c) ==
  /\ Handles(c, "confirm")
  /\ refuseProduction(OrderOf(c)) \/ acceptProduction(OrderOf(c))
  /\ Done(c)
  /\ UNCHANGED <<today, log, shipment, manifest, storeStock, claim, inquiries>>

(* Mutant: an order in any status is rejected. *)
ArriveReject_AnyStatus(c) == \E o \in Placed : Arrive(c, "reject", {o}, None)

ArriveReject(c) ==
  \E o \in Placed : order[o].status = "pending" /\ Arrive(c, "reject", {o}, None)

rejectOrder(c) ==
  /\ Handles(c, "reject")
  /\ order' = WithStatus(OrderOf(c), "rejected")
  /\ Done(c)
  /\ UNCHANGED <<today, stock, log, shipment, manifest, storeStock, claim, inquiries>>

(* Mutant: the store may cancel an approved order. *)
ArriveCancel_Approved(c) ==
  \E o \in Placed : order[o].status \in {"pending", "approved"}
                     /\ Arrive(c, "cancel", {o}, None)

ArriveCancel(c) ==
  \E o \in Placed : order[o].status = "pending" /\ Arrive(c, "cancel", {o}, None)

(* cancelOrder, by the store. *)
cancelOrder(c) ==
  /\ Handles(c, "cancel")
  /\ order' = WithStatus(OrderOf(c), "cancelled")
  /\ Done(c)
  /\ UNCHANGED <<today, stock, log, shipment, manifest, storeStock, claim, inquiries>>

ArriveForceCancel(c) ==
  \E o \in Placed :
    /\ order[o].status \notin {"pending", "cancelled", "rejected"}
    /\ Arrive(c, "forceCancel", {o}, None)

(* forceCancelOrder: the whole shipment of the order is released and        *)
(* cancelled, whoever else it carries goods for.                           *)
forceCancelOrder(c) ==
  LET o == OrderOf(c)
  IN /\ Handles(c, "forceCancel")
     /\ IF ShipmentsOf(o) = {} THEN UNCHANGED <<stock, shipment>>
        ELSE \E i \in ShipmentsOf(o) :
               /\ stock' = Released(stock, GoodsOf({i}))
               /\ shipment' = [shipment EXCEPT ![i].status = "cancelled"]
     /\ order' = WithStatus(o, "cancelled")
     /\ Done(c)
     /\ UNCHANGED <<today, log, manifest, storeStock, claim, inquiries>>

-----------------------------------------------------------------------------
(* The coordination hub.                                                   *)

OnDay(day, st) == {o \in Placed : DeliveryOf[o] = day /\ order[o].status = st}

(* listOrderIdsByDeliveryDateAndStatus reads the coordinating orders. *)
ArriveInquiry(c) ==
  \E o \in Placed :
    /\ inquiries < MaxInquiries
    /\ Arrive(c, "inquiry", OnDay(DeliveryOf[o], "coordinating"), DeliveryOf[o])

(* Mutant: the order's hold is released after it has been taken again. *)
Requeue_ReleaseLast(st, o) ==
  LET take == Allocation(st.stock, Requested[o], ShelfCutOff)
      held == Plus(st.log[o], take)
  IN [stock |-> Released(Reserved(st.stock, take), held),
      log |-> [st.log EXCEPT ![o] = held]]

(* One turn of the loop: the order's hold is released and taken again, on   *)
(* the state st == [stock, log] the turns before it have left.             *)
Requeue(st, o) ==
  LET freed == Released(st.stock, st.log[o])
      take == Allocation(freed, Requested[o], ShelfCutOff)
  IN [stock |-> Reserved(freed, take),
      log |-> [st.log EXCEPT ![o] = Plus(@, take)]]

lockPendingOrdersForCoordination(locked) ==
  order' = [o \in Placed |->
              IF o \in locked THEN [order[o] EXCEPT !.status = "coordinating"]
              ELSE order[o]]

(* sendCoordinationInquiry: the pending orders of the day are locked, then  *)
(* every coordinating order of the day is queued again.                    *)
sendCoordinationInquiry(c) ==
  LET locked == OnDay(req[c].target, "pending")
  IN /\ Handles(c, "inquiry")
     /\ \E queue \in SetToSeqs(req[c].orders \cup locked) :
          LET end == FoldLeft(Requeue, [stock |-> stock, log |-> log], queue)
          IN stock' = end.stock /\ log' = end.log
     /\ lockPendingOrdersForCoordination(locked)
     /\ inquiries' = inquiries + 1
     /\ Done(c)
     /\ UNCHANGED <<today, shipment, manifest, storeStock, claim>>

(* batchApproveByAllocation finds pending or coordinating orders of a day. *)
ArriveBatchApprove(c) ==
  \E S \in (SUBSET Placed) \ {{}} :
    /\ \A o \in S : order[o].status \in {"pending", "coordinating"}
    /\ \A o, p \in S : DeliveryOf[o] = DeliveryOf[p]
    /\ Arrive(c, "batchApprove", S, None)

(* An allocation grants each line between nothing and what it asks for:     *)
(* so much of a product in all, and so much of that to its first line.      *)
Granted(o) ==
  {a \in [Products -> 0..Total(Requested[o])] :
     \A p \in Products : a[p] <= Requested[o][p]}

GrantedFirst(o, a) ==
  {f \in [Products -> 0..Total(FirstLine[o])] :
     \A p \in Products : /\ f[p] <= FirstLine[o][p] /\ f[p] <= a[p]
                         /\ a[p] - f[p] <= Requested[o][p] - FirstLine[o][p]}

(* Mutant: the hold is released after the granted quantities are reserved. *)
Grant_ReleaseLast(st, o, granted) ==
  LET take == Allocation(st.stock, granted, CutOffDate(DeliveryOf[o]))
      held == Plus(st.log[o], take)
  IN [stock |-> Released(Reserved(st.stock, take), held),
      log |-> [st.log EXCEPT ![o] = held],
      takes |-> [st.takes EXCEPT ![o] = take]]

(* One order: its hold is released, the granted quantities are reserved.    *)
Grant(st, o, granted) ==
  LET freed == Released(st.stock, st.log[o])
      take == Allocation(freed, granted, CutOffDate(DeliveryOf[o]))
  IN [stock |-> Reserved(freed, take),
      log |-> [st.log EXCEPT ![o] = Plus(@, take)],
      takes |-> [st.takes EXCEPT ![o] = take]]

(* createConsolidatedShipmentForOrders, for the orders of one group in the  *)
(* order in which the queue has them.                                      *)
ConsolidatedShipment(queue, group, takes, first) ==
  LET turns == {k \in DOMAIN queue : order[queue[k]].group = group}
  IN NewShipment(queue[Min(turns)], {queue[k] : k \in turns}, group, "consolidated",
                 FoldLeft(LAMBDA items, o : IF order[o].group = group
                                            THEN items \o ItemsOf(takes[o], first[o])
                                            ELSE items,
                          << >>, queue))

(* batchApproveByAllocation: release, reserve and approve order by order,   *)
(* then one consolidated shipment per store and group.                     *)
batchApproveByAllocation(c) ==
  LET S == req[c].orders
      groups == {order[o].group : o \in S}
  IN /\ Handles(c, "batchApprove")
     /\ \E queue \in SetToSeqs(S), waves \in SetToSeqs(groups) :
        \E granted \in [S -> UNION {Granted(o) : o \in S}] :
        \E first \in [S -> UNION {GrantedFirst(o, granted[o]) : o \in S}] :
          /\ \A o \in S : /\ granted[o] \in Granted(o)
                          /\ first[o] \in GrantedFirst(o, granted[o])
          /\ LET end == FoldLeft(LAMBDA st, o : Grant(st, o, granted[o]),
                          [stock |-> stock, log |-> log,
                           takes |-> [o \in S |-> Nothing]], queue)
             IN /\ stock' = end.stock
                /\ log' = end.log
                /\ shipment' = shipment \o [k \in 1..Len(waves) |->
                     ConsolidatedShipment(queue, waves[k], end.takes, first)]
     /\ order' = [o \in Placed |->
                    IF o \in S THEN [order[o] EXCEPT !.status = "approved",
                                                     !.slip = TRUE]
                    ELSE order[o]]
     /\ Done(c)
     /\ UNCHANGED <<today, manifest, storeStock, claim, inquiries>>

-----------------------------------------------------------------------------
(* Receipt by the store (shipment service).                                *)

(* Mutant: a shipment may be received a second time. *)
ArriveReceive_Again(c) ==
  \E i \in DOMAIN shipment :
    shipment[i].status \in {"in_transit", "completed"} /\ Arrive(c, "receive", {}, i)

ArriveReceive(c) ==
  \E i \in DOMAIN shipment :
    shipment[i].status = "in_transit" /\ Arrive(c, "receive", {}, i)

(* What a truthful report may say of a batch: how much of it has come, and  *)
(* how much of that is damaged.  The report lists batches, the shipment     *)
(* rows: what comes of a batch is what all its rows sent, or less.          *)
ReportsOn(items, b) ==
  LET sent == Goods(items)[b]
  IN {r \in [actual : 0..sent, damaged : 0..sent] : r.damaged <= r.actual}

(* The good quantity credited for an item row, and what is claimed of it:   *)
(* by the report on its batch, whatever other rows of the batch have been   *)
(* credited; in full when the report does not mention it.                   *)
Reported(row, report) == row.batch \in DOMAIN report
Credit(row, report) ==
  IF Reported(row, report) THEN report[row.batch].actual - report[row.batch].damaged
  ELSE row.quantity
Loss(row, report) ==
  IF Reported(row, report)
  THEN Maximum(row.quantity - report[row.batch].actual, 0) + report[row.batch].damaged
  ELSE 0

(* The rows as they have come, and what is missing or damaged of them. *)
Came(items, report) ==
  [k \in DOMAIN items |-> [items[k] EXCEPT !.quantity = Credit(items[k], report)]]
Lost(items, report) ==
  [k \in DOMAIN items |-> [items[k] EXCEPT !.quantity = Loss(items[k], report)]]

(* receiveShipment: the store is credited row by row; what is missing or    *)
(* damaged becomes a claim, and the order claimed.                         *)
receiveShipment(c) ==
  LET i == req[c].target
      s == shipment[i]
      named == {s.items[k].batch : k \in DOMAIN s.items}
  IN /\ Handles(c, "receive")
     /\ \E reported \in SUBSET named :
        \E report \in [reported -> UNION {ReportsOn(s.items, b) : b \in named}] :
          LET came == Came(s.items, report)
              lost == Lost(s.items, report)
              short == \E k \in DOMAIN s.items : lost[k].quantity > 0
          IN /\ \A b \in reported : report[b] \in ReportsOn(s.items, b)
             /\ storeStock' = [storeStock EXCEPT ![StoreOfShipment(i)] =
                                 Plus(@, Goods(came))]
             /\ claim' = IF short THEN WithClaim(i, Goods(lost)) ELSE claim
             /\ order' = WithStatus(s.order, IF short THEN "claimed"
                                             ELSE "completed")
     /\ shipment' = [shipment EXCEPT ![i].status = "completed"]
     /\ Done(c)
     /\ UNCHANGED <<today, stock, log, manifest, inquiries>>

-----------------------------------------------------------------------------
(* Mutant: a batch expires the day before its expiry day. *)
cronExpireBatches_DayEarly ==
  /\ Serves("expire")
  /\ today < Horizon
  /\ today' = today + 1
  /\ stock' = [b \in Batches |->
       IF ExpiryOf[b] <= today' + 1 /\ stock[b].status \notin {"expired", "damaged"}
       THEN [stock[b] EXCEPT !.reserved = 0, !.status = "expired"]
       ELSE stock[b]]
  /\ UNCHANGED <<log, order, shipment, manifest, storeStock, claim, inquiries, req>>

(* The job of 00:01 on the next day: expired batches lose their             *)
(* reservations (runAutoExpireExpiredBatches).                             *)
cronExpireBatches ==
  /\ Serves("expire")
  /\ today < Horizon
  /\ today' = today + 1
  /\ stock' = [b \in Batches |->
       IF ExpiryOf[b] <= today' /\ stock[b].status \notin {"expired", "damaged"}
       THEN [stock[b] EXCEPT !.reserved = 0, !.status = "expired"]
       ELSE stock[b]]
  /\ UNCHANGED <<log, order, shipment, manifest, storeStock, claim, inquiries, req>>
=============================================================================
