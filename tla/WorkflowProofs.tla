---------------------------- MODULE WorkflowProofs ----------------------------
(***************************************************************************)
(* What SupplyChain keeps while orders run through the services: fresh      *)
(* goods for any number of requests, and, handled one request at a time,    *)
(* the agreement between an order, its shipment and the claims on it        *)
(* (Tracked), the books of the kitchen, which tie together what is logged   *)
(* for an order, what its shipment holds, what the stock reserves and what  *)
(* the trucks have taken (Kept), and the books of the stores, stock and     *)
(* claims against what has arrived (Delivered).                            *)
(***************************************************************************)
EXTENDS SupplyChainProofs

-----------------------------------------------------------------------------
(* Rows of shipments, column by column.                                    *)

(* The load of row is that of other: the same orders and the same goods.    *)
SameLoad(row, other) ==
  /\ row.order = other.order /\ row.linked = other.linked /\ row.group = other.group
  /\ DOMAIN row.items = DOMAIN other.items
  /\ \A k \in DOMAIN other.items :
       /\ row.items[k].batch = other.items[k].batch
       /\ row.items[k].quantity = other.items[k].quantity

(* The columns that tell where a shipment is. *)
Place(row) == <<row.status, row.manifest, row.shipped>>

(* Only the columns that are written change.                               *)
LEMMA RowColumns ==
  ASSUME NEW row \in ShipmentRow, NEW st, NEW m
  PROVE  /\ SameLoad([row EXCEPT !.status = st], row)
         /\ Place([row EXCEPT !.status = st]) = <<st, row.manifest, row.shipped>>
         /\ SameLoad([row EXCEPT !.status = st, !.shipped = TRUE], row)
         /\ Place([row EXCEPT !.status = st, !.shipped = TRUE]) = <<st, row.manifest, TRUE>>
         /\ SameLoad([row EXCEPT !.manifest = m], row)
         /\ Place([row EXCEPT !.manifest = m]) = <<row.status, m, row.shipped>>
         /\ SameLoad([row EXCEPT !.manifest = m, !.status = st], row)
         /\ Place([row EXCEPT !.manifest = m, !.status = st]) = <<st, m, row.shipped>>
         /\ SameLoad(row, row)
<1>1. row \in [order : Orders, linked : SUBSET Orders, group : Orders,
               status : ShipmentStatus, manifest : Manifests \cup {None},
               shipped : BOOLEAN, items : Seq(ShipmentItemRow)]
  BY DEF ShipmentRow
<1> QED
  BY <1>1 DEF SameLoad, Place

(* Scanning an item changes neither. *)
LEMMA ScannedColumns ==
  ASSUME NEW row \in ShipmentRow, NEW k \in DOMAIN row.items
  PROVE  LET items == [row.items EXCEPT ![k].picked = TRUE]
         IN /\ SameLoad([row EXCEPT !.items = items], row)
            /\ Place([row EXCEPT !.items = items]) = Place(row)
<1> DEFINE items == [row.items EXCEPT ![k].picked = TRUE]
<1>1. row \in [order : Orders, linked : SUBSET Orders, group : Orders,
               status : ShipmentStatus, manifest : Manifests \cup {None},
               shipped : BOOLEAN, items : Seq(ShipmentItemRow)]
  BY DEF ShipmentRow
<1>2. DOMAIN items = DOMAIN row.items
      /\ \A j \in DOMAIN row.items : /\ items[j].batch = row.items[j].batch
                                     /\ items[j].quantity = row.items[j].quantity
  <2>1. row.items[k] \in [batch : Batches, quantity : Nat \ {0}, picked : BOOLEAN]
    <3>1. row.items \in Seq(ShipmentItemRow)
      BY <1>1
    <3>2. row.items[k] \in ShipmentItemRow
      <4> HIDE DEF items
      <4> QED BY <3>1
    <3> QED
      BY <3>2 DEF ShipmentItemRow
  <2>2. items[k].batch = row.items[k].batch /\ items[k].quantity = row.items[k].quantity
    BY <2>1
  <2>3. DOMAIN items = DOMAIN row.items
        /\ \A j \in DOMAIN items : j # k => items[j] = row.items[j]
    OBVIOUS
  <2> HIDE DEF items
  <2> QED
    BY <2>2, <2>3
<1> HIDE DEF items
<1>3. /\ [row EXCEPT !.items = items].items = items
      /\ [row EXCEPT !.items = items].order = row.order
      /\ [row EXCEPT !.items = items].linked = row.linked
      /\ [row EXCEPT !.items = items].group = row.group
      /\ [row EXCEPT !.items = items].status = row.status
      /\ [row EXCEPT !.items = items].manifest = row.manifest
      /\ [row EXCEPT !.items = items].shipped = row.shipped
  BY <1>1
<1>4. /\ SameLoad([row EXCEPT !.items = items], row)
      /\ Place([row EXCEPT !.items = items]) = Place(row)
  BY <1>2, <1>3 DEF SameLoad, Place
<1> QED
  BY <1>4 DEF items

(* Two rows with one load carry the same bundle. *)
LEMMA SameGoods ==
  ASSUME NEW row \in ShipmentRow, NEW other \in ShipmentRow, SameLoad(row, other)
  PROVE  Goods(row.items) = Goods(other.items)
<1>1. row.items \in Lines /\ other.items \in Lines
  BY RowsAreLines DEF ShipmentRow, Rows
<1> QED
  BY <1>1, GoodsUnscanned DEF SameLoad

-----------------------------------------------------------------------------
(* What each handler does to the shipments.                                *)

LoadsFixed ==
  /\ DOMAIN shipment' = DOMAIN shipment
  /\ \A i \in DOMAIN shipment : SameLoad(shipment'[i], shipment[i])

(* The shipments of S come to <<st, manifest, shipped>>, the others stay.   *)
Moves(S, st, m, shipped) ==
  /\ LoadsFixed
  /\ \A i \in DOMAIN shipment :
       Place(shipment'[i]) = IF i \in S THEN <<st, m, shipped>> ELSE Place(shipment[i])

LEMMA NothingMoves ==
  ASSUME Typed, UNCHANGED shipment
  PROVE  LoadsFixed /\ \A i \in DOMAIN shipment : Place(shipment'[i]) = Place(shipment[i])
  BY ShipmentFacts, RowColumns DEF LoadsFixed

(* The status of one shipment is written. *)
LEMMA StatusMoves ==
  ASSUME Typed, NEW i \in DOMAIN shipment, NEW st,
         shipment' = [shipment EXCEPT ![i].status = st]
  PROVE  Moves({i}, st, shipment[i].manifest, shipment[i].shipped)
<1>1. DOMAIN shipment' = DOMAIN shipment
      /\ \A j \in DOMAIN shipment :
           shipment'[j] = IF j = i THEN [shipment[j] EXCEPT !.status = st] ELSE shipment[j]
  BY DEF Typed, ShipmentsOK
<1>2. ASSUME NEW j \in DOMAIN shipment
      PROVE  /\ SameLoad(shipment'[j], shipment[j])
             /\ Place(shipment'[j]) = IF j = i THEN <<st, shipment[j].manifest, shipment[j].shipped>>
                                      ELSE Place(shipment[j])
  <2>1. shipment[j] \in ShipmentRow
    BY ShipmentFacts
  <2> QED
    BY <1>1, <2>1, RowColumns
<1> QED
  BY <1>1, <1>2 DEF Moves, LoadsFixed

(* One shipment leaves. *)
LEMMA DispatchMoves ==
  ASSUME Typed, NEW i \in DOMAIN shipment,
         shipment' = [shipment EXCEPT ![i].status = "in_transit", ![i].shipped = TRUE]
  PROVE  Moves({i}, "in_transit", shipment[i].manifest, TRUE)
<1> DEFINE left == [shipment[i] EXCEPT !.status = "in_transit", !.shipped = TRUE]
<1>1. DOMAIN shipment' = DOMAIN shipment
      /\ \A j \in DOMAIN shipment : shipment'[j] = IF j = i THEN left ELSE shipment[j]
  BY DEF Typed, ShipmentsOK
<1>2. /\ SameLoad(left, shipment[i])
      /\ Place(left) = <<"in_transit", shipment[i].manifest, TRUE>>
  BY ShipmentFacts, RowColumns
<1>3. \A j \in DOMAIN shipment : SameLoad(shipment[j], shipment[j])
  BY ShipmentFacts, RowColumns
<1> HIDE DEF left
<1> QED
  BY <1>1, <1>2, <1>3 DEF Moves, LoadsFixed

(* The shipments of S are put on a manifest, with another status or not.    *)
LEMMA ManifestMoves ==
  ASSUME Typed, NEW S, NEW m, NEW st,
         shipment' = [i \in DOMAIN shipment |->
                       IF i \in S THEN [shipment[i] EXCEPT !.manifest = m, !.status = st]
                       ELSE shipment[i]]
  PROVE  /\ LoadsFixed
         /\ \A i \in DOMAIN shipment :
              Place(shipment'[i]) = IF i \in S THEN <<st, m, shipment[i].shipped>>
                                    ELSE Place(shipment[i])
<1>1. ASSUME NEW i \in DOMAIN shipment
      PROVE  /\ SameLoad(shipment'[i], shipment[i])
             /\ Place(shipment'[i]) = IF i \in S THEN <<st, m, shipment[i].shipped>>
                                    ELSE Place(shipment[i])
  <2>1. shipment'[i] = IF i \in S THEN [shipment[i] EXCEPT !.manifest = m, !.status = st]
                       ELSE shipment[i]
    OBVIOUS
  <2>2. shipment[i] \in ShipmentRow
    BY ShipmentFacts
  <2> QED
    BY <2>1, <2>2, RowColumns
<1> QED
  BY <1>1 DEF LoadsFixed

LEMMA AttachMoves ==
  ASSUME Typed, NEW S, NEW m,
         shipment' = [i \in DOMAIN shipment |->
                       IF i \in S THEN [shipment[i] EXCEPT !.manifest = m]
                       ELSE shipment[i]]
  PROVE  /\ LoadsFixed
         /\ \A i \in DOMAIN shipment :
              Place(shipment'[i]) = IF i \in S THEN <<shipment[i].status, m, shipment[i].shipped>>
                                    ELSE Place(shipment[i])
<1>1. ASSUME NEW i \in DOMAIN shipment
      PROVE  /\ SameLoad(shipment'[i], shipment[i])
             /\ Place(shipment'[i]) = IF i \in S THEN <<shipment[i].status, m, shipment[i].shipped>>
                                    ELSE Place(shipment[i])
  <2>1. shipment'[i] = IF i \in S THEN [shipment[i] EXCEPT !.manifest = m]
                       ELSE shipment[i]
    OBVIOUS
  <2>2. shipment[i] \in ShipmentRow
    BY ShipmentFacts
  <2> QED
    BY <2>1, <2>2, RowColumns
<1> QED
  BY <1>1 DEF LoadsFixed

(* A truck leaves with S. *)
LEMMA TruckMoves ==
  ASSUME Typed, NEW S,
         shipment' = [i \in DOMAIN shipment |->
                       IF i \in S
                       THEN [shipment[i] EXCEPT !.status = "in_transit", !.shipped = TRUE]
                       ELSE shipment[i]]
  PROVE  /\ LoadsFixed
         /\ \A i \in DOMAIN shipment :
              Place(shipment'[i]) = IF i \in S THEN <<"in_transit", shipment[i].manifest, TRUE>>
                                    ELSE Place(shipment[i])
<1>1. ASSUME NEW i \in DOMAIN shipment
      PROVE  /\ SameLoad(shipment'[i], shipment[i])
             /\ Place(shipment'[i]) = IF i \in S THEN <<"in_transit", shipment[i].manifest, TRUE>>
                                    ELSE Place(shipment[i])
  <2>1. shipment'[i] = IF i \in S
                       THEN [shipment[i] EXCEPT !.status = "in_transit", !.shipped = TRUE]
                       ELSE shipment[i]
    OBVIOUS
  <2>2. shipment[i] \in ShipmentRow
    BY ShipmentFacts
  <2> QED
    BY <2>1, <2>2, RowColumns
<1> QED
  BY <1>1 DEF LoadsFixed

(* An item is scanned. *)
LEMMA ScanMoves ==
  ASSUME Typed, NEW i \in DOMAIN shipment, NEW k \in DOMAIN shipment[i].items,
         verifyManifestItem(i, k)
  PROVE  LoadsFixed /\ \A j \in DOMAIN shipment : Place(shipment'[j]) = Place(shipment[j])
<1> DEFINE items == [shipment[i].items EXCEPT ![k].picked = TRUE]
           row == [shipment[i] EXCEPT !.items = items]
<1>1. shipment' = [shipment EXCEPT ![i].items[k].picked = TRUE]
  BY DEF verifyManifestItem
<1>2. DOMAIN shipment' = DOMAIN shipment
      /\ \A j \in DOMAIN shipment : shipment'[j] = IF j = i THEN row ELSE shipment[j]
  BY <1>1 DEF Typed, ShipmentsOK
<1>4. SameLoad(row, shipment[i]) /\ Place(row) = Place(shipment[i])
  BY ShipmentFacts, ScannedColumns
<1> HIDE DEF row
<1>3. ASSUME NEW j \in DOMAIN shipment
      PROVE  SameLoad(shipment'[j], shipment[j]) /\ Place(shipment'[j]) = Place(shipment[j])
  <2>1. shipment[j] \in ShipmentRow
    BY ShipmentFacts
  <2> QED
    BY <1>2, <1>4, <2>1, RowColumns
<1> QED
  BY <1>2, <1>3 DEF LoadsFixed

(* No handler but the approvals and the report of a damaged batch changes   *)
(* what a shipment carries, or for whom.                                   *)
LEMMA LoadsStayFixed ==
  ASSUME Typed, [Next]_vars,
         \A c \in Clients : /\ ~approveOrder(c) /\ ~batchApproveByAllocation(c)
                           /\ ~reportManifestBatchIssue(c)
  PROVE  LoadsFixed
<1>1. CASE UNCHANGED shipment
  BY <1>1, NothingMoves
<1>2. CASE \E i \in DOMAIN shipment, st \in ShipmentStatus :
             shipment' = [shipment EXCEPT ![i].status = st]
  BY <1>2, StatusMoves DEF Moves
<1>3. CASE \E i \in DOMAIN shipment :
             shipment' = [shipment EXCEPT ![i].status = "in_transit", ![i].shipped = TRUE]
  BY <1>3, DispatchMoves DEF Moves
<1>4. ASSUME NEW c \in Clients, OrderRequest(c)
      PROVE  \/ UNCHANGED shipment
             \/ \E i \in DOMAIN shipment, st \in ShipmentStatus :
                  shipment' = [shipment EXCEPT ![i].status = st]
  <2>1. CASE sendCoordinationInquiry(c)
    BY <2>1 DEF sendCoordinationInquiry
  <2>2. CASE \/ ArriveApprove(c) \/ ArriveConfirm(c) \/ ArriveReject(c) \/ ArriveCancel(c)
             \/ ArriveForceCancel(c) \/ ArriveReceive(c) \/ ArriveInquiry(c)
             \/ ArriveBatchApprove(c)
    BY <2>2 DEF ArriveApprove, ArriveConfirm, ArriveReject, ArriveCancel, ArriveForceCancel,
       ArriveReceive, ArriveInquiry, ArriveBatchApprove, Arrive
  <2>3. CASE kitchenProductionConfirm(c) \/ rejectOrder(c) \/ cancelOrder(c)
    BY <2>3 DEF kitchenProductionConfirm, rejectOrder, cancelOrder
  <2>4. CASE forceCancelOrder(c)
    BY <2>4 DEF forceCancelOrder, ShipmentsOf, PrimaryShipments, ShipmentStatus
  <2>5. CASE receiveShipment(c)
    <3>1. req[c].target \in DOMAIN shipment
      BY <2>5 DEF receiveShipment, Handles, Typed, RequestsOK, RequestOK
    <3>2. shipment' = [shipment EXCEPT ![req[c].target].status = "completed"]
      BY <2>5 DEF receiveShipment
    <3> QED
      BY <3>1, <3>2 DEF ShipmentStatus
  <2> QED
    BY <1>4, <2>1, <2>2, <2>3, <2>4, <2>5 DEF OrderRequest
<1>5. ASSUME NEW c \in Clients, WarehouseRequest(c) PROVE LoadsFixed
  <2>1. CASE \/ ArriveCancelTask(c) \/ ArriveFinalize(c) \/ ArriveManifest(c)
             \/ ArriveConsolidate(c) \/ ArriveIssue(c) \/ ArriveCancelManifest(c)
             \/ ArriveDeparture(c)
    BY <1>1, <2>1 DEF ArriveCancelTask, ArriveFinalize, ArriveManifest, ArriveConsolidate,
       ArriveIssue, ArriveCancelManifest, ArriveDeparture, Arrive
  <2>2. CASE cancelPickingTask(c)
    BY <1>1, <1>2, <2>2 DEF cancelPickingTask, ShipmentsOf, PrimaryShipments, ShipmentStatus
  <2>3. CASE finalizeBulkShipment(c)
    BY <1>1, <1>3, <2>3 DEF finalizeBulkShipment, PrimaryShipments
  <2>4. CASE createManifest(c)
    BY <2>4, AttachMoves DEF createManifest
  <2>5. CASE consolidateManifestOrders(c)
    <3>1. PICK m : shipment' = [i \in DOMAIN shipment |->
                     IF i \in req[c].target
                     THEN [shipment[i] EXCEPT !.manifest = m, !.status = "consolidated"]
                     ELSE shipment[i]]
      BY <2>5 DEF consolidateManifestOrders
    <3> QED
      BY <3>1, ManifestMoves
  <2>6. CASE cancelManifest(c)
    BY <2>6, AttachMoves DEF cancelManifest
  <2>7. CASE confirmManifestDeparture(c)
    BY <2>7, TruckMoves DEF confirmManifestDeparture
  <2> QED
    BY <1>5, <2>1, <2>2, <2>3, <2>4, <2>5, <2>6, <2>7 DEF WarehouseRequest
<1>6. ASSUME NEW c \in Clients, ClaimRequest(c) \/ Fail(c) PROVE UNCHANGED shipment
  BY <1>6 DEF ClaimRequest, ArriveClaim, createManualClaim, ArriveResolve, resolveClaim,
     Arrive, Fail
<1>7. ASSUME NEW o \in Orders, createOrder(o) PROVE UNCHANGED shipment
  BY <1>7 DEF createOrder
<1>8. CASE cronExpireBatches \/ UNCHANGED vars
  BY <1>1, <1>8 DEF cronExpireBatches, vars
<1> QED
  BY <1>1, <1>2, <1>4, <1>5, <1>6, <1>7, <1>8, ScanMoves DEF Next

-----------------------------------------------------------------------------
(* What each handler does to the orders.                                   *)

LEMMA OrderColumns ==
  ASSUME NEW row \in OrderRow
  PROVE  /\ \A st : /\ [row EXCEPT !.status = st].group = row.group
                    /\ [row EXCEPT !.status = st].status = st
         /\ \A flag : /\ [row EXCEPT !.confirm = flag].group = row.group
                      /\ [row EXCEPT !.confirm = flag].status = row.status
         /\ \A st, flag :
              /\ [row EXCEPT !.status = st, !.confirm = flag].group = row.group
              /\ [row EXCEPT !.status = st, !.confirm = flag].status = st
              /\ [row EXCEPT !.status = st, !.slip = flag].group = row.group
              /\ [row EXCEPT !.status = st, !.slip = flag].status = st
<1>1. row \in [status : OrderStatus, group : Orders, created : 0..Horizon,
               slip : BOOLEAN, confirm : BOOLEAN]
  BY DEF OrderRow
<1> QED
  BY <1>1

(* The orders of S come to the status st, the others keep theirs. *)
Become(S, st) ==
  /\ Placed' = Placed
  /\ \A p \in Placed : /\ order'[p].group = order[p].group
                       /\ order'[p].status = IF p \in S THEN st ELSE order[p].status

LEMMA OneBecomes ==
  ASSUME Typed, NEW o, NEW st, NEW confirm,
         \/ order' = WithStatus(o, st)
         \/ order' = [order EXCEPT ![o].status = st, ![o].confirm = confirm]
  PROVE  Become({o}, st)
<1>1. Placed' = Placed
      /\ \A p \in Placed : \/ p # o /\ order'[p] = order[p]
                           \/ p = o /\ order'[p] = [order[p] EXCEPT !.status = st]
                           \/ p = o /\ order'[p] = [order[p] EXCEPT !.status = st,
                                                                   !.confirm = confirm]
  BY DEF Typed, OrdersOK, WithStatus, Placed
<1>2. ASSUME NEW p \in Placed
      PROVE  /\ order'[p].group = order[p].group
             /\ order'[p].status = IF p \in {o} THEN st ELSE order[p].status
  <2>1. order[p] \in OrderRow
    BY DEF Typed, OrdersOK
  <2>2. /\ [order[p] EXCEPT !.status = st].group = order[p].group
        /\ [order[p] EXCEPT !.status = st].status = st
        /\ [order[p] EXCEPT !.status = st, !.confirm = confirm].group = order[p].group
        /\ [order[p] EXCEPT !.status = st, !.confirm = confirm].status = st
    BY <2>1, OrderColumns
  <2> QED
    BY <1>1, <2>2
<1> QED
  BY <1>1, <1>2 DEF Become

LEMMA FlagChanges ==
  ASSUME Typed, NEW o, setOrderProductionFlag(o)
  PROVE  Become({}, "pending")
<1>1. Placed' = Placed
      /\ \A p \in Placed : \/ order'[p] = order[p]
                           \/ order'[p] = [order[p] EXCEPT !.confirm = TRUE]
  BY DEF Typed, OrdersOK, setOrderProductionFlag, Placed
<1>2. ASSUME NEW p \in Placed
      PROVE  order'[p].group = order[p].group /\ order'[p].status = order[p].status
  <2>1. order[p] \in OrderRow
    BY DEF Typed, OrdersOK
  <2>2. /\ [order[p] EXCEPT !.confirm = TRUE].group = order[p].group
        /\ [order[p] EXCEPT !.confirm = TRUE].status = order[p].status
    BY <2>1, OrderColumns
  <2> QED
    BY <1>1, <2>2
<1> QED
  BY <1>1, <1>2 DEF Become

LEMMA SomeBecome ==
  ASSUME Typed, NEW S, NEW st,
         \/ order' = [o \in Placed |-> IF o \in S THEN [order[o] EXCEPT !.status = st]
                                       ELSE order[o]]
         \/ order' = [o \in Placed |-> IF o \in S THEN [order[o] EXCEPT !.status = st,
                                                                        !.slip = TRUE]
                                       ELSE order[o]]
  PROVE  Become(S, st)
<1>1. Placed' = Placed
      /\ \A p \in Placed : \/ p \notin S /\ order'[p] = order[p]
                           \/ p \in S /\ order'[p] = [order[p] EXCEPT !.status = st]
                           \/ p \in S /\ order'[p] = [order[p] EXCEPT !.status = st,
                                                                     !.slip = TRUE]
  BY DEF Placed
<1>2. ASSUME NEW p \in Placed
      PROVE  /\ order'[p].group = order[p].group
             /\ order'[p].status = IF p \in S THEN st ELSE order[p].status
  <2> DEFINE one == [order[p] EXCEPT !.status = st]
             two == [order[p] EXCEPT !.status = st, !.slip = TRUE]
  <2>1. order[p] \in [status : OrderStatus, group : Orders, created : 0..Horizon,
                     slip : BOOLEAN, confirm : BOOLEAN]
    BY DEF Typed, OrdersOK, OrderRow
  <2>2. /\ one.group = order[p].group /\ one.status = st
        /\ two.group = order[p].group /\ two.status = st
    BY <2>1
  <2>3. \/ p \notin S /\ order'[p] = order[p]
        \/ p \in S /\ (order'[p] = one \/ order'[p] = two)
    BY <1>1
  <2> HIDE DEF one, two
  <2> QED
    BY <2>2, <2>3
<1> QED
  BY <1>1, <1>2 DEF Become

(* A new order. *)
LEMMA OrderCreated ==
  ASSUME Typed, NEW o \in Orders, createOrder(o)
  PROVE  /\ o \notin Placed /\ Placed' = Placed \cup {o}
         /\ \A p \in Placed : order'[p] = order[p]
         /\ order'[o].status = "pending"
         /\ order'[o].group \in {o} \cup OpenGroups(o)
         /\ UNCHANGED <<today, stock, log, shipment, manifest, storeStock, claim, inquiries, req>>
<1>1. PICK g \in {o} \cup OpenGroups(o) : insertOrderWithItems(o, g)
  BY DEF createOrder
<1> QED
  BY <1>1 DEF createOrder, insertOrderWithItems, Placed

(* An order keeps its group for ever. *)
LEMMA GroupsStay ==
  ASSUME Typed, [Next]_vars, \A o \in Orders : ~createOrder(o)
  PROVE  \E S, st : Become(S, st)
<1>1. CASE UNCHANGED order
  <2>1. Become({}, "pending")
    BY <1>1 DEF Become, Placed
  <2> QED
    BY <2>1
<1>2. ASSUME NEW c \in Clients, OrderRequest(c) PROVE \E S, st : Become(S, st)
  <2>1. CASE sendCoordinationInquiry(c) \/ batchApproveByAllocation(c)
    <3>1. CASE sendCoordinationInquiry(c)
      <4>1. PICK S : lockPendingOrdersForCoordination(S)
        BY <3>1 DEF sendCoordinationInquiry
      <4> QED
        BY <4>1, SomeBecome DEF lockPendingOrdersForCoordination
    <3>2. CASE batchApproveByAllocation(c)
      <4>1. PICK S : order' = [o \in Placed |->
                                IF o \in S THEN [order[o] EXCEPT !.status = "approved",
                                                                !.slip = TRUE]
                                ELSE order[o]]
        BY <3>2 DEF batchApproveByAllocation
      <4> QED
        BY <4>1, SomeBecome
    <3> QED
      BY <2>1, <3>1, <3>2
  <2>2. CASE \/ ArriveApprove(c) \/ ArriveConfirm(c) \/ ArriveReject(c) \/ ArriveCancel(c)
             \/ ArriveForceCancel(c) \/ ArriveReceive(c) \/ ArriveInquiry(c)
             \/ ArriveBatchApprove(c)
    BY <1>1, <2>2 DEF ArriveApprove, ArriveConfirm, ArriveReject, ArriveCancel, ArriveForceCancel,
       ArriveReceive, ArriveInquiry, ArriveBatchApprove, Arrive
  <2>3. CASE kitchenProductionConfirm(c) \/ rejectOrder(c) \/ cancelOrder(c)
             \/ forceCancelOrder(c) \/ receiveShipment(c)
    <3>1. \E o, st : \/ order' = WithStatus(o, st)
                     \/ order' = [order EXCEPT ![o].status = st, ![o].confirm = FALSE]
      BY <2>3 DEF kitchenProductionConfirm, refuseProduction, acceptProduction, rejectOrder,
         cancelOrder, forceCancelOrder, receiveShipment
    <3> QED
      BY <3>1, OneBecomes
  <2>4. CASE approveOrder(c)
    <3>1. \E o, st : \/ order' = WithStatus(o, st)
                     \/ order' = [order EXCEPT ![o].status = st, ![o].confirm = FALSE]
                     \/ setOrderProductionFlag(o)
      BY <2>4 DEF approveOrder, rejectOutOfStock, applyApproval, awaitProduction,
         applySmartOrderApproval
    <3> QED
      BY <3>1, OneBecomes, FlagChanges
  <2> QED
    BY <1>2, <2>1, <2>2, <2>3, <2>4 DEF OrderRequest
<1>3. ASSUME NEW c \in Clients, WarehouseRequest(c) PROVE \E S, st : Become(S, st)
  <2>1. CASE \/ ArriveCancelTask(c) \/ ArriveFinalize(c) \/ ArriveManifest(c)
             \/ ArriveConsolidate(c) \/ ArriveIssue(c) \/ ArriveCancelManifest(c)
             \/ ArriveDeparture(c)
    BY <1>1, <2>1 DEF ArriveCancelTask, ArriveFinalize, ArriveManifest, ArriveConsolidate,
       ArriveIssue, ArriveCancelManifest, ArriveDeparture, Arrive
  <2>2. CASE createManifest(c) \/ reportManifestBatchIssue(c) \/ cancelManifest(c)
    BY <1>1, <2>2 DEF createManifest, reportManifestBatchIssue, cancelManifest
  <2>3. CASE cancelPickingTask(c) \/ finalizeBulkShipment(c)
    <3>1. \E o, st : order' = WithStatus(o, st)
      BY <2>3 DEF cancelPickingTask, finalizeBulkShipment
    <3> QED
      BY <3>1, OneBecomes
  <2>4. CASE consolidateManifestOrders(c)
    <3> DEFINE S == {shipment[i].order : i \in req[c].target}
    <3>1. order' = [o \in Placed |-> IF o \in S THEN [order[o] EXCEPT !.status = "picking",
                                                                      !.slip = TRUE]
                                     ELSE order[o]]
      BY <2>4 DEF consolidateManifestOrders
    <3> HIDE DEF S
    <3> QED
      BY <3>1, SomeBecome
  <2>5. CASE confirmManifestDeparture(c)
    <3> DEFINE load == req[c].target.load
               S == {o \in Placed : \E i \in DOMAIN load : shipment[i].order = o}
    <3>1. order' = [o \in Placed |-> IF o \in S THEN [order[o] EXCEPT !.status = "delivering"]
                                     ELSE order[o]]
      BY <2>5 DEF confirmManifestDeparture
    <3> HIDE DEF S
    <3> QED
      BY <3>1, SomeBecome
  <2> QED
    BY <1>3, <2>1, <2>2, <2>3, <2>4, <2>5 DEF WarehouseRequest
<1>4. ASSUME NEW c \in Clients, ClaimRequest(c) \/ Fail(c) PROVE \E S, st : Become(S, st)
  <2>1. CASE ArriveClaim(c) \/ ArriveResolve(c) \/ resolveClaim(c) \/ Fail(c)
    BY <1>1, <2>1 DEF ArriveClaim, ArriveResolve, resolveClaim, Arrive, Fail
  <2>2. CASE createManualClaim(c)
    BY <2>2, OneBecomes DEF createManualClaim
  <2> QED
    BY <1>4, <2>1, <2>2 DEF ClaimRequest
<1>5. CASE \/ cronExpireBatches \/ UNCHANGED vars
           \/ \E i \in DOMAIN shipment : \E k \in DOMAIN shipment[i].items :
                verifyManifestItem(i, k)
  BY <1>1, <1>5 DEF cronExpireBatches, vars, verifyManifestItem
<1> QED
  BY <1>2, <1>3, <1>4, <1>5 DEF Next

-----------------------------------------------------------------------------
(* Fresh goods, for any number of requests.                                *)

(* Orders of one store for one day: they may share a shipment. *)
SameTrip(o, p) == StoreOf[o] = StoreOf[p] /\ DeliveryOf[o] = DeliveryOf[p]

(* The travel time is the store's, and a delivery day starts at midnight    *)
(* (order.service.ts:696): orders that share a shipment share its margin.   *)
OneMargin ==
  \A o, p \in Orders : SameTrip(o, p) => Margin[o] = Margin[p]

(* The substitutes for a damaged batch may have any expiry date ... *)
NoSubstitutes == "issue" \notin Endpoints

(* ... and a batch approval's cut-off leaves out the margin of the travel.  *)
NoBatches == "batchApprove" \notin Endpoints

(* Every order on the shipment is of its group, and would be given every    *)
(* batch on it.                                                            *)
FreshRow(row) ==
  /\ row.linked # {}
  /\ \A o \in row.linked :
       /\ SameTrip(o, row.group)
       /\ \A k \in DOMAIN row.items :
            ExpiryOf[row.items[k].batch] > DeliveryOf[o] + Margin[o]

FreshLoads ==
  /\ \A o \in Placed : SameTrip(o, order[o].group)
  /\ \A i \in DOMAIN shipment : FreshRow(shipment[i])
  /\ \A c \in Clients : req[c].kind \notin {"issue", "batchApprove"}

(* Of a batch that something is taken of, enough time is left.             *)
LEMMA TakenInTime ==
  ASSUME Typed, NEW o \in Placed, NEW b \in Batches, Taken(o)[b] > 0
  PROVE  /\ ExpiryOf[b] > DeliveryOf[o] + Margin[o]
         /\ stock[b].status \notin Blocked
<1> DEFINE cutoff == CutOffDate(DeliveryOf[o] + Margin[o])
<1>1. o \in Orders /\ stock \in Stocks
  BY DEF Typed, OrdersOK
<1>2. cutoff \in [Products -> Nat] /\ Requested[o] \in [Products -> Nat]
      /\ ProductOf[b] \in Products /\ ExpiryOf[b] \in Nat
      /\ cutoff[ProductOf[b]] = DeliveryOf[o] + Margin[o]
  BY <1>1, FulfilmentAssumption DEF CutOffDate
<1> HIDE DEF cutoff
<1>3. Taken(o) = Allocation(stock, Requested[o], cutoff)
  BY DEF Taken, cutoff
<1>4. Taken(o)[b] <= Offers(stock, cutoff)[b] /\ Taken(o) \in Bundles
      /\ Offers(stock, cutoff) \in Bundles
  BY <1>1, <1>2, <1>3, AllocationTakes, OffersType
<1>5. Offered(stock, b, cutoff) # 0
  BY <1>4 DEF Offers, Bundles
<1>6. ExpiryOf[b] > cutoff[ProductOf[b]] /\ stock[b].status \notin Blocked
  BY <1>2, <1>5, FulfilmentAssumption DEF Offered
<1> QED
  BY <1>2, <1>6

LEMMA FreshUnchanged ==
  ASSUME NEW row, NEW other, SameLoad(row, other), FreshRow(other)
  PROVE  FreshRow(row)
  BY DEF SameLoad, FreshRow

(* The two ways an approval makes a load. *)
LEMMA FreshShipment ==
  ASSUME Typed, NEW o \in Placed, NEW g, SameTrip(o, g)
  PROVE  FreshRow(NewShipment(o, {o}, g, "preparing", ItemsOf(Taken(o), FirstLine[o])))
<1>1. Taken(o) \in Bundles
  BY TakenType
<1>3. FirstLine[o] \in Parts
  BY FirstLineTyped
<1>2. ASSUME NEW items, items = ItemsOf(Taken(o), FirstLine[o]), NEW k \in DOMAIN items
      PROVE  ExpiryOf[items[k].batch] > DeliveryOf[o] + Margin[o]
  <2>1. items[k].batch \in Batches /\ Taken(o)[items[k].batch] > 0
    BY <1>1, <1>2, <1>3, RowsOfBundle
  <2> QED
    BY <2>1, TakenInTime
<1> QED
  BY <1>2 DEF FreshRow, NewShipment

LEMMA FreshJoin ==
  ASSUME OneMargin, Typed, FreshLoads, NEW o \in Placed, NEW i \in DOMAIN shipment,
         shipment[i].group = order[o].group
  PROVE  FreshRow(Joined(shipment[i], o, Taken(o)))
<1> DEFINE more == ItemsOf(Taken(o), FirstLine[o])
           items == shipment[i].items
           row == Joined(shipment[i], o, Taken(o))
<1>1. Taken(o) \in Bundles
  BY TakenType
<1>2. /\ shipment[i] \in ShipmentRow /\ items \in Rows /\ more \in Rows
      /\ shipment[i].linked \subseteq Orders /\ o \in Orders
      /\ \A p \in Orders : DeliveryOf[p] \in Nat /\ Margin[p] \in Nat
  BY <1>1, ShipmentFacts, FirstLineTyped, RowsOfBundle, FulfilmentAssumption
<1>3. row.linked = shipment[i].linked \cup {o} /\ row.group = shipment[i].group
      /\ row.items = items \o more
  BY <1>2 DEF Joined, ShipmentRow
<1>4. \A k \in DOMAIN more : ExpiryOf[more[k].batch] > DeliveryOf[o] + Margin[o]
  <2>1. FreshRow(NewShipment(o, {o}, order[o].group, "preparing", more))
    BY FreshShipment DEF FreshLoads
  <2> QED
    BY <2>1 DEF FreshRow, NewShipment
<1>5. \A p \in row.linked : /\ SameTrip(p, shipment[i].group)
                           /\ DeliveryOf[p] + Margin[p] = DeliveryOf[o] + Margin[o]
  <2>1. SameTrip(o, shipment[i].group)
    BY DEF FreshLoads
  <2>2. ASSUME NEW p \in shipment[i].linked
        PROVE  /\ SameTrip(p, shipment[i].group)
               /\ DeliveryOf[p] + Margin[p] = DeliveryOf[o] + Margin[o]
    <3>1. SameTrip(p, shipment[i].group)
      BY DEF FreshLoads, FreshRow
    <3>2. SameTrip(p, o) /\ p \in Orders
      BY <1>2, <2>1, <3>1 DEF SameTrip
    <3> QED
      BY <1>2, <3>1, <3>2 DEF OneMargin, SameTrip
  <2> QED
    BY <1>3, <2>1, <2>2
<1>6. \A k \in DOMAIN items : ExpiryOf[items[k].batch] > DeliveryOf[o] + Margin[o]
  <2>1. PICK p \in shipment[i].linked : TRUE
    BY DEF FreshLoads, FreshRow
  <2>2. \A k \in DOMAIN items : ExpiryOf[items[k].batch] > DeliveryOf[p] + Margin[p]
    BY DEF FreshLoads, FreshRow
  <2> QED
    BY <1>3, <1>5, <2>1, <2>2
<1>7. ASSUME NEW k \in DOMAIN (items \o more)
      PROVE  \/ k \in DOMAIN items /\ (items \o more)[k] = items[k]
             \/ \E j \in DOMAIN more : (items \o more)[k] = more[j]
  <2>1. Len(items) \in Nat /\ Len(more) \in Nat /\ DOMAIN more = 1..Len(more)
        /\ DOMAIN items = 1..Len(items)
    BY <1>2 DEF Rows
  <2>2. k \in 1..(Len(items) + Len(more))
        /\ (items \o more)[k] = IF k <= Len(items) THEN items[k] ELSE more[k - Len(items)]
    <3> HIDE DEF items, more
    <3> QED
      BY <1>2 DEF Rows
  <2>3. CASE k <= Len(items)
    BY <2>1, <2>2, <2>3
  <2>4. CASE ~(k <= Len(items))
    <3> HIDE DEF items, more
    <3>1. k - Len(items) \in DOMAIN more /\ (items \o more)[k] = more[k - Len(items)]
      BY <2>1, <2>2, <2>4
    <3> QED
      BY <3>1
  <2> QED
    BY <2>3, <2>4
<1>8. \A k \in DOMAIN (items \o more) :
        ExpiryOf[(items \o more)[k].batch] > DeliveryOf[o] + Margin[o]
  <2> HIDE DEF items, more
  <2> QED
    BY <1>4, <1>6, <1>7
<1> HIDE DEF items, more, row
<1>9. \A p \in row.linked : \A k \in DOMAIN row.items :
        ExpiryOf[row.items[k].batch] > DeliveryOf[p] + Margin[p]
  BY <1>3, <1>5, <1>8
<1>10. row.linked # {} /\ \A p \in row.linked : SameTrip(p, row.group)
  BY <1>3, <1>5
<1> QED
  BY <1>9, <1>10 DEF FreshRow, row

LEMMA ApprovalFresh ==
  ASSUME OneMargin, Typed, FreshLoads, NEW c \in Clients, approveOrder(c)
  PROVE  \A i \in DOMAIN shipment' : FreshRow(shipment'[i])
<1> DEFINE o == OrderOf(c)
           take == Taken(o)
           g == order[o].group
<1>1. o \in Placed
  BY OneOrder DEF approveOrder, Handles, AboutOneOrder
<1>2. UNCHANGED shipment \/ shipment' \in ShipmentForOrder(shipment, o, g, take)
  BY DEF approveOrder, rejectOutOfStock, applyApproval, awaitProduction
<1>3. CASE UNCHANGED shipment
  BY <1>3 DEF FreshLoads
<1>4. CASE shipment' = Append(shipment, NewFor(o, g, take))
  <2> DEFINE row == NewFor(o, g, take)
  <2>1. FreshRow(row)
    <3>1. SameTrip(o, g)
      BY <1>1 DEF FreshLoads
    <3> HIDE DEF o
    <3> QED
      BY <1>1, <3>1, FreshShipment DEF NewFor
  <2> HIDE DEF row
  <2>2. \A i \in DOMAIN shipment' : \/ i \in DOMAIN shipment /\ shipment'[i] = shipment[i]
                                    \/ shipment'[i] = row
    BY <1>4 DEF row, Typed, ShipmentsOK
  <2> QED
    BY <2>1, <2>2 DEF FreshLoads
<1>5. ASSUME NEW i \in DOMAIN shipment, shipment[i].group = g,
             shipment' = WithRow(i, Joined(shipment[i], o, take))
      PROVE  \A j \in DOMAIN shipment' : FreshRow(shipment'[j])
  <2>1. FreshRow(Joined(shipment[i], o, take))
    <3> HIDE DEF o
    <3> QED
      BY <1>1, <1>5, FreshJoin
  <2>2. \A j \in DOMAIN shipment' : /\ j \in DOMAIN shipment
                                    /\ shipment'[j] = IF j = i THEN Joined(shipment[i], o, take)
                                                      ELSE shipment[j]
    BY <1>5 DEF WithRow
  <2> QED
    BY <2>1, <2>2 DEF FreshLoads
<1> HIDE DEF o, take, g
<1>6. \/ UNCHANGED shipment
      \/ shipment' = Append(shipment, NewFor(o, g, take))
      \/ \E i \in DOMAIN shipment :
           shipment[i].group = g /\ shipment' = WithRow(i, Joined(shipment[i], o, take))
  BY <1>2, ShipmentMade
<1> QED
  BY <1>3, <1>4, <1>5, <1>6

LEMMA GroupsFresh ==
  ASSUME Typed, FreshLoads, [Next]_vars
  PROVE  \A o \in Placed' : SameTrip(o, order'[o].group)
<1>1. ASSUME NEW o \in Orders, createOrder(o)
      PROVE  \A p \in Placed' : SameTrip(p, order'[p].group)
  <2>1. SameTrip(o, order'[o].group)
    <3>1. CASE order'[o].group = o
      BY <3>1 DEF SameTrip
    <3>2. ASSUME NEW p \in Placed, SameTrip(o, p), order'[o].group = order[p].group
          PROVE  SameTrip(o, order'[o].group)
      BY <3>2 DEF FreshLoads, SameTrip
    <3> QED
      BY <1>1, <3>1, <3>2, OrderCreated DEF OpenGroups, SameTrip
  <2> QED
    BY <1>1, <2>1, OrderCreated DEF FreshLoads
<1>2. CASE \A o \in Orders : ~createOrder(o)
  <2>1. PICK S, st : Become(S, st)
    BY <1>2, GroupsStay
  <2> QED
    BY <2>1 DEF Become, FreshLoads
<1> QED
  BY <1>1, <1>2

(* A request is for one of the endpoints that are served.                  *)
LEMMA RequestsServed ==
  ASSUME Typed, [Next]_vars, NEW d \in Clients
  PROVE  req'[d] = req[d] \/ req'[d] = Idle \/ req'[d].kind \in Endpoints
<1> DEFINE Goal == req'[d] = req[d] \/ req'[d] = Idle \/ req'[d].kind \in Endpoints
<1>1. ASSUME NEW c \in Clients, NEW kind, NEW S, NEW target, Arrive(c, kind, S, target)
      PROVE  Goal
  BY <1>1 DEF Arrive, Serves, Typed, RequestsOK
<1>2. ASSUME NEW c \in Clients, Done(c) PROVE Goal
  BY <1>2, DoneIdles
<1> HIDE DEF Goal
<1>3. ASSUME NEW c \in Clients, OrderRequest(c) PROVE Goal
  <2>1. \/ Done(c)
        \/ \E kind, S, target : Arrive(c, kind, S, target)
    BY <1>3 DEF OrderRequest, ArriveApprove, ArriveConfirm, ArriveReject, ArriveCancel,
       ArriveForceCancel, ArriveReceive, ArriveInquiry, ArriveBatchApprove, approveOrder,
       kitchenProductionConfirm, rejectOrder, cancelOrder, forceCancelOrder,
       sendCoordinationInquiry, batchApproveByAllocation, receiveShipment
  <2> QED
    BY <1>1, <1>2, <2>1
<1>4. ASSUME NEW c \in Clients, WarehouseRequest(c) PROVE Goal
  <2>1. \/ Done(c)
        \/ \E kind, S, target : Arrive(c, kind, S, target)
    BY <1>4 DEF WarehouseRequest, ArriveCancelTask, ArriveFinalize, ArriveManifest,
       ArriveConsolidate, ArriveIssue, ArriveCancelManifest, ArriveDeparture,
       cancelPickingTask, finalizeBulkShipment, createManifest, consolidateManifestOrders,
       reportManifestBatchIssue, cancelManifest, confirmManifestDeparture
  <2> QED
    BY <1>1, <1>2, <2>1
<1>5. ASSUME NEW c \in Clients, ClaimRequest(c) \/ Fail(c) PROVE Goal
  <2>1. \/ Done(c)
        \/ \E kind, S, target : Arrive(c, kind, S, target)
    BY <1>5 DEF ClaimRequest, ArriveClaim, ArriveResolve, createManualClaim, resolveClaim, Fail
  <2> QED
    BY <1>1, <1>2, <2>1
<1>6. CASE \/ cronExpireBatches \/ UNCHANGED vars \/ \E o \in Orders : createOrder(o)
           \/ \E i \in DOMAIN shipment : \E k \in DOMAIN shipment[i].items :
                verifyManifestItem(i, k)
  BY <1>6 DEF cronExpireBatches, vars, verifyManifestItem, createOrder, Goal
<1> QED
  BY <1>3, <1>4, <1>5, <1>6 DEF Next, Goal

LEMMA NextFresh ==
  OneMargin /\ NoSubstitutes /\ NoBatches /\ Typed /\ FreshLoads /\ [Next]_vars => FreshLoads'
<1> SUFFICES ASSUME OneMargin, NoSubstitutes, NoBatches, Typed, FreshLoads, [Next]_vars
             PROVE  FreshLoads'
  OBVIOUS
<1>1. \A c \in Clients : req'[c].kind \notin {"issue", "batchApprove"}
  BY RequestsServed DEF NoSubstitutes, NoBatches, FreshLoads, Idle
<1>2. \A o \in Placed' : SameTrip(o, order'[o].group)
  BY GroupsFresh
<1>3. \A i \in DOMAIN shipment' : FreshRow(shipment'[i])
  <2>1. \A c \in Clients : ~reportManifestBatchIssue(c) /\ ~batchApproveByAllocation(c)
    BY DEF FreshLoads, reportManifestBatchIssue, batchApproveByAllocation, Handles
  <2>2. CASE \A c \in Clients : ~approveOrder(c)
    <3>1. LoadsFixed
      BY <2>1, <2>2, LoadsStayFixed
    <3> QED
      BY <3>1, FreshUnchanged DEF LoadsFixed, FreshLoads
  <2> QED
    BY <2>2, ApprovalFresh
<1> QED
  BY <1>1, <1>2, <1>3 DEF FreshLoads

(* Whoever shares a shipment, and however many requests run at once, no     *)
(* order is sent goods that expire before they are delivered, travel and    *)
(* the buffer included.  Batch approvals and the substitutes for damaged     *)
(* batches do not observe the safety window and are left out.              *)
THEOREM GoodsArriveFresh ==
  ASSUME OneMargin, NoSubstitutes, NoBatches
  PROVE  Spec => []FreshAtDelivery
<1>1. Init => Typed /\ FreshLoads
  <2>1. Init => FreshLoads
    BY DEF Init, FreshLoads, Placed, Idle
  <2> QED
    BY <2>1, InitTyped
<1>2. Typed /\ FreshLoads /\ [Next]_vars => Typed' /\ FreshLoads'
  BY NextTyped, NextFresh
<1>3. FreshLoads => FreshAtDelivery
  BY DEF FreshLoads, FreshRow, FreshAtDelivery
<1> QED
  BY <1>1, <1>2, <1>3, PTL DEF Spec

-----------------------------------------------------------------------------
(* The life of an order, one request at a time.                            *)

OneAtATime == \A c, d \in Clients : c = d

(* What the services offer when no coordinator intervenes: neither the      *)
(* coordination hub nor the forced cancellation of an order, the           *)
(* cancellation of a manifest or the report of a damaged batch.             *)
Workflow ==
  {"create", "approve", "confirm", "reject", "cancel", "cancelTask", "manifest",
   "consolidate", "verify", "depart", "finalize", "receive", "claim", "resolve",
   "expire"}

(* No two orders are for one store and one day, so none shares a shipment. *)
OwnShipments == \A o, p \in Orders : SameTrip(o, p) => o = p

Normal == OneAtATime /\ Endpoints \subseteq Workflow /\ OwnShipments

(* The status of an order that suits the status of its shipment.           *)
Suits(orderStatus, status) ==
  /\ status \in {"preparing", "consolidated"} => orderStatus \in {"approved", "picking"}
  /\ status = "in_transit" => orderStatus = "delivering"
  /\ status = "completed" => orderStatus \in {"completed", "claimed"}
  /\ status = "cancelled" => orderStatus = "cancelled"

Open(i) == shipment[i].status = "preparing" /\ shipment[i].manifest = None
           /\ order[shipment[i].order].status = "approved"

(* What a request has read is still so when it is handled. *)
ReadHolds(r) ==
  /\ r.kind = "idle" => r = Idle
  /\ r.kind \in {"approve", "reject", "cancel"} =>
       \A o \in r.orders : order[o].status = "pending"
  /\ r.kind = "confirm" => \A o \in r.orders : order[o].status \in {"pending", "coordinating"}
  /\ r.kind = "cancelTask" => \A o \in r.orders : order[o].status \in {"approved", "picking"}
  /\ r.kind = "finalize" => \A o \in r.orders : order[o].status = "approved"
  /\ r.kind \in {"manifest", "consolidate"} => \A i \in r.target : Open(i)
  /\ r.kind = "depart" =>
       /\ manifest[r.target.manifest] = "preparing"
       /\ DOMAIN r.target.load = OnManifest(r.target.manifest)
       /\ \A i \in OnManifest(r.target.manifest) :
            r.target.load[i] = Goods(shipment[i].items)
  /\ r.kind = "receive" => shipment[r.target].status = "in_transit"
  /\ r.kind = "claim" => shipment[r.target.shipment].status = "completed"

(* Each order has at most one shipment, which is its own and moves with it. *)
OneEach ==
  /\ \A o \in Placed : order[o].group = o
  /\ \A i \in DOMAIN shipment :
       shipment[i].linked = {shipment[i].order} /\ shipment[i].group = shipment[i].order
  /\ \A i, j \in DOMAIN shipment : shipment[i].order = shipment[j].order => i = j

InStep ==
  /\ \A i \in DOMAIN shipment :
       /\ Suits(order[shipment[i].order].status, shipment[i].status)
       /\ shipment[i].status = "completed" =>
            (Claimed(i) <=> order[shipment[i].order].status = "claimed")
       /\ shipment[i].shipped <=> shipment[i].status \in {"in_transit", "completed"}
       /\ shipment[i].manifest # None /\ manifest[shipment[i].manifest] = "preparing"
            => Live(i)
  /\ \A k \in DOMAIN claim : shipment[claim[k].shipment].status = "completed"

ReadsHold == \A c \in Clients : req[c].kind \in Workflow \cup {"idle"} /\ ReadHolds(req[c])

Tracked == OneEach /\ InStep /\ ReadsHold

(* What follows about the shipment of one order. *)
LEMMA OwnShipment ==
  ASSUME Typed, OneEach, NEW o
  PROVE  /\ ShipmentsOf(o) = PrimaryShipments(o)
         /\ PrimaryShipments(o) \in SUBSET DOMAIN shipment
         /\ \A i \in PrimaryShipments(o) : shipment[i].order = o /\ PrimaryShipments(o) = {i}
  BY DEF OneEach, ShipmentsOf, PrimaryShipments

(* An order that is not on its way has no shipment. *)
LEMMA NoShipmentYet ==
  ASSUME Typed, InStep, NEW o,
         order[o].status \in {"pending", "coordinating", "rejected"}
  PROVE  PrimaryShipments(o) = {}
<1>1. \A i \in DOMAIN shipment : shipment[i].status \in ShipmentStatus
  BY ShipmentFacts DEF ShipmentRow
<1> QED
  BY <1>1 DEF InStep, Suits, PrimaryShipments, ShipmentStatus

(* The shipments S of the orders O move, and those orders with them.       *)
LEMMA StepTogether ==
  ASSUME Typed, OneEach, InStep,
         NEW S \in SUBSET DOMAIN shipment, NEW st, NEW O, NEW ost,
         LoadsFixed, Become(O, ost),
         \A i \in DOMAIN shipment : shipment[i].order \in O <=> i \in S,
         \A i \in DOMAIN shipment : i \notin S =>
           /\ shipment'[i].status = shipment[i].status
           /\ shipment'[i].shipped = shipment[i].shipped
           /\ Claimed(i)' <=> Claimed(i),
         \A i \in S :
           /\ shipment'[i].status = st
           /\ shipment'[i].shipped <=> st \in {"in_transit", "completed"}
           /\ Suits(ost, st)
           /\ st = "completed" => (Claimed(i)' <=> ost = "claimed"),
         \A i \in DOMAIN shipment :
           shipment'[i].manifest # None
           /\ manifest'[shipment'[i].manifest] = "preparing" => Live(i)',
         \A k \in DOMAIN claim' : /\ claim'[k].shipment \in DOMAIN shipment
                                  /\ shipment'[claim'[k].shipment].status = "completed"
  PROVE  OneEach' /\ InStep'
<1>1. /\ DOMAIN shipment' = DOMAIN shipment
      /\ \A i \in DOMAIN shipment : /\ shipment'[i].order = shipment[i].order
                                    /\ shipment'[i].linked = shipment[i].linked
                                    /\ shipment'[i].group = shipment[i].group
                                    /\ shipment[i].order \in Placed
  BY ShipmentFacts DEF LoadsFixed, SameLoad
<1>2. OneEach'
  BY <1>1 DEF OneEach, Become
<1>3. ASSUME NEW i \in DOMAIN shipment
      PROVE  /\ Suits(order'[shipment'[i].order].status, shipment'[i].status)
             /\ shipment'[i].status = "completed" =>
                  (Claimed(i)' <=> order'[shipment'[i].order].status = "claimed")
             /\ shipment'[i].shipped <=> shipment'[i].status \in {"in_transit", "completed"}
  <2>1. CASE i \in S
    BY <1>1, <2>1 DEF Become
  <2>2. CASE i \notin S
    BY <1>1, <2>2 DEF Become, InStep
  <2> QED
    BY <2>1, <2>2
<1>4. InStep'
  BY <1>1, <1>3 DEF InStep
<1> QED
  BY <1>2, <1>4

(* A request that ends leaves nothing to be read. *)
LEMMA DoneReads ==
  ASSUME OneAtATime, Typed, NEW c \in Clients, Done(c)
  PROVE  ReadsHold'
<1>1. \A d \in Clients : req'[d] = Idle
  BY DEF OneAtATime, Done, Typed, RequestsOK
<1>2. ReadHolds(Idle)' /\ Idle.kind = "idle"
  BY DEF ReadHolds, Idle
<1>3. ASSUME NEW r, r = Idle, NEW d \in Clients, req'[d] = r
      PROVE  req'[d].kind \in Workflow \cup {"idle"} /\ ReadHolds(req[d])'
  BY <1>3, <1>2 DEF ReadHolds
<1> QED
  BY <1>1, <1>3 DEF ReadsHold

(* A request that arrives has read what is there. *)
LEMMA ArrivalReads ==
  ASSUME OneAtATime, Typed, NEW c \in Clients, NEW kind \in Workflow, NEW S, NEW target,
         Arrive(c, kind, S, target),
         ReadHolds([kind |-> kind, orders |-> S, target |-> target])
  PROVE  ReadsHold'
<1> DEFINE r == [kind |-> kind, orders |-> S, target |-> target]
<1>1. \A d \in Clients : req'[d] = r
  BY DEF OneAtATime, Arrive, Typed, RequestsOK
<1>2. r.kind \in Workflow /\ ReadHolds(r)
  OBVIOUS
<1> HIDE DEF r
<1>3. UNCHANGED <<order, shipment, manifest>>
  BY DEF Arrive
<1>4. ASSUME NEW d \in Clients PROVE ReadHolds(req[d])'
  BY <1>1, <1>2, <1>3 DEF ReadHolds, Open, OnManifest
<1> QED
  BY <1>1, <1>2, <1>4 DEF ReadsHold

(* A request that has read r finds the same as long as the shipments, the   *)
(* manifests and the statuses of its orders are what they were.            *)
LEMMA StillRead ==
  ASSUME NEW r, RequestOK(r), ReadHolds(r),
         DOMAIN shipment' = DOMAIN shipment,
         \A i \in DOMAIN shipment :
           /\ shipment'[i].order = shipment[i].order
           /\ shipment'[i].status = shipment[i].status
           /\ shipment'[i].manifest = shipment[i].manifest
           /\ shipment[i].order \in Placed
           /\ Goods(shipment'[i].items) = Goods(shipment[i].items),
         \A o \in Placed : order'[o].status = order[o].status,
         UNCHANGED manifest
  PROVE  ReadHolds(r)'
<1>1. \A m : OnManifest(m)' = OnManifest(m)
  BY DEF OnManifest
<1>2. ASSUME r.kind \in AboutOneOrder
      PROVE  \A o \in r.orders : order'[o].status = order[o].status
  BY <1>2 DEF RequestOK
<1>3. ASSUME r.kind \in {"manifest", "consolidate"}
      PROVE  \A i \in r.target : Open(i)'
  BY <1>3 DEF RequestOK, ReadHolds, Open
<1>4. ASSUME r.kind = "depart"
      PROVE  /\ manifest'[r.target.manifest] = "preparing"
             /\ DOMAIN r.target.load = OnManifest(r.target.manifest)'
             /\ \A i \in OnManifest(r.target.manifest)' :
                  r.target.load[i] = Goods(shipment'[i].items)
  <2>1. PICK m : m = r.target.manifest
    OBVIOUS
  <2>2. /\ manifest[m] = "preparing"
        /\ DOMAIN r.target.load = OnManifest(m)
        /\ \A i \in OnManifest(m) : r.target.load[i] = Goods(shipment[i].items)
    BY <1>4, <2>1 DEF ReadHolds
  <2>3. OnManifest(m)' = OnManifest(m) /\ OnManifest(m) \subseteq DOMAIN shipment
    BY <1>1 DEF OnManifest
  <2>4. \A i \in OnManifest(m) : r.target.load[i] = Goods(shipment'[i].items)
    BY <2>2, <2>3
  <2>5. OnManifest(r.target.manifest)' = OnManifest(m)
    BY <2>1, <2>3 DEF OnManifest
  <2> QED
    BY <2>1, <2>2, <2>4, <2>5
<1>5. r.kind = "receive" => shipment'[r.target].status = "in_transit"
  BY DEF RequestOK, ReadHolds
<1>6. r.kind = "claim" => shipment'[r.target.shipment].status = "completed"
  BY DEF RequestOK, ReadHolds
<1>7. r.kind = "idle" => r = Idle
  BY DEF ReadHolds
<1>8. r.kind \in {"approve", "reject", "cancel"} =>
        \A o \in r.orders : order'[o].status = "pending"
  BY <1>2 DEF ReadHolds, AboutOneOrder
<1>9. r.kind = "confirm" => \A o \in r.orders : order'[o].status \in {"pending", "coordinating"}
  BY <1>2 DEF ReadHolds, AboutOneOrder
<1>10. r.kind = "cancelTask" => \A o \in r.orders : order'[o].status \in {"approved", "picking"}
  BY <1>2 DEF ReadHolds, AboutOneOrder
<1>11. r.kind = "finalize" => \A o \in r.orders : order'[o].status = "approved"
  BY <1>2 DEF ReadHolds, AboutOneOrder
<1> QED
  BY <1>3, <1>4, <1>5, <1>6, <1>7, <1>8, <1>9, <1>10, <1>11 DEF ReadHolds

(* The reads of a request survive the orders placed, the scans and the days *)
(* until it is handled.                                                    *)
LEMMA ReadsKept ==
  ASSUME Typed, ReadsHold, LoadsFixed,
         \A i \in DOMAIN shipment : Place(shipment'[i]) = Place(shipment[i]),
         \A o \in Placed : order'[o].status = order[o].status,
         UNCHANGED <<manifest, req>>, ShipmentsOK'
  PROVE  ReadsHold'
<1>1. ASSUME NEW i \in DOMAIN shipment
      PROVE  /\ shipment'[i].order = shipment[i].order
             /\ shipment'[i].status = shipment[i].status
             /\ shipment'[i].manifest = shipment[i].manifest
             /\ shipment[i].order \in Placed
             /\ Goods(shipment'[i].items) = Goods(shipment[i].items)
  <2>1. shipment[i] \in ShipmentRow /\ shipment'[i] \in ShipmentRow
    BY ShipmentFacts DEF LoadsFixed, ShipmentsOK
  <2>2. SameLoad(shipment'[i], shipment[i]) /\ Place(shipment'[i]) = Place(shipment[i])
    BY DEF LoadsFixed
  <2> QED
    BY <2>1, <2>2, SameGoods, ShipmentFacts DEF SameLoad, Place
<1>2. DOMAIN shipment' = DOMAIN shipment
  BY DEF LoadsFixed
<1>3. ASSUME NEW c \in Clients, NEW r, r = req[c], req'[c] = r
      PROVE  ReadHolds(req[c])'
  <2>1. RequestOK(r) /\ ReadHolds(r)
    BY <1>3 DEF Typed, RequestsOK, ReadsHold
  <2>2. ReadHolds(r)'
    BY <1>1, <1>2, <2>1, StillRead
  <2> QED
    BY <1>3, <2>2 DEF ReadHolds
<1> QED
  BY <1>3 DEF ReadsHold

(* The shipments with claims are those of before and of new. *)
ClaimsFollow(new) ==
  {claim'[k].shipment : k \in DOMAIN claim'} = {claim[k].shipment : k \in DOMAIN claim} \cup new

LEMMA ClaimsChange ==
  ASSUME Typed
  PROVE  /\ UNCHANGED claim => ClaimsFollow({})
         /\ \A i, lost : claim' = WithClaim(i, lost) => ClaimsFollow({i})
         /\ \A j, verdict : j \in DOMAIN claim /\ claim' = [claim EXCEPT ![j].status = verdict]
                              => ClaimsFollow({})
<1>1. claim \in Seq(ClaimRow) /\ \A k \in DOMAIN claim : claim[k] \in ClaimRow
  BY DEF Typed, ClaimsOK
<1>2. ASSUME UNCHANGED claim PROVE ClaimsFollow({})
  BY <1>2 DEF ClaimsFollow
<1>3. ASSUME NEW i, NEW lost, claim' = WithClaim(i, lost) PROVE ClaimsFollow({i})
  <2> DEFINE row == [shipment |-> i, status |-> "pending", items |-> PerProduct(lost)]
  <2>1. claim' = Append(claim, row) /\ row.shipment = i
    BY <1>3 DEF WithClaim
  <2> HIDE DEF row
  <2>2. /\ Len(claim) \in Nat /\ DOMAIN claim = 1..Len(claim)
        /\ DOMAIN claim' = 1..(Len(claim) + 1)
        /\ \A k \in DOMAIN claim : claim'[k] = claim[k]
        /\ claim'[Len(claim) + 1] = row
    BY <1>1, <2>1
  <2>3. DOMAIN claim' = DOMAIN claim \cup {Len(claim) + 1}
    BY <2>2
  <2> QED
    BY <2>1, <2>2, <2>3 DEF ClaimsFollow
<1>4. ASSUME NEW j, NEW verdict, j \in DOMAIN claim,
             claim' = [claim EXCEPT ![j].status = verdict]
      PROVE  ClaimsFollow({})
  <2>1. DOMAIN claim' = DOMAIN claim
        /\ \A k \in DOMAIN claim : \/ claim'[k] = claim[k]
                                   \/ claim'[k] = [claim[k] EXCEPT !.status = verdict]
    BY <1>1, <1>4
  <2>2. ASSUME NEW k \in DOMAIN claim PROVE claim'[k].shipment = claim[k].shipment
    <3>1. claim[k] \in [shipment : Nat, status : ClaimStatus, items : [Products -> Nat]]
      BY <1>1 DEF ClaimRow
    <3>2. [claim[k] EXCEPT !.status = verdict].shipment = claim[k].shipment
      BY <3>1
    <3> QED
      BY <2>1, <3>2
  <2> QED
    BY <2>1, <2>2 DEF ClaimsFollow
<1> QED
  BY <1>2, <1>3, <1>4

LEMMA ClaimedFollows ==
  ASSUME Typed, InStep, NEW new, ClaimsFollow(new)
  PROVE  /\ \A i : Claimed(i)' <=> Claimed(i) \/ i \in new
         /\ \A i \in DOMAIN shipment : Claimed(i) => shipment[i].status = "completed"
         /\ \A k \in DOMAIN claim' :
              \/ claim'[k].shipment \in new
              \/ /\ Claimed(claim'[k].shipment)
                 /\ claim'[k].shipment \in DOMAIN shipment
                 /\ shipment[claim'[k].shipment].status = "completed"
<1>1. \A i : Claimed(i) <=> i \in {claim[k].shipment : k \in DOMAIN claim}
  BY DEF Claimed
<1>2. \A i : Claimed(i)' <=> i \in {claim'[k].shipment : k \in DOMAIN claim'}
  BY DEF Claimed
<1>3. \A k \in DOMAIN claim : claim[k].shipment \in DOMAIN shipment
                              /\ shipment[claim[k].shipment].status = "completed"
  BY DEF Typed, ClaimsOK, InStep
<1> QED
  BY <1>1, <1>2, <1>3 DEF ClaimsFollow

(* The status and the truck of a shipment, from where it is placed. *)
LEMMA Placement ==
  ASSUME Typed, LoadsFixed, NEW i \in DOMAIN shipment, NEW st, NEW m, NEW shipped,
         Place(shipment'[i]) = <<st, m, shipped>>
  PROVE  /\ shipment'[i].status = st /\ shipment'[i].manifest = m
         /\ shipment'[i].shipped = shipped
  BY DEF Place

(* No shipment moves, and the orders that do have none. *)
LEMMA NoneMove ==
  ASSUME Typed, OneEach, InStep, NEW O, NEW ost, Become(O, ost),
         \A i \in DOMAIN shipment : shipment[i].order \notin O,
         LoadsFixed, \A i \in DOMAIN shipment : Place(shipment'[i]) = Place(shipment[i]),
         UNCHANGED manifest, ClaimsFollow({})
  PROVE  OneEach' /\ InStep'
<1>1. \A i \in DOMAIN shipment :
        /\ shipment'[i].status = shipment[i].status
        /\ shipment'[i].manifest = shipment[i].manifest
        /\ shipment'[i].shipped = shipment[i].shipped
  BY DEF Place
<1>2. /\ \A i : Claimed(i)' <=> Claimed(i)
      /\ \A k \in DOMAIN claim' : /\ claim'[k].shipment \in DOMAIN shipment
                                  /\ shipment'[claim'[k].shipment].status = "completed"
  BY <1>1, ClaimedFollows
<1>3. ASSUME NEW i \in DOMAIN shipment, shipment'[i].manifest # None,
             manifest'[shipment'[i].manifest] = "preparing"
      PROVE  Live(i)'
  <2>1. Live(i)
    BY <1>1, <1>3 DEF InStep
  <2> QED
    BY <1>1, <2>1 DEF Live
<1>4. \A i \in DOMAIN shipment : shipment[i].order \in O <=> i \in {}
  OBVIOUS
<1>5. \A i \in {} : /\ shipment'[i].status = "preparing"
                    /\ shipment'[i].shipped <=> "preparing" \in {"in_transit", "completed"}
                    /\ Suits(ost, "preparing")
                    /\ "preparing" = "completed" => (Claimed(i)' <=> ost = "claimed")
  OBVIOUS
<1>6. \A i \in DOMAIN shipment : i \notin {} =>
           /\ shipment'[i].status = shipment[i].status
           /\ shipment'[i].shipped = shipment[i].shipped
           /\ Claimed(i)' <=> Claimed(i)
  BY <1>1, <1>2
<1>7. \A i \in DOMAIN shipment :
        shipment'[i].manifest # None
           /\ manifest'[shipment'[i].manifest] = "preparing" => Live(i)'
  BY <1>3
<1>8. {} \in SUBSET DOMAIN shipment
  OBVIOUS
<1> QED
  BY <1>2, <1>4, <1>5, <1>6, <1>7, <1>8, StepTogether

(* One shipment moves with its order, and may get a claim when received. *)
LEMMA OneMoves ==
  ASSUME Typed, OneEach, InStep, NEW i \in DOMAIN shipment, NEW st, NEW shipped,
         Moves({i}, st, shipment[i].manifest, shipped),
         shipped <=> st \in {"in_transit", "completed"},
         NEW ost, Become({shipment[i].order}, ost),
         NEW new \in SUBSET {i}, ClaimsFollow(new),
         st # "completed" => new = {} /\ ~Claimed(i),
         Suits(ost, st),
         st = "completed" => (Claimed(i)' <=> ost = "claimed"),
         shipment[i].manifest = None \/ manifest[shipment[i].manifest] # "preparing",
         UNCHANGED manifest
  PROVE  OneEach' /\ InStep'
<1>1. LoadsFixed
  BY DEF Moves
<1>2. \A j \in DOMAIN shipment : shipment[j].order \in {shipment[i].order} <=> j \in {i}
  BY DEF OneEach
<1>3. \A j \in DOMAIN shipment : j \notin {i} =>
        /\ shipment'[j].status = shipment[j].status
        /\ shipment'[j].manifest = shipment[j].manifest
        /\ shipment'[j].shipped = shipment[j].shipped
        /\ Claimed(j)' <=> Claimed(j)
  BY ClaimedFollows DEF Moves, Place
<1>4. /\ shipment'[i].status = st /\ shipment'[i].manifest = shipment[i].manifest
      /\ shipment'[i].shipped = shipped
  BY DEF Moves, Place
<1>5. ASSUME NEW j \in DOMAIN shipment, shipment'[j].manifest # None,
             manifest'[shipment'[j].manifest] = "preparing"
      PROVE  Live(j)'
  <2>1. j # i /\ Live(j)
    BY <1>3, <1>4, <1>5 DEF InStep
  <2> QED
    BY <1>3, <2>1 DEF Live
<1>6. \A k \in DOMAIN claim' : /\ claim'[k].shipment \in DOMAIN shipment
                               /\ shipment'[claim'[k].shipment].status = "completed"
  <2>1. \A k \in DOMAIN claim' :
          \/ claim'[k].shipment \in new
          \/ /\ Claimed(claim'[k].shipment)
             /\ claim'[k].shipment \in DOMAIN shipment
             /\ shipment[claim'[k].shipment].status = "completed"
    BY ClaimedFollows
  <2> QED
    BY <1>3, <1>4, <2>1
<1>7. \A j \in {i} : /\ shipment'[j].status = st
                     /\ shipment'[j].shipped <=> st \in {"in_transit", "completed"}
                     /\ Suits(ost, st)
                     /\ st = "completed" => (Claimed(j)' <=> ost = "claimed")
  BY <1>4
<1>8. \A j \in DOMAIN shipment :
        shipment'[j].manifest # None
           /\ manifest'[shipment'[j].manifest] = "preparing" => Live(j)'
  BY <1>5
<1>9. \A j \in DOMAIN shipment : j \notin {i} =>
        /\ shipment'[j].status = shipment[j].status
        /\ shipment'[j].shipped = shipment[j].shipped
        /\ Claimed(j)' <=> Claimed(j)
  BY <1>3
<1>10. {i} \in SUBSET DOMAIN shipment
  OBVIOUS
<1> QED
  BY <1>1, <1>2, <1>6, <1>7, <1>8, <1>9, <1>10, StepTogether

(* The order of a request that is about one has the status the request read. *)
LEMMA StatusRead ==
  ASSUME Typed, ReadsHold, NEW c \in Clients
  PROVE  /\ req[c].kind \in AboutOneOrder => OrderOf(c) \in Placed
         /\ req[c].kind \in {"approve", "reject", "cancel"} =>
              order[OrderOf(c)].status = "pending"
         /\ req[c].kind = "confirm" =>
              order[OrderOf(c)].status \in {"pending", "coordinating"}
         /\ req[c].kind = "cancelTask" => order[OrderOf(c)].status \in {"approved", "picking"}
         /\ req[c].kind = "finalize" => order[OrderOf(c)].status = "approved"
<1>1. req[c].kind \in AboutOneOrder => OrderOf(c) \in Placed /\ req[c].orders = {OrderOf(c)}
  BY OneOrder
<1>2. ReadHolds(req[c])
  BY DEF ReadsHold
<1> QED
  BY <1>1, <1>2 DEF ReadHolds, AboutOneOrder

(* An order without shipment changes. *)
LEMMA OrderAlone ==
  ASSUME Typed, OneEach, InStep, NEW o, PrimaryShipments(o) = {}, NEW ost, Become({o}, ost),
         UNCHANGED <<shipment, manifest, claim>>
  PROVE  OneEach' /\ InStep'
<1>1. \A i \in DOMAIN shipment : shipment[i].order \notin {o}
  BY DEF PrimaryShipments
<1>2. LoadsFixed /\ \A i \in DOMAIN shipment : Place(shipment'[i]) = Place(shipment[i])
  BY NothingMoves
<1>3. ClaimsFollow({})
  BY ClaimsChange
<1> QED
  BY <1>1, <1>2, <1>3, NoneMove

(* Rejected, cancelled by the store or decided by the kitchen.             *)
LEMMA DecisionTracked ==
  ASSUME OneAtATime, Typed, Tracked, NEW c \in Clients,
         rejectOrder(c) \/ cancelOrder(c) \/ kitchenProductionConfirm(c)
  PROVE  Tracked'
<1> USE DEF Tracked
<1>1. /\ PrimaryShipments(OrderOf(c)) = {} /\ Done(c)
      /\ UNCHANGED <<shipment, manifest, claim>>
      /\ \E ost : \/ order' = WithStatus(OrderOf(c), ost)
                  \/ order' = [order EXCEPT ![OrderOf(c)].status = ost,
                                            ![OrderOf(c)].confirm = FALSE]
  <2>1. req[c].kind \in {"reject", "cancel", "confirm"}
    BY DEF rejectOrder, cancelOrder, kitchenProductionConfirm, Handles
  <2>2. order[OrderOf(c)].status \in {"pending", "coordinating", "rejected"}
    BY <2>1, StatusRead
  <2>3. PrimaryShipments(OrderOf(c)) = {}
    BY <2>2, NoShipmentYet
  <2> QED
    BY <2>3 DEF rejectOrder, cancelOrder, kitchenProductionConfirm, refuseProduction,
       acceptProduction
<1>2. PICK ost : \/ order' = WithStatus(OrderOf(c), ost)
                 \/ order' = [order EXCEPT ![OrderOf(c)].status = ost,
                                           ![OrderOf(c)].confirm = FALSE]
  BY <1>1
<1>3. Become({OrderOf(c)}, ost)
  BY <1>2, OneBecomes
<1>4. OneEach' /\ InStep'
  BY <1>1, <1>3, OrderAlone
<1> QED
  BY <1>1, <1>4, DoneReads

(* A new shipment, of an order that had none. *)
LEMMA ShipmentTracked ==
  ASSUME Typed, OneEach, InStep, NEW o \in Placed, PrimaryShipments(o) = {}, NEW items,
         Become({o}, "approved"), UNCHANGED <<manifest, claim>>,
         shipment' = Append(shipment, NewShipment(o, {o}, o, "preparing", items))
  PROVE  OneEach' /\ InStep'
<1> DEFINE row == NewShipment(o, {o}, o, "preparing", items)
           n == Len(shipment) + 1
<1>1. /\ shipment \in Seq(ShipmentRow)
      /\ DOMAIN shipment' = DOMAIN shipment \cup {n} /\ n \notin DOMAIN shipment
      /\ \A i \in DOMAIN shipment : shipment'[i] = shipment[i] /\ shipment[i].order \in Placed
      /\ shipment'[n] = row
  <2>1. shipment \in Seq(ShipmentRow) /\ \A i \in DOMAIN shipment : shipment[i].order \in Placed
    BY DEF Typed, ShipmentsOK
  <2>3. shipment' = Append(shipment, row)
    OBVIOUS
  <2> HIDE DEF row
  <2>2. /\ Len(shipment) \in Nat /\ DOMAIN shipment = 1..Len(shipment)
        /\ DOMAIN shipment' = 1..(Len(shipment) + 1)
        /\ \A i \in DOMAIN shipment : shipment'[i] = shipment[i]
        /\ shipment'[n] = row
    BY <2>1, <2>3
  <2> QED
    BY <2>1, <2>2
<1>2. /\ row.order = o /\ row.linked = {o} /\ row.group = o /\ row.status = "preparing"
      /\ row.manifest = None /\ row.shipped = FALSE
  BY DEF NewShipment
<1> HIDE DEF row, n
<1>3. \A i \in DOMAIN shipment : shipment[i].order # o
  BY DEF PrimaryShipments
<1>4. OneEach'
  <2>1. \A p \in Placed' : order'[p].group = p
    BY DEF OneEach, Become
  <2>2. \A i \in DOMAIN shipment' :
          shipment'[i].linked = {shipment'[i].order} /\ shipment'[i].group = shipment'[i].order
    BY <1>1, <1>2 DEF OneEach
  <2>3. \A i, j \in DOMAIN shipment' : shipment'[i].order = shipment'[j].order => i = j
    BY <1>1, <1>2, <1>3 DEF OneEach
  <2> QED
    BY <2>1, <2>2, <2>3 DEF OneEach
<1>5. /\ \A i : Claimed(i)' <=> Claimed(i)
      /\ \A k \in DOMAIN claim : claim[k].shipment \in DOMAIN shipment
  BY DEF Claimed, Typed, ClaimsOK
<1>6. ASSUME NEW i \in DOMAIN shipment'
      PROVE  /\ Suits(order'[shipment'[i].order].status, shipment'[i].status)
             /\ shipment'[i].status = "completed" =>
                  (Claimed(i)' <=> order'[shipment'[i].order].status = "claimed")
             /\ shipment'[i].shipped <=> shipment'[i].status \in {"in_transit", "completed"}
             /\ shipment'[i].manifest # None /\ manifest'[shipment'[i].manifest] = "preparing"
                  => Live(i)'
  <2>1. CASE i = n
    <3>1. /\ shipment'[i].order = o /\ shipment'[i].status = "preparing"
          /\ shipment'[i].shipped = FALSE
      BY <1>1, <1>2, <2>1
    <3>2. order'[o].status = "approved"
      BY DEF Become
    <3> QED
      BY <3>1, <3>2 DEF Suits, Live
  <2>2. CASE i \in DOMAIN shipment
    <3>1. /\ Suits(order[shipment[i].order].status, shipment[i].status)
          /\ shipment[i].status = "completed" =>
                  (Claimed(i) <=> order[shipment[i].order].status = "claimed")
          /\ shipment[i].shipped <=> shipment[i].status \in {"in_transit", "completed"}
          /\ shipment[i].manifest # None /\ manifest[shipment[i].manifest] = "preparing"
                  => Live(i)
      BY <2>2 DEF InStep
    <3>2. shipment'[i] = shipment[i] /\ order'[shipment[i].order].status
                                          = order[shipment[i].order].status
      BY <1>1, <1>3, <2>2 DEF Become
    <3> QED
      BY <1>5, <2>2, <3>1, <3>2 DEF Live
  <2> QED
    BY <1>1, <2>1, <2>2
<1>7. \A k \in DOMAIN claim' : shipment'[claim'[k].shipment].status = "completed"
  BY <1>1, <1>5 DEF InStep
<1> QED
  BY <1>4, <1>6, <1>7 DEF InStep

(* Nothing to join: the approved order gets a shipment of its own. *)
LEMMA ApprovalMakes ==
  ASSUME Typed, Tracked, NEW c \in Clients, Handles(c, "approve"), applyApproval(OrderOf(c))
  PROVE  /\ OrderOf(c) \in Placed /\ PrimaryShipments(OrderOf(c)) = {}
         /\ shipment' = Append(shipment, NewShipment(OrderOf(c), {OrderOf(c)}, OrderOf(c),
                                          "preparing", ItemsOf(Taken(OrderOf(c)), FirstLine[OrderOf(c)])))
         /\ Become({OrderOf(c)}, "approved")
<1> USE DEF Tracked
<1>1. OrderOf(c) \in Placed /\ order[OrderOf(c)].status = "pending"
  BY StatusRead DEF Handles, AboutOneOrder
<1>2. PICK o : o = OrderOf(c)
  OBVIOUS
<1>3. PrimaryShipments(o) = {}
  BY <1>1, <1>2, NoShipmentYet
<1>4. order[o].group = o /\ \A i \in DOMAIN shipment : shipment[i].group # o
  BY <1>1, <1>2, <1>3 DEF OneEach, PrimaryShipments
<1>5. shipment' \in ShipmentForOrder(shipment, o, o, Taken(o))
  BY <1>2, <1>4 DEF applyApproval
<1>6. shipment' = Append(shipment, NewShipment(o, {o}, o, "preparing", ItemsOf(Taken(o), FirstLine[o])))
  BY <1>4, <1>5, ShipmentMade DEF NewFor
<1>7. order' = [order EXCEPT ![o].status = "approved", ![o].confirm = FALSE]
  BY <1>2 DEF applyApproval, applySmartOrderApproval
<1>8. Become({o}, "approved")
  BY <1>7, OneBecomes
<1> QED
  BY <1>1, <1>2, <1>3, <1>6, <1>8

LEMMA ApproveTracked ==
  ASSUME OneAtATime, Typed, Tracked, NEW c \in Clients, approveOrder(c)
  PROVE  Tracked'
<1> USE DEF Tracked
<1>1. /\ Handles(c, "approve") /\ Done(c) /\ UNCHANGED <<manifest, claim>>
      /\ \/ rejectOutOfStock(OrderOf(c)) \/ applyApproval(OrderOf(c))
         \/ awaitProduction(OrderOf(c))
  BY DEF approveOrder
<1>2. OrderOf(c) \in Placed /\ PrimaryShipments(OrderOf(c)) = {}
  <2>1. OrderOf(c) \in Placed /\ order[OrderOf(c)].status = "pending"
    BY <1>1, StatusRead DEF Handles, AboutOneOrder
  <2> QED
    BY <2>1, NoShipmentYet
<1>3. CASE rejectOutOfStock(OrderOf(c))
  <2>1. order' = WithStatus(OrderOf(c), "rejected") /\ UNCHANGED shipment
    BY <1>3 DEF rejectOutOfStock
  <2>2. Become({OrderOf(c)}, "rejected")
    BY <2>1, OneBecomes
  <2> QED
    BY <1>1, <1>2, <2>1, <2>2, OrderAlone, DoneReads
<1>4. CASE applyApproval(OrderOf(c))
  <2>1. PICK items : items = ItemsOf(Taken(OrderOf(c)), FirstLine[OrderOf(c)])
    OBVIOUS
  <2>2. /\ shipment' = Append(shipment, NewShipment(OrderOf(c), {OrderOf(c)}, OrderOf(c),
                                          "preparing", items))
        /\ Become({OrderOf(c)}, "approved")
    BY <1>1, <1>4, <2>1, ApprovalMakes
  <2>3. OneEach' /\ InStep'
    BY <1>1, <1>2, <2>2, ShipmentTracked
  <2> QED
    BY <1>1, <2>3, DoneReads
<1>5. CASE awaitProduction(OrderOf(c))
  <2>1. setOrderProductionFlag(OrderOf(c)) /\ UNCHANGED shipment
    BY <1>5 DEF awaitProduction
  <2>2. Become({}, "pending")
    BY <2>1, FlagChanges
  <2>3. LoadsFixed /\ \A i \in DOMAIN shipment : Place(shipment'[i]) = Place(shipment[i])
    BY <2>1, NothingMoves
  <2>4. ClaimsFollow({}) /\ \A i \in DOMAIN shipment : shipment[i].order \notin {}
    BY <1>1, ClaimsChange
  <2>5. OneEach' /\ InStep'
    BY <1>1, <2>2, <2>3, <2>4, NoneMove
  <2> QED
    BY <1>1, <2>5, DoneReads
<1> QED
  BY <1>1, <1>3, <1>4, <1>5

(* The shipment of an approved or picked order is not received, and has no  *)
(* claim.                                                                  *)
LEMMA NotReceived ==
  ASSUME Typed, OneEach, InStep, NEW i \in DOMAIN shipment,
         order[shipment[i].order].status \in {"approved", "picking"}
  PROVE  Live(i) /\ ~Claimed(i) /\ shipment[i].shipped = FALSE
<1>1. shipment[i].status \in ShipmentStatus /\ shipment[i].shipped \in BOOLEAN
  BY ShipmentFacts DEF ShipmentRow
<1>2. Suits(order[shipment[i].order].status, shipment[i].status)
      /\ (shipment[i].shipped <=> shipment[i].status \in {"in_transit", "completed"})
  BY DEF InStep
<1>3. shipment[i].status \in {"preparing", "consolidated"}
  BY <1>1, <1>2 DEF Suits, ShipmentStatus
<1>4. ~Claimed(i)
  BY <1>3 DEF InStep, Claimed
<1> QED
  BY <1>1, <1>2, <1>3, <1>4 DEF Live

(* A picking task is cancelled: nothing of the order, or its one shipment. *)
LEMMA CancelTaskTracked ==
  ASSUME OneAtATime, Typed, Tracked, NEW c \in Clients, cancelPickingTask(c)
  PROVE  Tracked'
<1> USE DEF Tracked
<1>1. PICK o : o = OrderOf(c)
  OBVIOUS
<1>2. o \in Placed /\ order[o].status \in {"approved", "picking"}
  BY <1>1, StatusRead DEF cancelPickingTask, Handles, AboutOneOrder
<1>3. /\ Done(c) /\ UNCHANGED <<manifest, claim>>
      /\ order' = WithStatus(o, "cancelled")
      /\ IF ShipmentsOf(o) = {} THEN UNCHANGED shipment
         ELSE \E i \in ShipmentsOf(o) :
                /\ Cancellable(i) /\ shipment' = [shipment EXCEPT ![i].status = "cancelled"]
  BY <1>1 DEF cancelPickingTask
<1>4. Become({o}, "cancelled") /\ ClaimsFollow({})
  BY <1>3, OneBecomes, ClaimsChange
<1>5. CASE ShipmentsOf(o) = {}
  <2>1. PrimaryShipments(o) = {} /\ UNCHANGED shipment
    BY <1>3, <1>5, OwnShipment
  <2> QED
    BY <1>3, <1>4, <2>1, OrderAlone, DoneReads
<1>6. CASE ShipmentsOf(o) # {}
  <2>1. PICK i \in ShipmentsOf(o) :
          Cancellable(i) /\ shipment' = [shipment EXCEPT ![i].status = "cancelled"]
    BY <1>3, <1>6
  <2>2. i \in DOMAIN shipment /\ shipment[i].order = o
    BY OwnShipment
  <2>3. ~Claimed(i) /\ shipment[i].shipped = FALSE
    BY <1>2, <2>2, NotReceived
  <2>4. Moves({i}, "cancelled", shipment[i].manifest, FALSE)
    BY <2>1, <2>2, <2>3, StatusMoves
  <2>5. shipment[i].manifest = None \/ manifest[shipment[i].manifest] # "preparing"
    BY <2>1 DEF Cancellable
  <2>6. Suits("cancelled", "cancelled") /\ {} \in SUBSET {i}
    BY DEF Suits
  <2>7. OneEach' /\ InStep'
    BY <1>3, <1>4, <2>2, <2>3, <2>4, <2>5, <2>6, OneMoves
  <2> QED
    BY <1>3, <2>7, DoneReads
<1> QED
  BY <1>5, <1>6

LEMMA FinalizeTracked ==
  ASSUME OneAtATime, Typed, Tracked, NEW c \in Clients, finalizeBulkShipment(c)
  PROVE  Tracked'
<1> USE DEF Tracked
<1>1. PICK o : o = OrderOf(c)
  OBVIOUS
<1>2. o \in Placed /\ order[o].status = "approved"
  BY <1>1, StatusRead DEF finalizeBulkShipment, Handles, AboutOneOrder
<1>3. /\ Done(c) /\ UNCHANGED <<manifest, claim>>
      /\ order' = WithStatus(o, "delivering")
      /\ IF PrimaryShipments(o) = {} THEN UNCHANGED shipment
         ELSE \E i \in PrimaryShipments(o) :
                /\ shipment[i].manifest = None
                /\ shipment' = [shipment EXCEPT ![i].status = "in_transit",
                                                ![i].shipped = TRUE]
  BY <1>1 DEF finalizeBulkShipment
<1>4. Become({o}, "delivering") /\ ClaimsFollow({})
  BY <1>3, OneBecomes, ClaimsChange
<1>5. CASE PrimaryShipments(o) = {}
  BY <1>3, <1>4, <1>5, OrderAlone, DoneReads
<1>6. CASE PrimaryShipments(o) # {}
  <2>1. PICK i \in PrimaryShipments(o) :
          /\ shipment[i].manifest = None
          /\ shipment' = [shipment EXCEPT ![i].status = "in_transit", ![i].shipped = TRUE]
    BY <1>3, <1>6
  <2>2. i \in DOMAIN shipment /\ shipment[i].order = o
    BY OwnShipment
  <2>3. ~Claimed(i)
    BY <1>2, <2>2, NotReceived
  <2>4. Moves({i}, "in_transit", shipment[i].manifest, TRUE)
    BY <2>1, <2>2, DispatchMoves
  <2>5. Suits("delivering", "in_transit") /\ {} \in SUBSET {i}
    BY DEF Suits
  <2>6. OneEach' /\ InStep'
    BY <1>3, <1>4, <2>1, <2>2, <2>3, <2>4, <2>5, OneMoves
  <2> QED
    BY <1>3, <2>6, DoneReads
<1> QED
  BY <1>5, <1>6

(* A receipt: the order is claimed when there is a claim on it. *)
LEMMA ReceiveTracked ==
  ASSUME OneAtATime, Typed, Tracked, NEW c \in Clients, receiveShipment(c)
  PROVE  Tracked'
<1> USE DEF Tracked
<1>1. PICK i : i = req[c].target
  OBVIOUS
<1>2. i \in DOMAIN shipment /\ shipment[i].status = "in_transit"
  BY <1>1 DEF Typed, RequestsOK, RequestOK, ReadsHold, ReadHolds, receiveShipment, Handles
<1>3. /\ Done(c) /\ UNCHANGED manifest
      /\ shipment' = [shipment EXCEPT ![i].status = "completed"]
      /\ \E short \in BOOLEAN : \E lost :
           /\ claim' = IF short THEN WithClaim(i, lost) ELSE claim
           /\ order' = WithStatus(shipment[i].order, IF short THEN "claimed" ELSE "completed")
  <2>1. PICK report :
          LET lost == Lost(shipment[i].items, report)
              short == \E k \in DOMAIN shipment[i].items : lost[k].quantity > 0
          IN /\ claim' = IF short THEN WithClaim(i, Goods(lost)) ELSE claim
             /\ order' = WithStatus(shipment[i].order, IF short THEN "claimed" ELSE "completed")
    BY <1>1, ReceiptMade
  <2>2. /\ Done(c) /\ UNCHANGED manifest
        /\ shipment' = [shipment EXCEPT ![i].status = "completed"]
    BY <1>1, ReceiptMade
  <2> QED
    BY <2>1, <2>2
<1>4. PICK short \in BOOLEAN : \E lost :
           /\ claim' = IF short THEN WithClaim(i, lost) ELSE claim
           /\ order' = WithStatus(shipment[i].order, IF short THEN "claimed" ELSE "completed")
  BY <1>3
<1>5. /\ shipment[i].shipped = TRUE /\ ~Claimed(i)
      /\ shipment[i].manifest = None \/ manifest[shipment[i].manifest] # "preparing"
  <2>1. shipment[i].shipped \in BOOLEAN
    BY <1>2, ShipmentFacts DEF ShipmentRow
  <2>2. ~Live(i)
    BY <1>2 DEF Live
  <2> QED
    BY <1>2, <2>1, <2>2 DEF InStep, Claimed
<1>6. Moves({i}, "completed", shipment[i].manifest, TRUE)
  BY <1>2, <1>3, <1>5, StatusMoves
<1>7. CASE short
  <2>1. ClaimsFollow({i}) /\ Become({shipment[i].order}, "claimed")
    BY <1>4, <1>7, ClaimsChange, OneBecomes
  <2>2. Claimed(i)' /\ Suits("claimed", "completed") /\ {i} \in SUBSET {i}
    BY <2>1, ClaimedFollows DEF Suits
  <2>3. OneEach' /\ InStep'
    BY <1>2, <1>3, <1>5, <1>6, <2>1, <2>2, OneMoves
  <2> QED
    BY <1>3, <2>3, DoneReads
<1>8. CASE ~short
  <2>1. ClaimsFollow({}) /\ Become({shipment[i].order}, "completed")
    BY <1>4, <1>8, ClaimsChange, OneBecomes
  <2>2. ~Claimed(i)' /\ Suits("completed", "completed") /\ {} \in SUBSET {i}
    BY <1>5, <2>1, ClaimedFollows DEF Suits
  <2>3. OneEach' /\ InStep'
    BY <1>2, <1>3, <1>5, <1>6, <2>1, <2>2, OneMoves
  <2> QED
    BY <1>3, <2>3, DoneReads
<1> QED
  BY <1>7, <1>8

(* A claim on what was received, and the verdict on one. *)
LEMMA ClaimTracked ==
  ASSUME OneAtATime, Typed, Tracked, NEW c \in Clients, createManualClaim(c) \/ resolveClaim(c)
  PROVE  Tracked'
<1> USE DEF Tracked
<1>1. Done(c) /\ UNCHANGED <<shipment, manifest>>
  BY DEF createManualClaim, resolveClaim
<1>2. LoadsFixed /\ \A j \in DOMAIN shipment : Place(shipment'[j]) = Place(shipment[j])
  BY <1>1, NothingMoves
<1>3. CASE createManualClaim(c)
  <2>1. PICK i : i = req[c].target.shipment
    OBVIOUS
  <2>2. i \in DOMAIN shipment /\ shipment[i].status = "completed"
    BY <1>3, <2>1 DEF Typed, RequestsOK, RequestOK, ReadsHold, ReadHolds, createManualClaim,
       Handles
  <2>3. /\ \E lost : claim' = WithClaim(i, lost)
        /\ order' = WithStatus(shipment[i].order, "claimed")
    BY <1>3, <2>1 DEF createManualClaim
  <2>4. ClaimsFollow({i}) /\ Become({shipment[i].order}, "claimed")
    BY <2>3, ClaimsChange, OneBecomes
  <2>5. Claimed(i)' /\ Suits("claimed", "completed") /\ {i} \in SUBSET {i}
    BY <2>4, ClaimedFollows DEF Suits
  <2>6. Moves({i}, "completed", shipment[i].manifest, shipment[i].shipped)
    BY <1>2, <2>2 DEF Moves, Place
  <2>7. shipment[i].manifest = None \/ manifest[shipment[i].manifest] # "preparing"
    BY <2>2 DEF InStep, Live
  <2>8. shipment[i].shipped <=> "completed" \in {"in_transit", "completed"}
    BY <2>2 DEF InStep
  <2>9. OneEach' /\ InStep'
    BY <1>1, <2>2, <2>4, <2>5, <2>6, <2>7, <2>8, OneMoves
  <2> QED
    BY <1>1, <2>9, DoneReads
<1>4. CASE resolveClaim(c)
  <2>1. req[c].target \in DOMAIN claim /\ UNCHANGED order
        /\ \E verdict : claim' = [claim EXCEPT ![req[c].target].status = verdict]
    BY <1>4 DEF Typed, RequestsOK, RequestOK, resolveClaim, Handles
  <2>2. ClaimsFollow({})
    BY <2>1, ClaimsChange
  <2>3. Become({}, "pending") /\ \A i \in DOMAIN shipment : shipment[i].order \notin {}
    BY <2>1 DEF Become, Placed
  <2>4. OneEach' /\ InStep'
    BY <1>1, <1>2, <2>2, <2>3, NoneMove
  <2> QED
    BY <1>1, <2>4, DoneReads
<1> QED
  BY <1>3, <1>4

(* What the request for a manifest has read: shipments of approved orders,  *)
(* to be put on a new manifest.                                            *)
LEMMA ReadyRead ==
  ASSUME Typed, Tracked, NEW c \in Clients, req[c].kind \in {"manifest", "consolidate"}
  PROVE  /\ req[c].target \in SUBSET DOMAIN shipment
         /\ \A i \in req[c].target :
              /\ shipment[i].status = "preparing" /\ shipment[i].manifest = None
              /\ order[shipment[i].order].status = "approved"
              /\ ~Claimed(i) /\ shipment[i].shipped = FALSE
<1> USE DEF Tracked
<1>1. req[c].target \in SUBSET DOMAIN shipment /\ \A i \in req[c].target : Open(i)
  BY DEF Typed, RequestsOK, RequestOK, ReadsHold, ReadHolds
<1>2. ASSUME NEW i \in req[c].target PROVE ~Claimed(i) /\ shipment[i].shipped = FALSE
  BY <1>1, NotReceived DEF Open
<1> QED
  BY <1>1, <1>2 DEF Open

(* A new manifest is on no shipment yet. *)
LEMMA NewManifest ==
  ASSUME Typed, NEW m \in Manifests \ DOMAIN manifest,
         manifest' = [n \in DOMAIN manifest \cup {m} |->
                        IF n = m THEN "preparing" ELSE manifest[n]]
  PROVE  \A i \in DOMAIN shipment :
           /\ shipment[i].manifest # m
           /\ shipment[i].manifest # None =>
                manifest'[shipment[i].manifest] = manifest[shipment[i].manifest]
<1>1. \A i \in DOMAIN shipment : shipment[i].manifest \in DOMAIN manifest \cup {None}
  BY ShipmentFacts
<1>2. m # None
  BY FulfilmentAssumption
<1> QED
  BY <1>1, <1>2

LEMMA ManifestTracked ==
  ASSUME OneAtATime, Typed, Tracked, NEW c \in Clients, createManifest(c)
  PROVE  Tracked'
<1> USE DEF Tracked
<1>1. PICK S : S = req[c].target
  OBVIOUS
<1>2. PICK m \in Manifests \ DOMAIN manifest :
        /\ manifest' = [n \in DOMAIN manifest \cup {m} |->
                          IF n = m THEN "preparing" ELSE manifest[n]]
        /\ shipment' = [i \in DOMAIN shipment |->
                         IF i \in S THEN [shipment[i] EXCEPT !.manifest = m]
                         ELSE shipment[i]]
  BY <1>1 DEF createManifest
<1>3. /\ S \in SUBSET DOMAIN shipment
      /\ \A i \in S : shipment[i].status = "preparing"
  BY <1>1, ReadyRead DEF createManifest, Handles
<1>4. Done(c) /\ UNCHANGED <<order, claim>>
  BY DEF createManifest
<1>5. /\ LoadsFixed
      /\ \A i \in DOMAIN shipment :
           Place(shipment'[i]) = IF i \in S THEN <<shipment[i].status, m, shipment[i].shipped>>
                                 ELSE Place(shipment[i])
  BY <1>2, AttachMoves
<1>6. \A i \in DOMAIN shipment :
        /\ shipment'[i].status = shipment[i].status
        /\ shipment'[i].shipped = shipment[i].shipped
        /\ shipment'[i].manifest = IF i \in S THEN m ELSE shipment[i].manifest
  BY <1>5 DEF Place
<1>7. ASSUME NEW i \in DOMAIN shipment, shipment'[i].manifest # None,
             manifest'[shipment'[i].manifest] = "preparing"
      PROVE  Live(i)'
  <2>1. CASE i \in S
    BY <1>3, <1>6, <2>1 DEF Live
  <2>2. CASE i \notin S
    <3>1. shipment[i].manifest # None /\ manifest[shipment[i].manifest] = "preparing"
      BY <1>2, <1>6, <1>7, <2>2, NewManifest
    <3>2. Live(i)
      BY <3>1 DEF InStep
    <3> QED
      BY <1>6, <3>2 DEF Live
  <2> QED
    BY <2>1, <2>2
<1>8. OneEach' /\ InStep'
  <2>1. /\ \A i : Claimed(i)' <=> Claimed(i)
        /\ \A k \in DOMAIN claim : claim[k].shipment \in DOMAIN shipment
    BY <1>4 DEF Claimed, Typed, ClaimsOK
  <2>2. /\ DOMAIN shipment' = DOMAIN shipment
        /\ \A i \in DOMAIN shipment : /\ shipment'[i].order = shipment[i].order
                                      /\ shipment'[i].linked = shipment[i].linked
                                      /\ shipment'[i].group = shipment[i].group
    BY <1>5 DEF LoadsFixed, SameLoad
  <2>3. OneEach'
    BY <1>4, <2>2 DEF OneEach, Placed
  <2>4. InStep'
    BY <1>4, <1>6, <1>7, <2>1, <2>2 DEF InStep
  <2> QED
    BY <2>3, <2>4
<1> QED
  BY <1>4, <1>8, DoneReads

(* Consolidation: the orders of the shipments are picked. *)
LEMMA ConsolidateTracked ==
  ASSUME OneAtATime, Typed, Tracked, NEW c \in Clients, consolidateManifestOrders(c)
  PROVE  Tracked'
<1> USE DEF Tracked
<1>1. PICK S : S = req[c].target
  OBVIOUS
<1>2. PICK m \in Manifests \ DOMAIN manifest :
        /\ manifest' = [n \in DOMAIN manifest \cup {m} |->
                          IF n = m THEN "preparing" ELSE manifest[n]]
        /\ shipment' = [i \in DOMAIN shipment |->
                         IF i \in S THEN [shipment[i] EXCEPT !.manifest = m,
                                                             !.status = "consolidated"]
                         ELSE shipment[i]]
  BY <1>1 DEF consolidateManifestOrders
<1>3. /\ S \in SUBSET DOMAIN shipment
      /\ \A i \in S : ~Claimed(i) /\ shipment[i].shipped = FALSE
  BY <1>1, ReadyRead DEF consolidateManifestOrders, Handles
<1>4. PICK O : O = {shipment[i].order : i \in S}
  OBVIOUS
<1>5. Done(c) /\ UNCHANGED claim /\ ClaimsFollow({})
  BY ClaimsChange DEF consolidateManifestOrders
<1>6. Become(O, "picking")
  <2>1. order' = [o \in Placed |-> IF o \in O THEN [order[o] EXCEPT !.status = "picking",
                                                                   !.slip = TRUE]
                                   ELSE order[o]]
    BY <1>1, <1>4 DEF consolidateManifestOrders
  <2> QED
    BY <2>1, SomeBecome
<1>7. /\ LoadsFixed
      /\ \A i \in DOMAIN shipment :
           Place(shipment'[i]) = IF i \in S THEN <<"consolidated", m, shipment[i].shipped>>
                                 ELSE Place(shipment[i])
  BY <1>2, ManifestMoves
<1>8. \A i \in DOMAIN shipment :
        /\ shipment'[i].status = IF i \in S THEN "consolidated" ELSE shipment[i].status
        /\ shipment'[i].shipped = shipment[i].shipped
        /\ shipment'[i].manifest = IF i \in S THEN m ELSE shipment[i].manifest
  BY <1>7 DEF Place
<1>9. ASSUME NEW i \in DOMAIN shipment, shipment'[i].manifest # None,
             manifest'[shipment'[i].manifest] = "preparing"
      PROVE  Live(i)'
  <2>1. CASE i \in S
    BY <1>8, <2>1 DEF Live
  <2>2. CASE i \notin S
    <3>1. shipment[i].manifest # None /\ manifest[shipment[i].manifest] = "preparing"
      BY <1>2, <1>8, <1>9, <2>2, NewManifest
    <3>2. Live(i)
      BY <3>1 DEF InStep
    <3> QED
      BY <1>8, <2>2, <3>2 DEF Live
  <2> QED
    BY <2>1, <2>2
<1>10. \A i \in DOMAIN shipment : shipment[i].order \in O <=> i \in S
  BY <1>3, <1>4 DEF OneEach
<1>11. /\ \A i : Claimed(i)' <=> Claimed(i)
       /\ \A k \in DOMAIN claim' :
            /\ claim'[k].shipment \in DOMAIN shipment /\ claim'[k].shipment \notin S
            /\ shipment[claim'[k].shipment].status = "completed"
  BY <1>3, <1>5, ClaimedFollows
<1>12. \A k \in DOMAIN claim' : /\ claim'[k].shipment \in DOMAIN shipment
                                /\ shipment'[claim'[k].shipment].status = "completed"
  BY <1>8, <1>11
<1>13. \A i \in S : /\ shipment'[i].status = "consolidated"
                    /\ shipment'[i].shipped <=> "consolidated" \in {"in_transit", "completed"}
                    /\ Suits("picking", "consolidated")
                    /\ "consolidated" = "completed" => (Claimed(i)' <=> "picking" = "claimed")
  BY <1>3, <1>8 DEF Suits
<1>14. \A i \in DOMAIN shipment : i \notin S =>
         /\ shipment'[i].status = shipment[i].status
         /\ shipment'[i].shipped = shipment[i].shipped
         /\ Claimed(i)' <=> Claimed(i)
  BY <1>8, <1>11
<1>15. OneEach' /\ InStep'
  BY <1>3, <1>6, <1>7, <1>9, <1>10, <1>12, <1>13, <1>14, StepTogether
<1> QED
  BY <1>5, <1>15, DoneReads

(* What a departure has read is what is on the truck. *)
LEMMA DepartureRead ==
  ASSUME Typed, Tracked, NEW c \in Clients, req[c].kind = "depart"
  PROVE  \E m, load :
           /\ m = req[c].target.manifest /\ load = req[c].target.load
           /\ m \in DOMAIN manifest /\ manifest[m] = "preparing"
           /\ DOMAIN load = OnManifest(m) /\ DOMAIN load \in SUBSET DOMAIN shipment
           /\ \A i \in DOMAIN load :
                /\ load[i] = Goods(shipment[i].items) /\ shipment[i].manifest = m
                /\ Live(i) /\ ~Claimed(i) /\ shipment[i].shipped = FALSE
<1> USE DEF Tracked
<1>0. PICK m, load : m = req[c].target.manifest /\ load = req[c].target.load
  OBVIOUS
<1>1. ReadHolds(req[c]) /\ RequestOK(req[c])
  BY DEF ReadsHold, Typed, RequestsOK
<1>2. /\ m \in DOMAIN manifest /\ manifest[m] = "preparing"
      /\ DOMAIN load = OnManifest(m)
      /\ \A i \in OnManifest(m) : load[i] = Goods(shipment[i].items)
  BY <1>0, <1>1 DEF ReadHolds, RequestOK
<1>3. m # None
  BY <1>2, FulfilmentAssumption DEF Typed, ManifestsOK
<1>4. ASSUME NEW i \in OnManifest(m)
      PROVE  /\ i \in DOMAIN shipment /\ shipment[i].manifest = m
             /\ Live(i) /\ ~Claimed(i) /\ shipment[i].shipped = FALSE
  <2>1. i \in DOMAIN shipment /\ shipment[i].manifest = m
    BY DEF OnManifest
  <2>2. Live(i)
    BY <1>2, <1>3, <2>1 DEF InStep
  <2>3. ~Claimed(i)
    BY <2>2 DEF InStep, Live, Claimed
  <2>4. shipment[i].shipped = FALSE
    BY <2>1, <2>2, ShipmentFacts DEF InStep, Live, ShipmentRow
  <2> QED
    BY <2>1, <2>2, <2>3, <2>4
<1>5. DOMAIN load \in SUBSET DOMAIN shipment
  BY <1>2, <1>4
<1>6. \A i \in DOMAIN load :
        /\ load[i] = Goods(shipment[i].items) /\ shipment[i].manifest = m
        /\ Live(i) /\ ~Claimed(i) /\ shipment[i].shipped = FALSE
  BY <1>2, <1>4
<1> QED
  BY <1>0, <1>2, <1>5, <1>6

(* A truck leaves, and the orders of what it carries are delivering.        *)
LEMMA DepartureTracked ==
  ASSUME OneAtATime, Typed, Tracked, NEW c \in Clients, confirmManifestDeparture(c)
  PROVE  Tracked'
<1> USE DEF Tracked
<1>1. req[c].kind = "depart"
  BY DEF confirmManifestDeparture, Handles
<1>2. PICK m, load :
        /\ m = req[c].target.manifest /\ load = req[c].target.load
        /\ m \in DOMAIN manifest /\ manifest[m] = "preparing"
        /\ DOMAIN load = OnManifest(m) /\ DOMAIN load \in SUBSET DOMAIN shipment
        /\ \A i \in DOMAIN load :
             /\ load[i] = Goods(shipment[i].items) /\ shipment[i].manifest = m
             /\ Live(i) /\ ~Claimed(i) /\ shipment[i].shipped = FALSE
  BY <1>1, DepartureRead
<1>3. /\ m \in DOMAIN manifest /\ DOMAIN load = OnManifest(m)
      /\ DOMAIN load \in SUBSET DOMAIN shipment
      /\ \A i \in DOMAIN load : ~Claimed(i)
  BY <1>2
<1>4. PICK S : S = DOMAIN load
  OBVIOUS
<1>5. PICK O : O = {o \in Placed : \E i \in S : shipment[i].order = o}
  OBVIOUS
<1>6. Done(c) /\ UNCHANGED claim /\ ClaimsFollow({})
      /\ manifest' = [manifest EXCEPT ![m] = "departed"]
  BY <1>2, ClaimsChange DEF confirmManifestDeparture
<1>7. Become(O, "delivering")
  <2>1. order' = [o \in Placed |-> IF o \in O THEN [order[o] EXCEPT !.status = "delivering"]
                                   ELSE order[o]]
    BY <1>2, <1>4, <1>5 DEF confirmManifestDeparture
  <2> QED
    BY <2>1, SomeBecome
<1>8. /\ LoadsFixed
      /\ \A i \in DOMAIN shipment :
           Place(shipment'[i]) = IF i \in S THEN <<"in_transit", shipment[i].manifest, TRUE>>
                                 ELSE Place(shipment[i])
  <2>1. shipment' = [i \in DOMAIN shipment |->
                       IF i \in S
                       THEN [shipment[i] EXCEPT !.status = "in_transit", !.shipped = TRUE]
                       ELSE shipment[i]]
    BY <1>2, <1>4 DEF confirmManifestDeparture
  <2> QED
    BY <2>1, TruckMoves
<1>9. \A i \in DOMAIN shipment :
        /\ shipment'[i].status = IF i \in S THEN "in_transit" ELSE shipment[i].status
        /\ shipment'[i].shipped = IF i \in S THEN TRUE ELSE shipment[i].shipped
        /\ shipment'[i].manifest = shipment[i].manifest
  BY <1>8 DEF Place
<1>10. ASSUME NEW i \in DOMAIN shipment, shipment'[i].manifest # None,
             manifest'[shipment'[i].manifest] = "preparing"
      PROVE  Live(i)'
  <2>1. shipment[i].manifest \in DOMAIN manifest
    BY <1>9, <1>10, ShipmentFacts
  <2>2. shipment[i].manifest # m /\ manifest[shipment[i].manifest] = "preparing"
    BY <1>3, <1>6, <1>9, <1>10, <2>1
  <2>3. i \notin S /\ Live(i)
    BY <1>3, <1>4, <1>9, <1>10, <2>2 DEF InStep, OnManifest
  <2> QED
    BY <1>9, <2>3 DEF Live
<1>11. \A i \in DOMAIN shipment : shipment[i].order \in O <=> i \in S
  <2>1. \A i \in DOMAIN shipment : shipment[i].order \in Placed
    BY ShipmentFacts
  <2> QED
    BY <1>3, <1>4, <1>5, <2>1 DEF OneEach
<1>12. /\ \A i : Claimed(i)' <=> Claimed(i)
       /\ \A k \in DOMAIN claim' :
            /\ claim'[k].shipment \in DOMAIN shipment /\ claim'[k].shipment \notin S
            /\ shipment[claim'[k].shipment].status = "completed"
  BY <1>3, <1>4, <1>6, ClaimedFollows
<1>13. \A k \in DOMAIN claim' : /\ claim'[k].shipment \in DOMAIN shipment
                                /\ shipment'[claim'[k].shipment].status = "completed"
  BY <1>9, <1>12
<1>14. \A i \in S : /\ shipment'[i].status = "in_transit"
                    /\ shipment'[i].shipped <=> "in_transit" \in {"in_transit", "completed"}
                    /\ Suits("delivering", "in_transit")
                    /\ "in_transit" = "completed" => (Claimed(i)' <=> "delivering" = "claimed")
  BY <1>3, <1>4, <1>9 DEF Suits
<1>15. \A i \in DOMAIN shipment : i \notin S =>
         /\ shipment'[i].status = shipment[i].status
         /\ shipment'[i].shipped = shipment[i].shipped
         /\ Claimed(i)' <=> Claimed(i)
  BY <1>9, <1>12
<1>16. OneEach' /\ InStep'
  BY <1>3, <1>4, <1>7, <1>8, <1>10, <1>11, <1>13, <1>14, <1>15, StepTogether
<1> QED
  BY <1>6, <1>16, DoneReads

(* A new order: no other is for its store and its day. *)
LEMMA CreateTracked ==
  ASSUME OwnShipments, Typed, Tracked, NEW o \in Orders, createOrder(o)
  PROVE  Tracked'
<1> USE DEF Tracked
<1>1. /\ o \notin Placed /\ Placed' = Placed \cup {o}
      /\ \A p \in Placed : order'[p] = order[p]
      /\ order'[o].group \in {o} \cup OpenGroups(o)
      /\ UNCHANGED <<shipment, manifest, claim, req>>
  BY OrderCreated
<1>2. OpenGroups(o) = {}
  <2>1. Placed \subseteq Orders
    BY DEF Typed, OrdersOK
  <2> QED
    BY <1>1, <2>1 DEF OpenGroups, OwnShipments, SameTrip
<1>3. \A i \in DOMAIN shipment : shipment[i].order \in Placed
  BY ShipmentFacts
<1>4. OneEach'
  BY <1>1, <1>2, <1>3 DEF OneEach
<1>5. (\A i : Claimed(i)' <=> Claimed(i)) /\ (\A i : Live(i)' <=> Live(i))
  BY <1>1 DEF Claimed, Live
<1>6. InStep'
  BY <1>1, <1>3, <1>5 DEF InStep
<1>7. LoadsFixed /\ \A i \in DOMAIN shipment : Place(shipment'[i]) = Place(shipment[i])
  BY <1>1, NothingMoves
<1>8. ShipmentsOK'
  BY CreateTyped DEF Typed
<1>9. ReadsHold'
  BY <1>1, <1>7, <1>8, ReadsKept
<1> QED
  BY <1>4, <1>6, <1>9

(* A scan, and the next day. *)
LEMMA EnvironmentTracked ==
  ASSUME Typed, Tracked,
         \/ cronExpireBatches
         \/ \E i \in DOMAIN shipment : \E k \in DOMAIN shipment[i].items :
              verifyManifestItem(i, k)
  PROVE  Tracked'
<1> USE DEF Tracked
<1>1. LoadsFixed /\ \A i \in DOMAIN shipment : Place(shipment'[i]) = Place(shipment[i])
  BY NothingMoves, ScanMoves DEF cronExpireBatches
<1>2. UNCHANGED <<order, manifest, claim, req>>
  BY DEF cronExpireBatches, verifyManifestItem
<1>3. Become({}, "pending") /\ \A i \in DOMAIN shipment : shipment[i].order \notin {}
  BY <1>2 DEF Become, Placed
<1>4. ClaimsFollow({})
  BY <1>2, ClaimsChange
<1>5. OneEach' /\ InStep'
  BY <1>1, <1>2, <1>3, <1>4, NoneMove
<1>6. ShipmentsOK'
  BY ExpireTyped, VerifyTyped DEF Typed
<1>7. ReadsHold'
  BY <1>1, <1>2, <1>6, ReadsKept
<1> QED
  BY <1>5, <1>7

(* A request that arrives reads what is there; one that fails leaves all.   *)
LEMMA NothingTracked ==
  ASSUME Typed, OneEach, InStep, UNCHANGED <<order, shipment, manifest, claim>>
  PROVE  OneEach' /\ InStep'
<1>1. (\A i : Claimed(i)' <=> Claimed(i)) /\ (\A i : Live(i)' <=> Live(i)) /\ Placed' = Placed
  BY DEF Claimed, Live, Placed
<1> QED
  BY <1>1 DEF OneEach, InStep

(* What a request has read is so when it arrives. *)
LEMMA OrderArrivalsRead ==
  ASSUME NEW c \in Clients,
         \/ ArriveApprove(c) \/ ArriveConfirm(c) \/ ArriveReject(c) \/ ArriveCancel(c)
         \/ ArriveCancelTask(c) \/ ArriveFinalize(c) \/ ArriveReceive(c)
  PROVE  \E kind \in Workflow : \E S, target :
            /\ Arrive(c, kind, S, target)
            /\ ReadHolds([kind |-> kind, orders |-> S, target |-> target])
<1>1. CASE ArriveApprove(c)
  <2>1. PICK o \in Placed : order[o].status = "pending" /\ Arrive(c, "approve", {o}, None)
    BY <1>1 DEF ArriveApprove
  <2>2. ReadHolds([kind |-> "approve", orders |-> {o}, target |-> None])
    BY <2>1 DEF ReadHolds
  <2> QED
    BY <2>1, <2>2 DEF Workflow
<1>2. CASE ArriveConfirm(c)
  <2>1. PICK o \in Placed : order[o].status \in {"coordinating", "pending"}
                            /\ Arrive(c, "confirm", {o}, None)
    BY <1>2 DEF ArriveConfirm
  <2>2. ReadHolds([kind |-> "confirm", orders |-> {o}, target |-> None])
    BY <2>1 DEF ReadHolds
  <2> QED
    BY <2>1, <2>2 DEF Workflow
<1>3. CASE ArriveReject(c)
  <2>1. PICK o \in Placed : order[o].status = "pending" /\ Arrive(c, "reject", {o}, None)
    BY <1>3 DEF ArriveReject
  <2>2. ReadHolds([kind |-> "reject", orders |-> {o}, target |-> None])
    BY <2>1 DEF ReadHolds
  <2> QED
    BY <2>1, <2>2 DEF Workflow
<1>4. CASE ArriveCancel(c)
  <2>1. PICK o \in Placed : order[o].status = "pending" /\ Arrive(c, "cancel", {o}, None)
    BY <1>4 DEF ArriveCancel
  <2>2. ReadHolds([kind |-> "cancel", orders |-> {o}, target |-> None])
    BY <2>1 DEF ReadHolds
  <2> QED
    BY <2>1, <2>2 DEF Workflow
<1>5. CASE ArriveCancelTask(c)
  <2>1. PICK o \in Placed : order[o].status \in {"approved", "picking"}
                            /\ Arrive(c, "cancelTask", {o}, None)
    BY <1>5 DEF ArriveCancelTask
  <2>2. ReadHolds([kind |-> "cancelTask", orders |-> {o}, target |-> None])
    BY <2>1 DEF ReadHolds
  <2> QED
    BY <2>1, <2>2 DEF Workflow
<1>6. CASE ArriveFinalize(c)
  <2>1. PICK o \in Placed : order[o].status = "approved" /\ Arrive(c, "finalize", {o}, None)
    BY <1>6 DEF ArriveFinalize
  <2>2. ReadHolds([kind |-> "finalize", orders |-> {o}, target |-> None])
    BY <2>1 DEF ReadHolds
  <2> QED
    BY <2>1, <2>2 DEF Workflow
<1>7. CASE ArriveReceive(c)
  <2>1. PICK i \in DOMAIN shipment :
          shipment[i].status = "in_transit" /\ Arrive(c, "receive", {}, i)
    BY <1>7 DEF ArriveReceive
  <2>2. ReadHolds([kind |-> "receive", orders |-> {}, target |-> i])
    BY <2>1 DEF ReadHolds
  <2> QED
    BY <2>1, <2>2 DEF Workflow
<1> QED
  BY <1>1, <1>2, <1>3, <1>4, <1>5, <1>6, <1>7

LEMMA OrderArrivalsTracked ==
  ASSUME Normal, Typed, Tracked, NEW c \in Clients,
         \/ ArriveApprove(c) \/ ArriveConfirm(c) \/ ArriveReject(c) \/ ArriveCancel(c)
         \/ ArriveCancelTask(c) \/ ArriveFinalize(c) \/ ArriveReceive(c)
  PROVE  Tracked'
<1> USE DEF Tracked, Normal
<1>1. \E kind \in Workflow : \E S, target :
           /\ Arrive(c, kind, S, target)
           /\ ReadHolds([kind |-> kind, orders |-> S, target |-> target])
  BY OrderArrivalsRead
<1>2. ReadsHold'
  BY <1>1, ArrivalReads
<1>3. UNCHANGED <<order, shipment, manifest, claim>>
  BY <1>1 DEF Arrive
<1> QED
  BY <1>2, <1>3, NothingTracked

LEMMA OtherArrivalsRead ==
  ASSUME NEW c \in Clients,
         \/ ArriveManifest(c) \/ ArriveConsolidate(c) \/ ArriveDeparture(c)
         \/ ArriveClaim(c) \/ ArriveResolve(c)
  PROVE  \E kind \in Workflow : \E S, target :
            /\ Arrive(c, kind, S, target)
            /\ ReadHolds([kind |-> kind, orders |-> S, target |-> target])
<1>1. CASE ArriveManifest(c) \/ ArriveConsolidate(c)
  <2>1. PICK kind \in {"manifest", "consolidate"} : \E S \in SUBSET Placed :
          /\ \A o \in S : order[o].status = "approved"
          /\ Arrive(c, kind, S, ReadyFor(S))
    BY <1>1 DEF ArriveManifest, ArriveConsolidate
  <2>2. PICK S \in SUBSET Placed :
          /\ \A o \in S : order[o].status = "approved"
          /\ Arrive(c, kind, S, ReadyFor(S))
    BY <2>1
  <2>3. PICK target : target = ReadyFor(S)
    OBVIOUS
  <2>4. \A i \in target : Open(i)
    BY <2>2, <2>3 DEF ReadyFor, Open
  <2>5. ReadHolds([kind |-> kind, orders |-> S, target |-> target])
    BY <2>1, <2>4 DEF ReadHolds
  <2> QED
    BY <2>1, <2>2, <2>3, <2>5 DEF Workflow
<1>2. CASE ArriveDeparture(c)
  <2>1. PICK m \in DOMAIN manifest :
          /\ manifest[m] = "preparing"
          /\ Arrive(c, "depart", {},
               [manifest |-> m,
                load |-> [i \in OnManifest(m) |-> Goods(shipment[i].items)]])
    BY <1>2 DEF ArriveDeparture
  <2>2. PICK load : load = [i \in OnManifest(m) |-> Goods(shipment[i].items)]
    OBVIOUS
  <2>3. PICK target : target = [manifest |-> m, load |-> load]
    OBVIOUS
  <2>4. /\ target.manifest = m /\ target.load = load
        /\ DOMAIN load = OnManifest(m)
        /\ \A i \in OnManifest(m) : load[i] = Goods(shipment[i].items)
    BY <2>2, <2>3
  <2>5. ReadHolds([kind |-> "depart", orders |-> {}, target |-> target])
    BY <2>1, <2>4 DEF ReadHolds
  <2> QED
    BY <2>1, <2>2, <2>3, <2>5 DEF Workflow
<1>3. CASE ArriveClaim(c)
  <2>1. PICK i \in DOMAIN shipment : \E lost :
          /\ shipment[i].status = "completed"
          /\ Arrive(c, "claim", {}, [shipment |-> i, lost |-> lost])
    BY <1>3 DEF ArriveClaim
  <2>2. PICK lost : Arrive(c, "claim", {}, [shipment |-> i, lost |-> lost])
    BY <2>1
  <2>3. PICK target : target = [shipment |-> i, lost |-> lost]
    OBVIOUS
  <2>4. ReadHolds([kind |-> "claim", orders |-> {}, target |-> target])
    BY <2>1, <2>3 DEF ReadHolds
  <2> QED
    BY <2>2, <2>3, <2>4 DEF Workflow
<1>4. CASE ArriveResolve(c)
  <2>1. PICK k \in DOMAIN claim : Arrive(c, "resolve", {}, k)
    BY <1>4 DEF ArriveResolve
  <2>2. ReadHolds([kind |-> "resolve", orders |-> {}, target |-> k])
    BY DEF ReadHolds
  <2> QED
    BY <2>1, <2>2 DEF Workflow
<1> QED
  BY <1>1, <1>2, <1>3, <1>4

LEMMA OtherArrivalsTracked ==
  ASSUME Normal, Typed, Tracked, NEW c \in Clients,
         \/ ArriveManifest(c) \/ ArriveConsolidate(c) \/ ArriveDeparture(c)
         \/ ArriveClaim(c) \/ ArriveResolve(c)
  PROVE  Tracked'
<1> USE DEF Tracked, Normal
<1>1. \E kind \in Workflow : \E S, target :
           /\ Arrive(c, kind, S, target)
           /\ ReadHolds([kind |-> kind, orders |-> S, target |-> target])
  BY OtherArrivalsRead
<1>2. ReadsHold'
  BY <1>1, ArrivalReads
<1>3. UNCHANGED <<order, shipment, manifest, claim>>
  BY <1>1 DEF Arrive
<1> QED
  BY <1>2, <1>3, NothingTracked

(* The endpoints of a coordinator are not served. *)
LEMMA NoOverrides ==
  ASSUME Normal, ReadsHold, NEW c \in Clients
  PROVE  /\ ~ArriveForceCancel(c) /\ ~forceCancelOrder(c)
         /\ ~ArriveInquiry(c) /\ ~sendCoordinationInquiry(c)
         /\ ~ArriveBatchApprove(c) /\ ~batchApproveByAllocation(c)
         /\ ~ArriveIssue(c) /\ ~reportManifestBatchIssue(c)
         /\ ~ArriveCancelManifest(c) /\ ~cancelManifest(c)
<1>1. \A kind \in {"forceCancel", "inquiry", "batchApprove", "issue", "cancelManifest"} :
        /\ ~Serves(kind) /\ req[c].kind # kind
  BY DEF Normal, Serves, Workflow, ReadsHold
<1>2. /\ ~forceCancelOrder(c) /\ ~sendCoordinationInquiry(c) /\ ~batchApproveByAllocation(c)
      /\ ~reportManifestBatchIssue(c) /\ ~cancelManifest(c)
  BY <1>1 DEF forceCancelOrder, sendCoordinationInquiry, batchApproveByAllocation,
     reportManifestBatchIssue, cancelManifest, Handles
<1>3. /\ ~ArriveForceCancel(c) /\ ~ArriveInquiry(c) /\ ~ArriveBatchApprove(c)
      /\ ~ArriveIssue(c) /\ ~ArriveCancelManifest(c)
  BY <1>1 DEF ArriveForceCancel, ArriveInquiry, ArriveBatchApprove, ArriveIssue,
     ArriveCancelManifest, Arrive
<1> QED
  BY <1>2, <1>3

LEMMA InitTracked == Init => Tracked
<1> SUFFICES ASSUME Init PROVE Tracked
  OBVIOUS
<1>1. Placed = {} /\ DOMAIN shipment = {} /\ DOMAIN claim = {}
  BY DEF Init, Placed
<1>2. ASSUME NEW c \in Clients PROVE req[c].kind = "idle" /\ ReadHolds(req[c])
  <2>1. req[c] = Idle
    BY DEF Init
  <2> QED
    BY <2>1 DEF Idle, ReadHolds
<1> QED
  BY <1>1, <1>2 DEF Tracked, OneEach, InStep, ReadsHold

LEMMA NextTracked ==
  Normal /\ Typed /\ Tracked /\ [Next]_vars => Tracked'
<1> SUFFICES ASSUME Normal, Typed, Tracked, [Next]_vars PROVE Tracked'
  OBVIOUS
<1> USE DEF Normal
<1>1. CASE UNCHANGED vars
  <2>1. UNCHANGED <<order, shipment, manifest, claim, req>>
    BY <1>1 DEF vars
  <2>2. LoadsFixed /\ \A i \in DOMAIN shipment : Place(shipment'[i]) = Place(shipment[i])
    BY <2>1, NothingMoves
  <2>3. ShipmentsOK'
    BY <2>1 DEF Typed, ShipmentsOK, Placed
  <2> QED
    BY <2>1, <2>2, <2>3, ReadsKept, NothingTracked DEF Tracked
<1>2. ASSUME NEW o \in Orders, createOrder(o) PROVE Tracked'
  BY <1>2, CreateTracked
<1>3. ASSUME NEW c \in Clients, OrderRequest(c) PROVE Tracked'
  BY <1>3, NoOverrides, ApproveTracked, DecisionTracked, ReceiveTracked, OrderArrivalsTracked
     DEF OrderRequest, Tracked
<1>4. ASSUME NEW c \in Clients, WarehouseRequest(c) PROVE Tracked'
  BY <1>4, NoOverrides, CancelTaskTracked, FinalizeTracked, ManifestTracked, ConsolidateTracked,
     DepartureTracked, OrderArrivalsTracked, OtherArrivalsTracked DEF WarehouseRequest, Tracked
<1>5. ASSUME NEW c \in Clients, ClaimRequest(c) PROVE Tracked'
  BY <1>5, ClaimTracked, OtherArrivalsTracked DEF ClaimRequest
<1>6. ASSUME NEW c \in Clients, Fail(c) PROVE Tracked'
  BY <1>6, DoneReads, NothingTracked DEF Fail, Tracked
<1>7. CASE \/ cronExpireBatches
           \/ \E i \in DOMAIN shipment : \E k \in DOMAIN shipment[i].items :
                verifyManifestItem(i, k)
  BY <1>7, EnvironmentTracked
<1> QED
  BY <1>1, <1>2, <1>3, <1>4, <1>5, <1>6, <1>7 DEF Next

(* Handled one request at a time, without the coordinator's overrides, and  *)
(* with a shipment of its own for each order, an order, its shipment and    *)
(* the claims on it always agree (SupplyChain!OrderFollowsShipment).        *)
THEOREM OrdersFollowShipments ==
  ASSUME Normal
  PROVE  Spec => []OrderFollowsShipment
<1>1. Init => Typed /\ Tracked
  BY InitTyped, InitTracked
<1>2. Typed /\ Tracked /\ [Next]_vars => Typed' /\ Tracked'
  BY NextTyped, NextTracked
<1>3. Typed /\ Tracked => OrderFollowsShipment
  <2> SUFFICES ASSUME Typed, Tracked, NEW i \in DOMAIN shipment, NEW o \in shipment[i].linked
               PROVE  Follows(order[o].status, i)
    BY DEF OrderFollowsShipment
  <2>1. o = shipment[i].order
    BY DEF Tracked, OneEach
  <2>2. shipment[i].status \in ShipmentStatus
    BY ShipmentFacts DEF ShipmentRow
  <2>3. /\ Suits(order[o].status, shipment[i].status)
        /\ shipment[i].status = "completed" => (Claimed(i) <=> order[o].status = "claimed")
    BY <2>1 DEF Tracked, InStep
  <2>4. CASE Live(i)
    BY <2>3, <2>4 DEF Follows, Suits, Live
  <2>5. CASE shipment[i].status = "in_transit"
    BY <2>3, <2>5 DEF Follows, Suits, Live
  <2>6. CASE shipment[i].status = "completed"
    BY <2>3, <2>6 DEF Follows, Suits, Live
  <2>7. CASE shipment[i].status = "cancelled"
    BY <2>3, <2>7 DEF Follows, Suits, Live
  <2> QED
    BY <2>2, <2>4, <2>5, <2>6, <2>7 DEF Live, ShipmentStatus
<1> QED
  BY <1>1, <1>2, <1>3, PTL DEF Spec

(* A step that leaves the closed orders alone, save for a claim.           *)
ClosedStay ==
  \A o \in Placed : order[o].status \in Closed =>
    \/ order'[o].status = order[o].status
    \/ order[o].status = "completed" /\ order'[o].status = "claimed"

LEMMA OthersBecome ==
  ASSUME NEW O, NEW ost, Become(O, ost),
         \A o \in O : o \in Placed => \/ order[o].status \notin Closed
                                      \/ order[o].status \in {"completed", "claimed"}
                                         /\ ost = "claimed"
  PROVE  ClosedStay
  BY DEF ClosedStay, Become

LEMMA NextClosed ==
  ASSUME Normal, Typed, Tracked, [Next]_vars
  PROVE  ClosedStay
<1> USE DEF Tracked, Normal
<1>1. ASSUME UNCHANGED order PROVE ClosedStay
  BY <1>1 DEF ClosedStay
<1>2. ASSUME NEW o \in Orders, createOrder(o) PROVE ClosedStay
  BY <1>2, OrderCreated DEF ClosedStay
<1>3. ASSUME NEW c \in Clients,
             \/ rejectOrder(c) \/ cancelOrder(c) \/ kitchenProductionConfirm(c)
             \/ approveOrder(c) \/ cancelPickingTask(c) \/ finalizeBulkShipment(c)
      PROVE  ClosedStay
  <2>1. order[OrderOf(c)].status \notin Closed
    <3>1. req[c].kind \in {"reject", "cancel", "confirm", "approve", "cancelTask", "finalize"}
      BY <1>3 DEF rejectOrder, cancelOrder, kitchenProductionConfirm, approveOrder,
         cancelPickingTask, finalizeBulkShipment, Handles
    <3> QED
      BY <3>1, StatusRead DEF Closed
  <2>2. \/ setOrderProductionFlag(OrderOf(c))
        \/ \E st : \/ order' = WithStatus(OrderOf(c), st)
                   \/ order' = [order EXCEPT ![OrderOf(c)].status = st,
                                             ![OrderOf(c)].confirm = FALSE]
    BY <1>3 DEF rejectOrder, cancelOrder, kitchenProductionConfirm, refuseProduction,
       acceptProduction, approveOrder, rejectOutOfStock, applyApproval, awaitProduction,
       applySmartOrderApproval, cancelPickingTask, finalizeBulkShipment
  <2>3. CASE setOrderProductionFlag(OrderOf(c))
    <3>1. Become({}, "pending")
      BY <2>3, FlagChanges
    <3> QED
      BY <3>1, OthersBecome
  <2>4. CASE \E st : \/ order' = WithStatus(OrderOf(c), st)
                     \/ order' = [order EXCEPT ![OrderOf(c)].status = st,
                                               ![OrderOf(c)].confirm = FALSE]
    <3>1. \E st : Become({OrderOf(c)}, st)
      BY <2>4, OneBecomes
    <3> QED
      BY <2>1, <3>1, OthersBecome
  <2> QED
    BY <2>2, <2>3, <2>4
<1>4. ASSUME NEW c \in Clients, receiveShipment(c) PROVE ClosedStay
  <2>1. PICK i : i = req[c].target
    OBVIOUS
  <2>2. i \in DOMAIN shipment /\ shipment[i].status = "in_transit"
    BY <1>4, <2>1 DEF Typed, RequestsOK, RequestOK, ReadsHold, ReadHolds, receiveShipment, Handles
  <2>3. order[shipment[i].order].status = "delivering"
    BY <2>2 DEF InStep, Suits
  <2>4. \E st : order' = WithStatus(shipment[i].order, st)
    BY <1>4, <2>1 DEF receiveShipment
  <2>5. \E st : Become({shipment[i].order}, st)
    BY <2>4, OneBecomes
  <2>6. "delivering" \notin Closed
    BY DEF Closed
  <2> QED
    BY <2>3, <2>5, <2>6, OthersBecome
<1>5. ASSUME NEW c \in Clients, createManualClaim(c) PROVE ClosedStay
  <2>1. PICK i : i = req[c].target.shipment
    OBVIOUS
  <2>2. i \in DOMAIN shipment /\ shipment[i].status = "completed"
    BY <1>5, <2>1 DEF Typed, RequestsOK, RequestOK, ReadsHold, ReadHolds, createManualClaim,
       Handles
  <2>3. order[shipment[i].order].status \in {"completed", "claimed"}
    BY <2>2 DEF InStep, Suits
  <2>4. order' = WithStatus(shipment[i].order, "claimed")
    BY <1>5, <2>1 DEF createManualClaim
  <2>5. Become({shipment[i].order}, "claimed")
    BY <2>4, OneBecomes
  <2> QED
    BY <2>3, <2>5, OthersBecome
<1>6. ASSUME NEW c \in Clients, consolidateManifestOrders(c) PROVE ClosedStay
  <2>1. PICK S : S = req[c].target
    OBVIOUS
  <2>2. PICK O : O = {shipment[i].order : i \in S}
    OBVIOUS
  <2>3. order' = [o \in Placed |-> IF o \in O THEN [order[o] EXCEPT !.status = "picking",
                                                                   !.slip = TRUE]
                                   ELSE order[o]]
    BY <1>6, <2>1, <2>2 DEF consolidateManifestOrders
  <2>4. Become(O, "picking")
    BY <2>3, SomeBecome
  <2>5. \A i \in S : order[shipment[i].order].status = "approved"
    BY <1>6, <2>1, ReadyRead DEF consolidateManifestOrders, Handles
  <2>6. \A o \in O : order[o].status \notin Closed
    BY <2>2, <2>5 DEF Closed
  <2> QED
    BY <2>4, <2>6, OthersBecome
<1>7. ASSUME NEW c \in Clients, confirmManifestDeparture(c) PROVE ClosedStay
  <2>1. req[c].kind = "depart"
    BY <1>7 DEF confirmManifestDeparture, Handles
  <2>2. PICK load : /\ load = req[c].target.load /\ DOMAIN load \in SUBSET DOMAIN shipment
                    /\ \A i \in DOMAIN load : Live(i)
    BY <2>1, DepartureRead
  <2>3. PICK O : O = {o \in Placed : \E i \in DOMAIN load : shipment[i].order = o}
    OBVIOUS
  <2>4. order' = [o \in Placed |-> IF o \in O THEN [order[o] EXCEPT !.status = "delivering"]
                                   ELSE order[o]]
    BY <1>7, <2>2, <2>3 DEF confirmManifestDeparture
  <2>5. Become(O, "delivering")
    BY <2>4, SomeBecome
  <2>6. \A i \in DOMAIN load : order[shipment[i].order].status \in {"approved", "picking"}
    BY <2>2 DEF InStep, Suits, Live
  <2>7. \A o \in O : order[o].status \notin Closed
    BY <2>3, <2>6 DEF Closed
  <2> QED
    BY <2>5, <2>7, OthersBecome
<1>8. ASSUME NEW c \in Clients, OrderRequest(c) PROVE ClosedStay
  <2>1. CASE \/ ArriveApprove(c) \/ ArriveConfirm(c) \/ ArriveReject(c) \/ ArriveCancel(c)
             \/ ArriveReceive(c)
    BY <1>1, <2>1 DEF ArriveApprove, ArriveConfirm, ArriveReject, ArriveCancel, ArriveReceive,
       Arrive
  <2> QED
    BY <1>3, <1>4, <1>8, <2>1, NoOverrides DEF OrderRequest
<1>9. ASSUME NEW c \in Clients, WarehouseRequest(c) PROVE ClosedStay
  <2>1. CASE \/ ArriveCancelTask(c) \/ ArriveFinalize(c) \/ ArriveManifest(c)
             \/ ArriveConsolidate(c) \/ ArriveDeparture(c) \/ createManifest(c)
    BY <1>1, <2>1 DEF ArriveCancelTask, ArriveFinalize, ArriveManifest, ArriveConsolidate,
       ArriveDeparture, createManifest, Arrive
  <2> QED
    BY <1>3, <1>6, <1>7, <1>9, <2>1, NoOverrides DEF WarehouseRequest
<1>10. ASSUME NEW c \in Clients, ClaimRequest(c) PROVE ClosedStay
  <2>1. CASE ArriveClaim(c) \/ ArriveResolve(c) \/ resolveClaim(c)
    BY <1>1, <2>1 DEF ArriveClaim, ArriveResolve, resolveClaim, Arrive
  <2> QED
    BY <1>5, <1>10, <2>1 DEF ClaimRequest
<1>11. CASE \/ cronExpireBatches \/ UNCHANGED vars \/ \E c \in Clients : Fail(c)
            \/ \E i \in DOMAIN shipment : \E k \in DOMAIN shipment[i].items :
                 verifyManifestItem(i, k)
  BY <1>1, <1>11 DEF cronExpireBatches, vars, verifyManifestItem, Fail
<1> QED
  BY <1>2, <1>8, <1>9, <1>10, <1>11 DEF Next

(* Under the same conditions no order that was rejected, cancelled,         *)
(* completed or claimed ever comes back: no approval, departure, receipt or *)
(* cancellation reaches one (SupplyChain!ClosedOrdersStayClosed).          *)
THEOREM ClosedStaysClosed ==
  ASSUME Normal
  PROVE  Spec => ClosedOrdersStayClosed
<1>1. Init => Typed /\ Tracked
  BY InitTyped, InitTracked
<1>2. Typed /\ Tracked /\ [Next]_vars => Typed' /\ Tracked'
  BY NextTyped, NextTracked
<1>3. Typed /\ Tracked /\ [Next]_vars => [ClosedStay]_vars
  BY NextClosed
<1>4. [][ClosedStay]_vars => ClosedOrdersStayClosed
  BY DEF ClosedStay, ClosedOrdersStayClosed
<1> QED
  BY <1>1, <1>2, <1>3, <1>4, PTL DEF Spec

-----------------------------------------------------------------------------
(* The log and the stock follow the shipments.                             *)

(* What was logged for an order is on its shipment, and is no more of any   *)
(* product than it asked for.                                              *)
Logged ==
  /\ \A i \in DOMAIN shipment :
       /\ log[shipment[i].order] = Goods(shipment[i].items)
       /\ \A p \in Products :
            PerProduct(Goods(shipment[i].items))[p] <= Requested[shipment[i].order][p]
  /\ \A o \in Orders : PrimaryShipments(o) = {} => log[o] = Nothing

Gone == {i \in DOMAIN shipment : shipment[i].shipped}

(* The stock has lost what has left, and reserves what is being prepared,   *)
(* which is there.                                                         *)
Booked ==
  \A b \in Batches :
    /\ stock[b].quantity = Opening[b] - GoodsOf(Gone)[b]
    /\ stock[b].status \in {"available", "expired"}
    /\ stock[b].status = "available" =>
         /\ stock[b].reserved = GoodsOf(LiveShipments)[b]
         /\ stock[b].reserved <= stock[b].quantity
    /\ stock[b].status = "expired" => stock[b].reserved <= 0 /\ ExpiryOf[b] <= today

(* What the shipments of S hold of a batch is a sum. *)
HeldOf(b) == [i \in DOMAIN shipment |-> Goods(shipment[i].items)[b]]

LEMMA GoodsOfSum ==
  ASSUME Typed, NEW b \in Batches
  PROVE  /\ IsFiniteSet(DOMAIN shipment) /\ Nats(HeldOf(b), DOMAIN shipment)
         /\ \A S \in SUBSET DOMAIN shipment :
              /\ IsFiniteSet(S) /\ Ints(HeldOf(b), S)
              /\ GoodsOf(S)[b] = SumOver(HeldOf(b), S)
              /\ GoodsOf(S)[b] \in Nat
<1>1. IsFiniteSet(DOMAIN shipment)
  BY FiniteShipments
<1>2. ASSUME NEW i \in DOMAIN shipment PROVE HeldOf(b)[i] \in Nat
  <2>1. shipment[i].items \in Lines
    BY ShipmentFacts, RowsAreLines
  <2>2. Goods(shipment[i].items)[b] \in Nat
    BY <2>1, GoodsAreSums
  <2> QED
    BY <2>2 DEF HeldOf
<1>3. ASSUME NEW S \in SUBSET DOMAIN shipment
      PROVE  GoodsOf(S)[b] = SumOver(HeldOf(b), S)
  <2> DEFINE f == [i \in S |-> Goods(shipment[i].items)[b]]
  <2>1. GoodsOf(S)[b] = Total(f) /\ DOMAIN f = S
    BY DEF GoodsOf
  <2>2. \A i \in S : f[i] = HeldOf(b)[i]
    BY DEF HeldOf
  <2> HIDE DEF f
  <2>3. IsFiniteSet(S)
    BY <1>1, FS_Subset
  <2>4. Total(f) = SumOver(f, S) /\ SumOver(f, S) = SumOver(HeldOf(b), S)
    BY <2>1, <2>2, <2>3, TotalIsSum, SumSame
  <2> QED
    BY <2>1, <2>4
<1>4. ASSUME NEW S \in SUBSET DOMAIN shipment
      PROVE  IsFiniteSet(S) /\ Ints(HeldOf(b), S) /\ GoodsOf(S)[b] \in Nat
  <2>1. GoodsOf(S) \in Bundles
    BY GoodsOfType
  <2> QED
    BY <1>1, <1>2, <2>1, FS_Subset DEF Ints, Bundles
<1> QED
  BY <1>1, <1>2, <1>3, <1>4 DEF Nats

(* Disjoint loads add up, and one shipment holds its items. *)
LEMMA GoodsOfParts ==
  ASSUME Typed, NEW b \in Batches
  PROVE  /\ GoodsOf({})[b] = 0
         /\ \A A, B \in SUBSET DOMAIN shipment : A \cap B = {} =>
              GoodsOf(A \cup B)[b] = GoodsOf(A)[b] + GoodsOf(B)[b]
         /\ \A i \in DOMAIN shipment : GoodsOf({i})[b] = Goods(shipment[i].items)[b]
<1> DEFINE f == HeldOf(b)
<1>1. \A S \in SUBSET DOMAIN shipment :
        IsFiniteSet(S) /\ Ints(f, S) /\ GoodsOf(S)[b] = SumOver(f, S)
  BY GoodsOfSum
<1>2. \A i \in DOMAIN shipment : f[i] = Goods(shipment[i].items)[b] /\ f[i] \in Nat
  BY GoodsOfSum DEF Nats, HeldOf
<1> HIDE DEF f
<1>3. GoodsOf({})[b] = 0
  BY <1>1, SumEmpty
<1>4. ASSUME NEW A \in SUBSET DOMAIN shipment, NEW B \in SUBSET DOMAIN shipment, A \cap B = {}
      PROVE  GoodsOf(A \cup B)[b] = GoodsOf(A)[b] + GoodsOf(B)[b]
  <2>1. A \cup B \in SUBSET DOMAIN shipment
    OBVIOUS
  <2>2. SumOver(f, A \cup B) = SumOver(f, A) + SumOver(f, B)
    BY <1>1, <1>4, SumUnion
  <2> QED
    BY <1>1, <2>1, <2>2
<1>5. ASSUME NEW i \in DOMAIN shipment PROVE GoodsOf({i})[b] = Goods(shipment[i].items)[b]
  <2>0. f[i] \in Int
    BY <1>2
  <2>1. SumOver(f, {i}) = f[i]
    BY <2>0, SumSingle
  <2>2. {i} \in SUBSET DOMAIN shipment
    OBVIOUS
  <2> QED
    BY <1>1, <1>2, <2>1, <2>2
<1> QED
  BY <1>3, <1>4, <1>5

(* Loads that do not change hold the same goods. *)
LEMMA GoodsOfKept ==
  ASSUME Typed, ShipmentsOK', LoadsFixed
  PROVE  /\ \A i \in DOMAIN shipment : Goods(shipment'[i].items) = Goods(shipment[i].items)
         /\ \A S \in SUBSET DOMAIN shipment : GoodsOf(S)' = GoodsOf(S)
<1>1. ASSUME NEW i \in DOMAIN shipment
      PROVE  Goods(shipment'[i].items) = Goods(shipment[i].items)
  <2>1. shipment[i] \in ShipmentRow /\ shipment'[i] \in ShipmentRow
    BY ShipmentFacts DEF LoadsFixed, ShipmentsOK
  <2>2. SameLoad(shipment'[i], shipment[i])
    BY DEF LoadsFixed
  <2> QED
    BY <2>1, <2>2, SameGoods
<1>2. ASSUME NEW S \in SUBSET DOMAIN shipment PROVE GoodsOf(S)' = GoodsOf(S)
  <2>1. \A b : [i \in S |-> Goods(shipment'[i].items)[b]]
               = [i \in S |-> Goods(shipment[i].items)[b]]
    BY <1>1
  <2> QED
    BY <2>1 DEF GoodsOf
<1> QED
  BY <1>1, <1>2

(* The log stays as long as the loads do. *)
LEMMA LoggedKept ==
  ASSUME Typed, Logged, ShipmentsOK', LoadsFixed, UNCHANGED log
  PROVE  Logged'
<1>1. /\ DOMAIN shipment' = DOMAIN shipment
      /\ \A i \in DOMAIN shipment : shipment'[i].order = shipment[i].order
      /\ \A i \in DOMAIN shipment : Goods(shipment'[i].items) = Goods(shipment[i].items)
  BY GoodsOfKept DEF LoadsFixed, SameLoad
<1>2. \A o : PrimaryShipments(o)' = PrimaryShipments(o)
  BY <1>1 DEF PrimaryShipments
<1> QED
  BY <1>1, <1>2 DEF Logged

(* An approval takes no more of a product than was ordered.                *)
LEMMA TakesWhatWasOrdered ==
  ASSUME Typed, NEW o \in Placed
  PROVE  /\ Taken(o) \in Bundles
         /\ \A p \in Products : PerProduct(Taken(o))[p] <= Requested[o][p]
         /\ \A b \in Batches : Taken(o)[b] > 0 =>
              /\ stock[b].status = "available"
              /\ Taken(o)[b] <= stock[b].quantity - stock[b].reserved
         /\ Goods(ItemsOf(Taken(o), FirstLine[o])) = Taken(o)
<1> DEFINE cutoff == CutOffDate(DeliveryOf[o] + Margin[o])
<1>1. o \in Orders /\ stock \in Stocks
  BY DEF Typed, OrdersOK
<1>2. cutoff \in [Products -> Nat] /\ Requested[o] \in [Products -> Nat]
  BY <1>1, FulfilmentAssumption DEF CutOffDate
<1> HIDE DEF cutoff
<1>3. Taken(o) = Allocation(stock, Requested[o], cutoff) /\ Taken(o) \in Bundles
  BY TakenType DEF Taken, cutoff
<1>4. ASSUME NEW p \in Products PROVE PerProduct(Taken(o))[p] <= Requested[o][p]
  <2>1. PerProduct(Taken(o))[p]
          = Minimum(Requested[o][p], SumOver(Offers(stock, cutoff), BatchesOf(p)))
    BY <1>1, <1>2, <1>3, AllocationTakes
  <2>2. SumOver(Offers(stock, cutoff), BatchesOf(p)) \in Nat /\ Requested[o][p] \in Nat
    BY <1>1, <1>2, OffersType, PerProductIsSum
  <2> QED
    BY <2>1, <2>2 DEF Minimum
<1>5. ASSUME NEW b \in Batches, Taken(o)[b] > 0
      PROVE  /\ stock[b].status = "available"
             /\ Taken(o)[b] <= stock[b].quantity - stock[b].reserved
  <2>1. Taken(o)[b] <= Offers(stock, cutoff)[b]
    BY <1>1, <1>2, <1>3, AllocationTakes
  <2>2. Taken(o)[b] \in Nat /\ Offers(stock, cutoff)[b] \in Nat
    BY <1>1, <1>2, <1>3, OffersType DEF Bundles
  <2> QED
    BY <1>1, <1>2, <1>5, <2>1, <2>2, OffersType
<1>6. Goods(ItemsOf(Taken(o), FirstLine[o])) = Taken(o)
  BY <1>3, FirstLineTyped, GoodsOfBundle
<1> QED
  BY <1>3, <1>4, <1>5, <1>6

(* The shipments and what they hold, after an approval. *)
LEMMA ShipmentAdded ==
  ASSUME Typed, NEW row, shipment' = Append(shipment, row)
  PROVE  /\ Len(shipment) + 1 \notin DOMAIN shipment
         /\ DOMAIN shipment' = DOMAIN shipment \cup {Len(shipment) + 1}
         /\ \A i \in DOMAIN shipment : shipment'[i] = shipment[i]
         /\ shipment'[Len(shipment) + 1] = row
<1>1. shipment \in Seq(ShipmentRow)
  BY DEF Typed, ShipmentsOK
<1>2. /\ Len(shipment) \in Nat /\ DOMAIN shipment = 1..Len(shipment)
      /\ DOMAIN shipment' = 1..(Len(shipment) + 1)
      /\ \A i \in DOMAIN shipment : shipment'[i] = shipment[i]
      /\ shipment'[Len(shipment) + 1] = row
  BY <1>1
<1> QED
  BY <1>2

LEMMA ApprovalLogged ==
  ASSUME Typed, Tracked, Logged, NEW c \in Clients, Handles(c, "approve"),
         applyApproval(OrderOf(c))
  PROVE  Logged'
<1>1. PICK o : o = OrderOf(c)
  OBVIOUS
<1>2. /\ o \in Placed /\ PrimaryShipments(o) = {}
      /\ shipment' = Append(shipment, NewShipment(o, {o}, o, "preparing", ItemsOf(Taken(o), FirstLine[o])))
  BY <1>1, ApprovalMakes
<1>3. o \in Orders /\ log \in [Orders -> Bundles]
  BY <1>2 DEF Typed, OrdersOK
<1>4. PICK take : take = Taken(o)
  OBVIOUS
<1>5. PICK items : items = ItemsOf(take, FirstLine[o])
  OBVIOUS
<1>6. /\ take \in Bundles /\ Goods(items) = take
      /\ \A p \in Products : PerProduct(take)[p] <= Requested[o][p]
  BY <1>2, <1>4, <1>5, TakesWhatWasOrdered
<1>7. log' = [log EXCEPT ![o] = take]
  <2>1. log' = [log EXCEPT ![o] = Plus(log[o], take)]
    BY <1>1, <1>4 DEF applyApproval
  <2>2. log[o] = Nothing
    BY <1>2, <1>3 DEF Logged
  <2>3. Plus(Nothing, take) = take
    BY <1>6 DEF Plus, Nothing, Bundles
  <2> QED
    BY <2>1, <2>2, <2>3
<1>8. PICK row : row = NewShipment(o, {o}, o, "preparing", items)
  OBVIOUS
<1>9. row.order = o /\ row.items = items
  BY <1>8 DEF NewShipment
<1>10. PICK n : n = Len(shipment) + 1
  OBVIOUS
<1>11. /\ DOMAIN shipment' = DOMAIN shipment \cup {n}
       /\ \A i \in DOMAIN shipment : shipment'[i] = shipment[i]
       /\ shipment'[n] = row
  BY <1>2, <1>4, <1>5, <1>8, <1>10, ShipmentAdded
<1>12. ASSUME NEW i \in DOMAIN shipment'
       PROVE  /\ log'[shipment'[i].order] = Goods(shipment'[i].items)
              /\ \A p \in Products :
                   PerProduct(Goods(shipment'[i].items))[p] <= Requested[shipment'[i].order][p]
  <2>1. CASE i = n
    BY <1>3, <1>6, <1>7, <1>9, <1>11, <2>1
  <2>2. CASE i \in DOMAIN shipment
    <3>1. shipment[i].order # o
      BY <1>2, <2>2 DEF PrimaryShipments
    <3>2. shipment'[i] = shipment[i] /\ log'[shipment[i].order] = log[shipment[i].order]
      BY <1>3, <1>7, <1>11, <2>2, <3>1
    <3> QED
      BY <2>2, <3>2 DEF Logged
  <2> QED
    BY <1>11, <2>1, <2>2
<1>13. ASSUME NEW q \in Orders, PrimaryShipments(q)' = {} PROVE log'[q] = Nothing
  <2>1. q # o
    BY <1>9, <1>11, <1>13 DEF PrimaryShipments
  <2>2. PrimaryShipments(q) = {}
    BY <1>11, <1>13 DEF PrimaryShipments
  <2> QED
    BY <1>3, <1>7, <2>1, <2>2 DEF Logged
<1> QED
  BY <1>12, <1>13 DEF Logged

LEMMA InitLogged == Init => Logged
  BY DEF Init, Logged

LEMMA NextLogged ==
  Normal /\ Typed /\ Tracked /\ Logged /\ [Next]_vars => Logged'
<1> SUFFICES ASSUME Normal, Typed, Tracked, Logged, [Next]_vars PROVE Logged'
  OBVIOUS
<1>1. ShipmentsOK'
  BY NextTyped DEF Typed
<1>2. \A c \in Clients : ~reportManifestBatchIssue(c) /\ ~sendCoordinationInquiry(c)
                         /\ ~batchApproveByAllocation(c)
  BY NoOverrides DEF Tracked
<1>3. CASE \E c \in Clients : approveOrder(c)
  <2>1. PICK c \in Clients : approveOrder(c)
    BY <1>3
  <2>2. CASE applyApproval(OrderOf(c))
    BY <2>1, <2>2, ApprovalLogged DEF approveOrder
  <2>3. CASE rejectOutOfStock(OrderOf(c)) \/ awaitProduction(OrderOf(c))
    <3>1. UNCHANGED <<shipment, log>>
      BY <2>3 DEF rejectOutOfStock, awaitProduction
    <3> QED
      BY <1>1, <3>1, NothingMoves, LoggedKept
  <2> QED
    BY <2>1, <2>2, <2>3 DEF approveOrder
<1>4. CASE \A c \in Clients : ~approveOrder(c)
  <2>1. LoadsFixed
    BY <1>1, <1>2, <1>4, LoadsStayFixed
  <2>2. UNCHANGED log
    <3>1. ASSUME NEW c \in Clients, OrderRequest(c) PROVE UNCHANGED log
      BY <1>2, <1>4, <3>1 DEF OrderRequest, ArriveApprove, ArriveConfirm, ArriveReject,
         ArriveCancel, ArriveForceCancel, ArriveInquiry, ArriveBatchApprove, ArriveReceive,
         Arrive, kitchenProductionConfirm, rejectOrder, cancelOrder, forceCancelOrder,
         receiveShipment
    <3>2. ASSUME NEW c \in Clients, WarehouseRequest(c) PROVE UNCHANGED log
      BY <3>2 DEF WarehouseRequest, ArriveCancelTask, ArriveFinalize, ArriveManifest,
         ArriveConsolidate, ArriveIssue, ArriveCancelManifest, ArriveDeparture, Arrive,
         cancelPickingTask, finalizeBulkShipment, createManifest, consolidateManifestOrders,
         reportManifestBatchIssue, cancelManifest, confirmManifestDeparture
    <3>3. ASSUME NEW c \in Clients, ClaimRequest(c) \/ Fail(c) PROVE UNCHANGED log
      BY <3>3 DEF ClaimRequest, ArriveClaim, ArriveResolve, Arrive, createManualClaim,
         resolveClaim, Fail
    <3>4. CASE \/ \E o \in Orders : createOrder(o)
               \/ \E i \in DOMAIN shipment : \E k \in DOMAIN shipment[i].items :
                    verifyManifestItem(i, k)
               \/ cronExpireBatches \/ UNCHANGED vars
      BY <3>4 DEF createOrder, verifyManifestItem, cronExpireBatches, vars
    <3> QED
      BY <3>1, <3>2, <3>3, <3>4 DEF Next
  <2> QED
    BY <1>1, <2>1, <2>2, LoggedKept
<1> QED
  BY <1>3, <1>4

(* The stock columns of one batch. *)
LEMMA StockFacts ==
  ASSUME Typed, NEW b \in Batches
  PROVE  /\ stock[b] \in StockRow /\ stock[b].quantity \in Int /\ stock[b].reserved \in Int
         /\ LiveShipments \in SUBSET DOMAIN shipment /\ Gone \in SUBSET DOMAIN shipment
         /\ GoodsOf(LiveShipments)[b] \in Nat /\ GoodsOf(Gone)[b] \in Nat
         /\ today \in Nat /\ ExpiryOf[b] \in Nat /\ Opening[b] \in Nat
<1>1. stock[b] \in StockRow
  BY DEF Typed, Stocks
<1>2. LiveShipments \in SUBSET DOMAIN shipment /\ Gone \in SUBSET DOMAIN shipment
  BY DEF LiveShipments, Gone
<1>3. GoodsOf(LiveShipments)[b] \in Nat /\ GoodsOf(Gone)[b] \in Nat
  BY <1>2, GoodsOfSum
<1>4. today \in Nat /\ ExpiryOf[b] \in Nat /\ Opening[b] \in Nat
  BY FulfilmentAssumption DEF Typed
<1> QED
  BY <1>1, <1>2, <1>3, <1>4 DEF StockRow

(* Neither the stock nor what it is kept for changes. *)
LEMMA BookedKept ==
  ASSUME Typed, Booked, ShipmentsOK', LoadsFixed, UNCHANGED <<stock, today>>,
         \A i \in DOMAIN shipment : /\ Live(i)' <=> Live(i)
                                    /\ shipment'[i].shipped = shipment[i].shipped
  PROVE  Booked'
<1>1. /\ LiveShipments' = LiveShipments /\ Gone' = Gone
      /\ LiveShipments \in SUBSET DOMAIN shipment /\ Gone \in SUBSET DOMAIN shipment
  BY DEF LiveShipments, Gone, LoadsFixed
<1>2. PICK L : L = LiveShipments
  OBVIOUS
<1>3. PICK G : G = Gone
  OBVIOUS
<1>4. GoodsOf(L)' = GoodsOf(L) /\ GoodsOf(G)' = GoodsOf(G)
  BY <1>1, <1>2, <1>3, GoodsOfKept
<1>5. GoodsOf(LiveShipments)' = GoodsOf(LiveShipments) /\ GoodsOf(Gone)' = GoodsOf(Gone)
  BY <1>1, <1>2, <1>3, <1>4 DEF GoodsOf
<1> QED
  BY <1>5 DEF Booked

(* The shipments of S are no longer prepared, and their goods leave or are  *)
(* free again.                                                             *)
LEMMA StockLeaves ==
  ASSUME Typed, InStep, Booked, ShipmentsOK', LoadsFixed, UNCHANGED today,
         NEW S \in SUBSET LiveShipments, LiveShipments' = LiveShipments \ S,
         NEW out \in {{}, S}, Gone' = Gone \cup out,
         \A b \in Batches :
           /\ stock'[b].status = stock[b].status
           /\ stock'[b].quantity = stock[b].quantity - GoodsOf(out)[b]
           /\ stock'[b].reserved \in {stock[b].reserved - GoodsOf(S)[b],
                                      Clamped(stock, b, GoodsOf(S)[b])}
  PROVE  Booked'
<1>1. PICK L : L = LiveShipments
  OBVIOUS
<1>2. PICK G : G = Gone
  OBVIOUS
<1>3. /\ L \in SUBSET DOMAIN shipment /\ G \in SUBSET DOMAIN shipment /\ S \in SUBSET L
      /\ out \in SUBSET S /\ S \cap G = {}
  BY <1>1, <1>2 DEF LiveShipments, Gone, Live, InStep
<1>4. ASSUME NEW b \in Batches
      PROVE  /\ stock'[b].quantity = Opening[b] - GoodsOf(Gone)[b]'
             /\ stock'[b].status \in {"available", "expired"}
             /\ stock'[b].status = "available" =>
                  /\ stock'[b].reserved = GoodsOf(LiveShipments)[b]'
                  /\ stock'[b].reserved <= stock'[b].quantity
             /\ stock'[b].status = "expired" => stock'[b].reserved <= 0 /\ ExpiryOf[b] <= today'
  <2>1. GoodsOf(L \ S)[b] + GoodsOf(S)[b] = GoodsOf(L)[b]
    <3>1. /\ L \ S \in SUBSET DOMAIN shipment /\ S \in SUBSET DOMAIN shipment
          /\ (L \ S) \cap S = {} /\ (L \ S) \cup S = L
      BY <1>3
    <3> QED
      BY <3>1, GoodsOfParts
  <2>2. GoodsOf(G \cup out)[b] = GoodsOf(G)[b] + GoodsOf(out)[b]
    <3>1. G \cap out = {} /\ out \in SUBSET DOMAIN shipment
      BY <1>3
    <3> QED
      BY <1>3, <3>1, GoodsOfParts
  <2>3. /\ GoodsOf(L \ S)' = GoodsOf(L \ S)
        /\ GoodsOf(G \cup out)' = GoodsOf(G \cup out)
    <3>1. L \ S \in SUBSET DOMAIN shipment /\ G \cup out \in SUBSET DOMAIN shipment
      BY <1>3
    <3> QED
      BY <3>1, GoodsOfKept
  <2>4. GoodsOf(LiveShipments)[b]' = GoodsOf(L \ S)[b]
    <3>1. LiveShipments' = L \ S
      BY <1>1
    <3> QED
      BY <2>3, <3>1 DEF GoodsOf
  <2>5. GoodsOf(Gone)[b]' = GoodsOf(G \cup out)[b]
    <3>1. Gone' = G \cup out
      BY <1>2
    <3> QED
      BY <2>3, <3>1 DEF GoodsOf
  <2>6. /\ GoodsOf(L \ S)[b] \in Nat /\ GoodsOf(S)[b] \in Nat /\ GoodsOf(L)[b] \in Nat
        /\ GoodsOf(G)[b] \in Nat /\ GoodsOf(out)[b] \in Nat
    <3>1. /\ L \ S \in SUBSET DOMAIN shipment /\ S \in SUBSET DOMAIN shipment
          /\ out \in SUBSET DOMAIN shipment
      BY <1>3
    <3> QED
      BY <1>3, <3>1, GoodsOfSum
  <2>7. /\ stock[b].quantity \in Int /\ stock[b].reserved \in Int /\ Opening[b] \in Nat
        /\ stock[b].quantity = Opening[b] - GoodsOf(G)[b]
        /\ stock[b].status \in {"available", "expired"}
        /\ stock[b].status = "available" =>
             stock[b].reserved = GoodsOf(L)[b] /\ stock[b].reserved <= stock[b].quantity
        /\ stock[b].status = "expired" => stock[b].reserved <= 0 /\ ExpiryOf[b] <= today
    BY <1>1, <1>2, StockFacts DEF Booked
  <2> DEFINE n == GoodsOf(S)[b]
             res == stock[b].reserved
  <2>8. Clamped(stock, b, n) = IF n = 0 THEN res ELSE IF res - n >= 0 THEN res - n ELSE 0
    BY <2>6, <2>7 DEF Clamped, Maximum
  <2>9. stock'[b].quantity = Opening[b] - GoodsOf(Gone)[b]'
    BY <2>2, <2>5, <2>6, <2>7
  <2>10. stock[b].status = "available" =>
           /\ stock'[b].reserved = GoodsOf(LiveShipments)[b]'
           /\ stock'[b].reserved <= stock'[b].quantity
    <3>1. GoodsOf(out)[b] \in {0, GoodsOf(S)[b]}
      BY GoodsOfParts
    <3>2. stock'[b].quantity = stock[b].quantity - GoodsOf(out)[b]
      OBVIOUS
    <3>3. stock[b].status = "available" => stock'[b].reserved = stock[b].reserved - n
      BY <2>1, <2>6, <2>7, <2>8
    <3> QED
      BY <2>1, <2>4, <2>6, <2>7, <3>1, <3>2, <3>3
  <2>11. stock[b].status = "expired" => stock'[b].reserved <= 0 /\ ExpiryOf[b] <= today'
    BY <2>6, <2>7, <2>8
  <2> QED
    BY <2>7, <2>9, <2>10, <2>11
<1> QED
  BY <1>4 DEF Booked

(* The next day: what expires reserves nothing any more. *)
LEMMA DayBooked ==
  ASSUME Typed, Booked, cronExpireBatches
  PROVE  Booked'
<1>1. /\ GoodsOf(LiveShipments)' = GoodsOf(LiveShipments) /\ GoodsOf(Gone)' = GoodsOf(Gone)
  BY DEF cronExpireBatches, GoodsOf, LiveShipments, Live, Gone
<1>2. ASSUME NEW b \in Batches
      PROVE  /\ stock'[b].quantity = stock[b].quantity
             /\ \/ stock'[b] = stock[b]
                \/ /\ stock'[b].status = "expired" /\ stock'[b].reserved = 0
                   /\ ExpiryOf[b] <= today'
  <2>1. stock[b] \in [quantity : Int, reserved : Int, status : Blocked \cup {"available"}]
    BY StockFacts DEF StockRow
  <2> DEFINE row == [stock[b] EXCEPT !.reserved = 0, !.status = "expired"]
  <2>2. row.quantity = stock[b].quantity /\ row.reserved = 0 /\ row.status = "expired"
    BY <2>1
  <2>3. \/ stock'[b] = stock[b]
        \/ stock'[b] = row /\ ExpiryOf[b] <= today'
    BY DEF cronExpireBatches
  <2> HIDE DEF row
  <2> QED
    BY <2>2, <2>3
<1>3. today' = today + 1
  BY DEF cronExpireBatches
<1>4. ASSUME NEW b \in Batches
      PROVE  /\ stock'[b].quantity = Opening[b] - GoodsOf(Gone)[b]'
             /\ stock'[b].status \in {"available", "expired"}
             /\ stock'[b].status = "available" =>
                  /\ stock'[b].reserved = GoodsOf(LiveShipments)[b]'
                  /\ stock'[b].reserved <= stock'[b].quantity
             /\ stock'[b].status = "expired" => stock'[b].reserved <= 0 /\ ExpiryOf[b] <= today'
  <2>1. /\ stock[b].quantity = Opening[b] - GoodsOf(Gone)[b]
        /\ stock[b].status \in {"available", "expired"}
        /\ stock[b].status = "available" =>
             /\ stock[b].reserved = GoodsOf(LiveShipments)[b]
             /\ stock[b].reserved <= stock[b].quantity
        /\ stock[b].status = "expired" => stock[b].reserved <= 0 /\ ExpiryOf[b] <= today
    BY DEF Booked
  <2>2. today \in Nat /\ ExpiryOf[b] \in Nat
    BY StockFacts
  <2> QED
    BY <1>1, <1>2, <1>3, <2>1, <2>2
<1> QED
  BY <1>4 DEF Booked

(* The columns of the stock after goods are reserved, released or sent.     *)
LEMMA StockColumns ==
  ASSUME Typed, NEW f \in Bundles, NEW b \in Batches
  PROVE  /\ Reserved(stock, f)[b].quantity = stock[b].quantity
         /\ Reserved(stock, f)[b].reserved = stock[b].reserved + f[b]
         /\ Reserved(stock, f)[b].status = stock[b].status
         /\ Released(stock, f)[b].quantity = stock[b].quantity
         /\ Released(stock, f)[b].reserved = Clamped(stock, b, f[b])
         /\ Released(stock, f)[b].status = stock[b].status
         /\ Exported(stock, f)[b].quantity = stock[b].quantity - f[b]
         /\ Exported(stock, f)[b].reserved = Clamped(stock, b, f[b])
         /\ Exported(stock, f)[b].status = stock[b].status
         /\ FinallyDecreased(stock, f)[b].quantity = stock[b].quantity - f[b]
         /\ FinallyDecreased(stock, f)[b].reserved = stock[b].reserved - f[b]
         /\ FinallyDecreased(stock, f)[b].status = stock[b].status
<1>1. stock[b] \in [quantity : Int, reserved : Int, status : Blocked \cup {"available"}]
  BY StockFacts DEF StockRow
<1>2. ASSUME NEW row, row \in [quantity : Int, reserved : Int,
                               status : Blocked \cup {"available"}], NEW x, NEW y
      PROVE  /\ [row EXCEPT !.reserved = x].quantity = row.quantity
             /\ [row EXCEPT !.reserved = x].reserved = x
             /\ [row EXCEPT !.reserved = x].status = row.status
             /\ [row EXCEPT !.quantity = y, !.reserved = x].quantity = y
             /\ [row EXCEPT !.quantity = y, !.reserved = x].reserved = x
             /\ [row EXCEPT !.quantity = y, !.reserved = x].status = row.status
  BY <1>2
<1>3. /\ Reserved(stock, f)[b] = [stock[b] EXCEPT !.reserved = stock[b].reserved + f[b]]
      /\ Released(stock, f)[b] = [stock[b] EXCEPT !.reserved = Clamped(stock, b, f[b])]
      /\ Exported(stock, f)[b] = [stock[b] EXCEPT !.quantity = stock[b].quantity - f[b],
                                                  !.reserved = Clamped(stock, b, f[b])]
      /\ FinallyDecreased(stock, f)[b]
           = [stock[b] EXCEPT !.quantity = stock[b].quantity - f[b],
                              !.reserved = stock[b].reserved - f[b]]
  BY DEF Reserved, Released, Exported, FinallyDecreased
<1>4. /\ Reserved(stock, f)[b].quantity = stock[b].quantity
      /\ Reserved(stock, f)[b].reserved = stock[b].reserved + f[b]
      /\ Reserved(stock, f)[b].status = stock[b].status
  BY <1>1, <1>2, <1>3
<1>5. /\ Released(stock, f)[b].quantity = stock[b].quantity
      /\ Released(stock, f)[b].reserved = Clamped(stock, b, f[b])
      /\ Released(stock, f)[b].status = stock[b].status
  BY <1>1, <1>2, <1>3
<1>6. /\ Exported(stock, f)[b].quantity = stock[b].quantity - f[b]
      /\ Exported(stock, f)[b].reserved = Clamped(stock, b, f[b])
      /\ Exported(stock, f)[b].status = stock[b].status
  BY <1>1, <1>2, <1>3
<1>7. /\ FinallyDecreased(stock, f)[b].quantity = stock[b].quantity - f[b]
      /\ FinallyDecreased(stock, f)[b].reserved = stock[b].reserved - f[b]
      /\ FinallyDecreased(stock, f)[b].status = stock[b].status
  BY <1>1, <1>2, <1>3
<1> QED
  BY <1>4, <1>5, <1>6, <1>7

(* What a release gives back is what the order's one shipment holds.        *)
LEMMA ReleaseIsShipment ==
  ASSUME Typed, Tracked, Logged, NEW o \in Placed, NEW give \in ToRelease(o)
  PROVE  /\ give \in Bundles
         /\ PrimaryShipments(o) = {} => \A b \in Batches : give[b] = 0
         /\ \A i \in PrimaryShipments(o) : \A b \in Batches : give[b] = GoodsOf({i})[b]
<1> USE DEF Tracked
<1>1. o \in Orders /\ give \in Bundles
  BY ToReleaseType DEF Typed, OrdersOK
<1>2. ASSUME PrimaryShipments(o) = {} PROVE \A b \in Batches : give[b] = 0
  BY <1>1, <1>2 DEF ToRelease, Logged, Nothing
<1>3. ASSUME NEW i \in PrimaryShipments(o), NEW b \in Batches
      PROVE  give[b] = GoodsOf({i})[b]
  <2>1. i \in DOMAIN shipment /\ shipment[i].order = o /\ PrimaryShipments(o) = {i}
    BY OwnShipment
  <2>2. GoodsOf({i})[b] = Goods(shipment[i].items)[b] /\ log[o] = Goods(shipment[i].items)
    BY <2>1, GoodsOfParts DEF Logged
  <2>3. \/ give = log[o]
        \/ \E j \in PrimaryShipments(o) : give = GoodsOf({j})
    BY <2>1 DEF ToRelease
  <2>4. CASE give = log[o]
    BY <2>2, <2>4
  <2>5. CASE \E j \in PrimaryShipments(o) : give = GoodsOf({j})
    <3>1. PICK j \in PrimaryShipments(o) : give = GoodsOf({j})
      BY <2>5
    <3>2. j = i
      BY <2>1
    <3> QED
      BY <3>1, <3>2
  <2> QED
    BY <2>3, <2>4, <2>5
<1> QED
  BY <1>1, <1>2, <1>3

(* Nothing is released for an order without shipment. *)
LEMMA NothingReleased ==
  ASSUME Typed, Tracked, Booked, ShipmentsOK', NEW give \in Bundles,
         \A b \in Batches : give[b] = 0,
         stock' = Released(stock, give), UNCHANGED <<shipment, today>>
  PROVE  Booked'
<1>1. LoadsFixed /\ LiveShipments' = LiveShipments \ {} /\ Gone' = Gone \cup {}
  BY NothingMoves DEF LiveShipments, Live, Gone
<1>2. ASSUME NEW b \in Batches
      PROVE  /\ stock'[b].status = stock[b].status
             /\ stock'[b].quantity = stock[b].quantity - GoodsOf({})[b]
             /\ stock'[b].reserved \in {stock[b].reserved - GoodsOf({})[b],
                                        Clamped(stock, b, GoodsOf({})[b])}
  <2>1. GoodsOf({})[b] = 0 /\ give[b] = 0 /\ stock[b].quantity \in Int
    BY GoodsOfParts, StockFacts
  <2> QED
    BY <2>1, StockColumns
<1>3. {} \in SUBSET LiveShipments /\ {} \in {{}, {}} /\ InStep
  BY DEF Tracked
<1> QED
  BY <1>1, <1>2, <1>3, StockLeaves

(* A new shipment adds its items, and changes nothing of the others.        *)
LEMMA GoodsOfMore ==
  ASSUME Typed, ShipmentsOK', NEW row, shipment' = Append(shipment, row),
         NEW n, n = Len(shipment) + 1, NEW b \in Batches,
         NEW S \in SUBSET DOMAIN shipment
  PROVE  /\ GoodsOf(S)[b]' = GoodsOf(S)[b]
         /\ GoodsOf(S \cup {n})[b]' = GoodsOf(S)[b] + Goods(row.items)[b]
<1>1. /\ n \notin DOMAIN shipment /\ DOMAIN shipment' = DOMAIN shipment \cup {n}
      /\ \A i \in DOMAIN shipment : shipment'[i] = shipment[i]
      /\ shipment'[n] = row
  BY ShipmentAdded
<1>2. n \notin S /\ \A i \in S : shipment'[i] = shipment[i]
  BY <1>1
<1> DEFINE f == [i \in S |-> Goods(shipment[i].items)[b]]
           g == [i \in S |-> Goods(shipment'[i].items)[b]]
           h == [i \in S \cup {n} |-> Goods(shipment'[i].items)[b]]
<1>3. /\ GoodsOf(S)[b] = Total(f) /\ GoodsOf(S)[b]' = Total(g)
      /\ GoodsOf(S \cup {n})[b]' = Total(h)
  BY DEF GoodsOf
<1>4. f = g
  BY <1>2
<1>5. IsFiniteSet(S) /\ IsFiniteSet(S \cup {n})
  <2>1. IsFiniteSet(S)
    BY GoodsOfSum
  <2> QED
    BY <2>1, FS_AddElement
<1>6. h[n] = Goods(row.items)[b] /\ \A i \in S : h[i] = f[i]
  BY <1>1, <1>2
<1>7. Ints(h, S \cup {n})
  <2>1. h[n] \in Nat
    <3>1. row \in ShipmentRow
      BY <1>1 DEF ShipmentsOK
    <3>2. row.items \in Lines
      BY <3>1, RowsAreLines DEF ShipmentRow, Rows
    <3> QED
      BY <1>6, <3>2, GoodsAreSums
  <2>2. \A i \in S : h[i] \in Nat
    <3>1. \A i \in DOMAIN shipment : HeldOf(b)[i] \in Nat
      BY GoodsOfSum DEF Nats
    <3> QED
      BY <1>6, <3>1 DEF HeldOf
  <2> QED
    BY <2>1, <2>2 DEF Ints
<1>8. DOMAIN f = S /\ DOMAIN h = S \cup {n}
  OBVIOUS
<1> HIDE DEF f, g, h
<1>9. Total(h) = SumOver(h, S \cup {n}) /\ Total(f) = SumOver(f, S)
  BY <1>8, TotalIsSum
<1>10. SumOver(h, S \cup {n}) = h[n] + SumOver(h, S)
  BY <1>2, <1>5, <1>7, SumAdd
<1>11. SumOver(h, S) = SumOver(f, S)
  BY <1>5, <1>6, SumSame
<1>12. SumOver(h, S) \in Int /\ h[n] \in Int
  <2>1. Ints(h, S)
    BY <1>7 DEF Ints
  <2> QED
    BY <1>5, <1>7, <2>1, SumType DEF Ints
<1> QED
  BY <1>3, <1>4, <1>6, <1>9, <1>10, <1>11, <1>12

(* What an approval takes is reserved for the shipment it makes.            *)
LEMMA ApprovalBooked ==
  ASSUME Typed, Tracked, Booked, ShipmentsOK', NEW c \in Clients, Handles(c, "approve"),
         applyApproval(OrderOf(c)), UNCHANGED today
  PROVE  Booked'
<1>1. PICK o : o = OrderOf(c)
  OBVIOUS
<1>2. PICK take : take = Taken(o)
  OBVIOUS
<1>3. PICK row : row = NewShipment(o, {o}, o, "preparing", ItemsOf(take, FirstLine[o]))
  OBVIOUS
<1>4. PICK n : n = Len(shipment) + 1
  OBVIOUS
<1>5. o \in Placed /\ shipment' = Append(shipment, row)
  BY <1>1, <1>2, <1>3, ApprovalMakes
<1>6. /\ take \in Bundles /\ Goods(row.items) = take
      /\ \A b \in Batches : take[b] > 0 =>
           /\ stock[b].status = "available"
           /\ take[b] <= stock[b].quantity - stock[b].reserved
  <2>1. row.items = ItemsOf(take, FirstLine[o])
    BY <1>3 DEF NewShipment
  <2> QED
    BY <1>2, <1>5, <2>1, TakesWhatWasOrdered
<1>7. row.status = "preparing" /\ row.shipped = FALSE
  BY <1>3 DEF NewShipment
<1>8. stock' = Reserved(stock, take)
  BY <1>1, <1>2 DEF applyApproval
<1>9. PICK L : L = LiveShipments
  OBVIOUS
<1>10. PICK G : G = Gone
  OBVIOUS
<1>11. L \in SUBSET DOMAIN shipment /\ G \in SUBSET DOMAIN shipment
  BY <1>9, <1>10 DEF LiveShipments, Gone
<1>12. LiveShipments' = L \cup {n} /\ Gone' = G
  <2>1. /\ n \notin DOMAIN shipment /\ DOMAIN shipment' = DOMAIN shipment \cup {n}
        /\ \A i \in DOMAIN shipment : shipment'[i] = shipment[i]
        /\ shipment'[n] = row
    BY <1>4, <1>5, ShipmentAdded
  <2>2. LiveShipments' = {i \in DOMAIN shipment' :
                             shipment'[i].status \in {"preparing", "consolidated"}}
    BY DEF LiveShipments, Live
  <2>3. L = {i \in DOMAIN shipment : shipment[i].status \in {"preparing", "consolidated"}}
    BY <1>9 DEF LiveShipments, Live
  <2>4. LiveShipments' = L \cup {n}
    BY <1>7, <2>1, <2>2, <2>3
  <2>5. Gone' = G
    BY <1>7, <1>10, <2>1 DEF Gone
  <2> QED
    BY <2>4, <2>5
<1>13. ASSUME NEW b \in Batches
       PROVE  /\ stock'[b].quantity = Opening[b] - GoodsOf(Gone)[b]'
              /\ stock'[b].status \in {"available", "expired"}
              /\ stock'[b].status = "available" =>
                   /\ stock'[b].reserved = GoodsOf(LiveShipments)[b]'
                   /\ stock'[b].reserved <= stock'[b].quantity
              /\ stock'[b].status = "expired" => stock'[b].reserved <= 0 /\ ExpiryOf[b] <= today'
  <2>1. /\ GoodsOf(G)[b]' = GoodsOf(G)[b]
        /\ GoodsOf(L \cup {n})[b]' = GoodsOf(L)[b] + Goods(row.items)[b]
    <3>1. shipment' = Append(shipment, row) /\ n = Len(shipment) + 1
      BY <1>4, <1>5
    <3>2. \A S \in SUBSET DOMAIN shipment :
            /\ GoodsOf(S)[b]' = GoodsOf(S)[b]
            /\ GoodsOf(S \cup {n})[b]' = GoodsOf(S)[b] + Goods(row.items)[b]
      BY <3>1, GoodsOfMore
    <3> QED
      BY <1>11, <3>2
  <2>2. /\ GoodsOf(Gone)[b]' = GoodsOf(G)[b]'
        /\ GoodsOf(LiveShipments)[b]' = GoodsOf(L \cup {n})[b]'
    BY <1>12 DEF GoodsOf
  <2>3. /\ stock'[b].quantity = stock[b].quantity
        /\ stock'[b].reserved = stock[b].reserved + take[b]
        /\ stock'[b].status = stock[b].status
    BY <1>6, <1>8, StockColumns
  <2>4. /\ stock[b].quantity \in Int /\ stock[b].reserved \in Int /\ Opening[b] \in Nat
        /\ stock[b].quantity = Opening[b] - GoodsOf(G)[b]
        /\ stock[b].status \in {"available", "expired"}
        /\ stock[b].status = "available" =>
             stock[b].reserved = GoodsOf(L)[b] /\ stock[b].reserved <= stock[b].quantity
        /\ stock[b].status = "expired" => stock[b].reserved <= 0 /\ ExpiryOf[b] <= today
    BY <1>9, <1>10, StockFacts DEF Booked
  <2>5. /\ take[b] \in Nat
        /\ take[b] > 0 => /\ stock[b].status = "available"
                          /\ take[b] <= stock[b].quantity - stock[b].reserved
    BY <1>6 DEF Bundles
  <2> QED
    BY <1>6, <2>1, <2>2, <2>3, <2>4, <2>5
<1> QED
  BY <1>13 DEF Booked

(* One shipment i is no longer prepared. *)
LEMMA OneLeaves ==
  ASSUME Typed, NEW i \in DOMAIN shipment, Live(i), NEW st, NEW m, NEW shipped \in BOOLEAN,
         st \notin {"preparing", "consolidated"}, Moves({i}, st, m, shipped),
         shipment[i].shipped = FALSE
  PROVE  /\ LoadsFixed /\ {i} \in SUBSET LiveShipments
         /\ LiveShipments' = LiveShipments \ {i}
         /\ Gone' = Gone \cup (IF shipped THEN {i} ELSE {})
<1>1. /\ DOMAIN shipment' = DOMAIN shipment
      /\ \A j \in DOMAIN shipment :
           /\ shipment'[j].status = IF j = i THEN st ELSE shipment[j].status
           /\ shipment'[j].shipped = IF j = i THEN shipped ELSE shipment[j].shipped
  BY DEF Moves, LoadsFixed, Place
<1>2. LiveShipments' = LiveShipments \ {i}
  BY <1>1 DEF LiveShipments, Live
<1>3. Gone' = Gone \cup (IF shipped THEN {i} ELSE {})
  BY <1>1 DEF Gone
<1> QED
  BY <1>2, <1>3 DEF Moves, LiveShipments

(* A cancelled picking task gives its goods back. *)
LEMMA CancelTaskBooked ==
  ASSUME Typed, Tracked, Logged, Booked, ShipmentsOK', NEW c \in Clients, cancelPickingTask(c)
  PROVE  Booked'
<1>0. OneEach /\ InStep /\ ReadsHold
  BY DEF Tracked
<1>1. PICK o : o = OrderOf(c)
  OBVIOUS
<1>2. o \in Placed /\ order[o].status \in {"approved", "picking"}
  BY <1>0, <1>1, StatusRead DEF cancelPickingTask, Handles, AboutOneOrder
<1>3. PICK give \in ToRelease(o) : stock' = Released(stock, give)
  BY <1>1 DEF cancelPickingTask
<1>4. /\ UNCHANGED today
      /\ IF ShipmentsOf(o) = {} THEN UNCHANGED shipment
         ELSE \E i \in ShipmentsOf(o) : shipment' = [shipment EXCEPT ![i].status = "cancelled"]
  BY <1>1 DEF cancelPickingTask
<1>5. /\ give \in Bundles
      /\ PrimaryShipments(o) = {} => \A b \in Batches : give[b] = 0
      /\ \A i \in PrimaryShipments(o) : \A b \in Batches : give[b] = GoodsOf({i})[b]
  BY <1>2, <1>3, ReleaseIsShipment
<1>6. ShipmentsOf(o) = PrimaryShipments(o)
  BY <1>0, OwnShipment
<1>7. CASE PrimaryShipments(o) = {}
  BY <1>3, <1>4, <1>5, <1>6, <1>7, NothingReleased
<1>8. CASE PrimaryShipments(o) # {}
  <2>1. PICK i \in PrimaryShipments(o) : shipment' = [shipment EXCEPT ![i].status = "cancelled"]
    BY <1>4, <1>6, <1>8
  <2>2. i \in DOMAIN shipment /\ shipment[i].order = o
    BY DEF PrimaryShipments
  <2>3. Live(i) /\ shipment[i].shipped = FALSE
    BY <1>0, <1>2, <2>2, NotReceived
  <2>4. Moves({i}, "cancelled", shipment[i].manifest, FALSE)
    BY <2>1, <2>2, <2>3, StatusMoves
  <2>5. /\ LoadsFixed /\ {i} \in SUBSET LiveShipments
        /\ LiveShipments' = LiveShipments \ {i} /\ Gone' = Gone \cup {}
    BY <2>2, <2>3, <2>4, OneLeaves
  <2>6. ASSUME NEW b \in Batches
        PROVE  /\ stock'[b].status = stock[b].status
               /\ stock'[b].quantity = stock[b].quantity - GoodsOf({})[b]
               /\ stock'[b].reserved \in {stock[b].reserved - GoodsOf({i})[b],
                                          Clamped(stock, b, GoodsOf({i})[b])}
    <3>1. GoodsOf({})[b] = 0 /\ give[b] = GoodsOf({i})[b] /\ stock[b].quantity \in Int
      BY <1>5, GoodsOfParts, StockFacts
    <3> QED
      BY <1>3, <1>5, <3>1, StockColumns
  <2>7. {} \in {{}, {i}}
    OBVIOUS
  <2> QED
    BY <1>0, <1>4, <2>5, <2>6, <2>7, StockLeaves
<1> QED
  BY <1>7, <1>8

(* ... and a bulk shipment takes them out of the kitchen. *)
LEMMA FinalizeBooked ==
  ASSUME Typed, Tracked, Booked, ShipmentsOK', NEW c \in Clients, finalizeBulkShipment(c)
  PROVE  Booked'
<1>0. OneEach /\ InStep /\ ReadsHold
  BY DEF Tracked
<1>1. PICK o : o = OrderOf(c)
  OBVIOUS
<1>2. o \in Placed /\ order[o].status = "approved"
  BY <1>0, <1>1, StatusRead DEF finalizeBulkShipment, Handles, AboutOneOrder
<1>3. /\ UNCHANGED today
      /\ IF PrimaryShipments(o) = {} THEN UNCHANGED <<stock, shipment>>
         ELSE \E i \in PrimaryShipments(o) :
                /\ stock' = FinallyDecreased(stock, GoodsOf({i}))
                /\ shipment' = [shipment EXCEPT ![i].status = "in_transit",
                                                ![i].shipped = TRUE]
  BY <1>1 DEF finalizeBulkShipment
<1>4. CASE PrimaryShipments(o) = {}
  <2>1. UNCHANGED <<stock, shipment, today>>
    BY <1>3, <1>4
  <2> QED
    BY <2>1, NothingMoves, BookedKept DEF Live
<1>5. CASE PrimaryShipments(o) # {}
  <2>1. PICK i \in PrimaryShipments(o) :
          /\ stock' = FinallyDecreased(stock, GoodsOf({i}))
          /\ shipment' = [shipment EXCEPT ![i].status = "in_transit", ![i].shipped = TRUE]
    BY <1>3, <1>5
  <2>2. i \in DOMAIN shipment /\ shipment[i].order = o
    BY DEF PrimaryShipments
  <2>3. Live(i) /\ shipment[i].shipped = FALSE
    BY <1>0, <1>2, <2>2, NotReceived
  <2>4. Moves({i}, "in_transit", shipment[i].manifest, TRUE)
    BY <2>1, <2>2, DispatchMoves
  <2>5. /\ LoadsFixed /\ {i} \in SUBSET LiveShipments
        /\ LiveShipments' = LiveShipments \ {i} /\ Gone' = Gone \cup {i}
    BY <2>2, <2>3, <2>4, OneLeaves
  <2>6. GoodsOf({i}) \in Bundles
    BY <2>2, GoodsOfType
  <2>7. \A b \in Batches :
          /\ stock'[b].status = stock[b].status
          /\ stock'[b].quantity = stock[b].quantity - GoodsOf({i})[b]
          /\ stock'[b].reserved \in {stock[b].reserved - GoodsOf({i})[b],
                                     Clamped(stock, b, GoodsOf({i})[b])}
    BY <2>1, <2>6, StockColumns
  <2>8. {i} \in {{}, {i}}
    OBVIOUS
  <2> QED
    BY <1>0, <1>3, <2>5, <2>7, <2>8, StockLeaves
<1> QED
  BY <1>4, <1>5

(* A truck takes what is on it. *)
LEMMA DepartureBooked ==
  ASSUME Typed, Tracked, Booked, ShipmentsOK', NEW c \in Clients, confirmManifestDeparture(c)
  PROVE  Booked'
<1>0. OneEach /\ InStep /\ ReadsHold
  BY DEF Tracked
<1>1. req[c].kind = "depart"
  BY DEF confirmManifestDeparture, Handles
<1>2. PICK load :
        /\ load = req[c].target.load /\ DOMAIN load \in SUBSET DOMAIN shipment
        /\ \A i \in DOMAIN load : load[i] = Goods(shipment[i].items) /\ Live(i)
  BY <1>1, DepartureRead
<1>3. PICK S : S = DOMAIN load
  OBVIOUS
<1>4. /\ UNCHANGED today
      /\ stock' = Exported(stock, [b \in Batches |-> Total([i \in DOMAIN load |-> load[i][b]])])
      /\ shipment' = [i \in DOMAIN shipment |->
                        IF i \in S
                        THEN [shipment[i] EXCEPT !.status = "in_transit", !.shipped = TRUE]
                        ELSE shipment[i]]
  BY <1>2, <1>3 DEF confirmManifestDeparture
<1>5. stock' = Exported(stock, GoodsOf(S)) /\ GoodsOf(S) \in Bundles
  <2>1. \A b : [i \in DOMAIN load |-> load[i][b]] = [i \in S |-> Goods(shipment[i].items)[b]]
    BY <1>2, <1>3
  <2>2. [b \in Batches |-> Total([i \in DOMAIN load |-> load[i][b]])] = GoodsOf(S)
    BY <2>1 DEF GoodsOf
  <2> QED
    BY <1>2, <1>3, <1>4, <2>2, GoodsOfType
<1>6. /\ LoadsFixed
      /\ \A i \in DOMAIN shipment :
           Place(shipment'[i]) = IF i \in S THEN <<"in_transit", shipment[i].manifest, TRUE>>
                                 ELSE Place(shipment[i])
  BY <1>4, TruckMoves
<1>7. \A i \in DOMAIN shipment :
        /\ shipment'[i].status = IF i \in S THEN "in_transit" ELSE shipment[i].status
        /\ shipment'[i].shipped = IF i \in S THEN TRUE ELSE shipment[i].shipped
  BY <1>6 DEF Place
<1>8. S \in SUBSET LiveShipments
  BY <1>2, <1>3 DEF LiveShipments
<1>9. DOMAIN shipment' = DOMAIN shipment
  BY <1>6 DEF LoadsFixed
<1>10. LiveShipments' = LiveShipments \ S
  BY <1>7, <1>9 DEF LiveShipments, Live
<1>11. Gone' = Gone \cup S
  BY <1>2, <1>3, <1>7, <1>9 DEF Gone
<1>12. \A b \in Batches :
         /\ stock'[b].status = stock[b].status
         /\ stock'[b].quantity = stock[b].quantity - GoodsOf(S)[b]
         /\ stock'[b].reserved \in {stock[b].reserved - GoodsOf(S)[b],
                                    Clamped(stock, b, GoodsOf(S)[b])}
  BY <1>5, StockColumns
<1>13. S \in {{}, S}
  OBVIOUS
<1> QED
  BY <1>0, <1>4, <1>6, <1>8, <1>10, <1>11, <1>12, <1>13, StockLeaves

(* The other handlers, which neither start nor end the preparation of a     *)
(* shipment nor touch the stock.                                           *)
LEMMA NothingBooked ==
  ASSUME Typed, Booked, ShipmentsOK', UNCHANGED <<stock, today, shipment>>
  PROVE  Booked'
<1>1. LoadsFixed
  BY NothingMoves
<1>2. \A i \in DOMAIN shipment : /\ Live(i)' <=> Live(i)
                                 /\ shipment'[i].shipped = shipment[i].shipped
  BY DEF Live
<1> QED
  BY <1>1, <1>2, BookedKept

(* Loading a manifest attaches the shipments of S; their loads stay. *)
LEMMA ManifestLoads ==
  ASSUME Typed, NEW c \in Clients, createManifest(c) \/ consolidateManifestOrders(c)
  PROVE  /\ LoadsFixed
         /\ \A i \in DOMAIN shipment :
              /\ shipment'[i].shipped = shipment[i].shipped
              /\ \/ shipment'[i].status = shipment[i].status
                 \/ i \in req[c].target /\ shipment'[i].status = "consolidated"
<1>1. CASE createManifest(c)
  <2>1. PICK m : shipment' = [i \in DOMAIN shipment |->
                     IF i \in req[c].target THEN [shipment[i] EXCEPT !.manifest = m]
                     ELSE shipment[i]]
    BY <1>1 DEF createManifest
  <2>2. /\ LoadsFixed
        /\ \A i \in DOMAIN shipment :
             Place(shipment'[i]) = IF i \in req[c].target
                                   THEN <<shipment[i].status, m, shipment[i].shipped>>
                                   ELSE Place(shipment[i])
    BY <2>1, AttachMoves
  <2> QED
    BY <2>2 DEF Place
<1>2. CASE consolidateManifestOrders(c)
  <2>1. PICK m : shipment' = [i \in DOMAIN shipment |->
                     IF i \in req[c].target THEN [shipment[i] EXCEPT !.manifest = m,
                                                         !.status = "consolidated"]
                     ELSE shipment[i]]
    BY <1>2, Zenon DEF consolidateManifestOrders
  <2>2. /\ LoadsFixed
        /\ \A i \in DOMAIN shipment :
             Place(shipment'[i]) = IF i \in req[c].target
                                   THEN <<"consolidated", m, shipment[i].shipped>>
                                   ELSE Place(shipment[i])
    BY <2>1, ManifestMoves
  <2> QED
    BY <2>2 DEF Place
<1> QED
  BY <1>1, <1>2

LEMMA ManifestBooked ==
  ASSUME Typed, Tracked, Booked, ShipmentsOK', NEW c \in Clients,
         createManifest(c) \/ consolidateManifestOrders(c)
  PROVE  Booked'
<1>1. UNCHANGED <<stock, today>>
  BY DEF createManifest, consolidateManifestOrders
<1>2. PICK S : S = req[c].target
  OBVIOUS
<1>3. \A i \in S : shipment[i].status = "preparing"
  BY <1>2, ReadyRead DEF createManifest, consolidateManifestOrders, Handles
<1>4. LoadsFixed /\ \A i \in DOMAIN shipment :
                      /\ shipment'[i].shipped = shipment[i].shipped
                      /\ \/ shipment'[i].status = shipment[i].status
                         \/ i \in S /\ shipment'[i].status = "consolidated"
  BY <1>2, ManifestLoads
<1>5. \A i \in DOMAIN shipment : Live(i)' <=> Live(i)
  BY <1>3, <1>4 DEF Live
<1> QED
  BY <1>1, <1>4, <1>5, BookedKept

LEMMA ReceiveBooked ==
  ASSUME Typed, Tracked, Booked, ShipmentsOK', NEW c \in Clients, receiveShipment(c)
  PROVE  Booked'
<1>1. PICK i : i = req[c].target
  OBVIOUS
<1>2. i \in DOMAIN shipment /\ shipment[i].status = "in_transit"
  BY <1>1 DEF Tracked, Typed, RequestsOK, RequestOK, ReadsHold, ReadHolds, receiveShipment,
     Handles
<1>3. UNCHANGED <<stock, today>> /\ shipment' = [shipment EXCEPT ![i].status = "completed"]
  BY <1>1 DEF receiveShipment
<1>4. Moves({i}, "completed", shipment[i].manifest, shipment[i].shipped)
  BY <1>2, <1>3, StatusMoves
<1>5. \A j \in DOMAIN shipment :
        /\ shipment'[j].status = IF j = i THEN "completed" ELSE shipment[j].status
        /\ shipment'[j].shipped = shipment[j].shipped
  BY <1>4 DEF Moves, Place
<1>6. \A j \in DOMAIN shipment : Live(j)' <=> Live(j)
  BY <1>2, <1>5 DEF Live
<1>7. LoadsFixed
  BY <1>4 DEF Moves
<1> QED
  BY <1>3, <1>5, <1>6, <1>7, BookedKept

LEMMA ConfirmBooked ==
  ASSUME Typed, Tracked, Logged, Booked, ShipmentsOK', NEW c \in Clients,
         kitchenProductionConfirm(c)
  PROVE  Booked'
<1>0. InStep /\ ReadsHold
  BY DEF Tracked
<1>1. PICK o : o = OrderOf(c)
  OBVIOUS
<1>2. UNCHANGED <<shipment, today>>
  BY DEF kitchenProductionConfirm
<1>3. CASE acceptProduction(o)
  BY <1>2, <1>3, NothingBooked DEF acceptProduction
<1>4. CASE refuseProduction(o)
  <2>1. o \in Placed /\ order[o].status \in {"pending", "coordinating"}
    BY <1>0, <1>1, StatusRead DEF kitchenProductionConfirm, Handles, AboutOneOrder
  <2>2. PrimaryShipments(o) = {}
    BY <1>0, <2>1, NoShipmentYet
  <2>3. PICK give \in ToRelease(o) : stock' = Released(stock, give)
    BY <1>4 DEF refuseProduction
  <2>4. give \in Bundles /\ \A b \in Batches : give[b] = 0
    BY <2>1, <2>2, ReleaseIsShipment
  <2> QED
    BY <1>2, <2>3, <2>4, NothingReleased
<1> QED
  BY <1>1, <1>3, <1>4 DEF kitchenProductionConfirm

LEMMA InitBooked == Init => Booked
<1> SUFFICES ASSUME Init PROVE Booked
  OBVIOUS
<1>1. DOMAIN shipment = {}
  BY DEF Init
<1>2. LiveShipments = {} /\ Gone = {}
  BY <1>1 DEF LiveShipments, Gone
<1>3. Typed
  BY InitTyped
<1>4. ASSUME NEW b \in Batches
      PROVE  /\ GoodsOf(LiveShipments)[b] = 0 /\ GoodsOf(Gone)[b] = 0
             /\ stock[b].quantity = Opening[b] /\ stock[b].reserved = 0
             /\ stock[b].status = "available" /\ Opening[b] \in Nat
  <2>1. GoodsOf({})[b] = 0
    BY <1>3, GoodsOfParts
  <2>2. stock[b] = [quantity |-> Opening[b], reserved |-> 0, status |-> "available"]
    BY DEF Init
  <2> QED
    BY <1>2, <2>1, <2>2, FulfilmentAssumption
<1> QED
  BY <1>4 DEF Booked

LEMMA NextBooked ==
  Normal /\ Typed /\ Tracked /\ Logged /\ Booked /\ [Next]_vars => Booked'
<1> SUFFICES ASSUME Normal, Typed, Tracked, Logged, Booked, [Next]_vars PROVE Booked'
  OBVIOUS
<1>1. ShipmentsOK'
  BY NextTyped DEF Typed
<1>2. CASE UNCHANGED <<stock, today, shipment>>
  BY <1>1, <1>2, NothingBooked
<1>3. ASSUME NEW c \in Clients, OrderRequest(c) PROVE Booked'
  <2>1. CASE \/ ArriveApprove(c) \/ ArriveConfirm(c) \/ ArriveReject(c) \/ ArriveCancel(c)
             \/ ArriveReceive(c) \/ rejectOrder(c) \/ cancelOrder(c)
    BY <1>2, <2>1 DEF ArriveApprove, ArriveConfirm, ArriveReject, ArriveCancel, ArriveReceive,
       Arrive, rejectOrder, cancelOrder
  <2>2. CASE approveOrder(c)
    <3>1. Handles(c, "approve") /\ UNCHANGED today
      BY <2>2 DEF approveOrder
    <3>2. CASE applyApproval(OrderOf(c))
      BY <1>1, <3>1, <3>2, ApprovalBooked
    <3>3. CASE rejectOutOfStock(OrderOf(c)) \/ awaitProduction(OrderOf(c))
      BY <1>2, <3>1, <3>3 DEF rejectOutOfStock, awaitProduction
    <3> QED
      BY <2>2, <3>2, <3>3 DEF approveOrder
  <2> QED
    BY <1>1, <1>3, <2>1, <2>2, NoOverrides, ConfirmBooked, ReceiveBooked
       DEF OrderRequest, Tracked
<1>4. ASSUME NEW c \in Clients, WarehouseRequest(c) PROVE Booked'
  <2>1. CASE \/ ArriveCancelTask(c) \/ ArriveFinalize(c) \/ ArriveManifest(c)
             \/ ArriveConsolidate(c) \/ ArriveDeparture(c)
    BY <1>2, <2>1 DEF ArriveCancelTask, ArriveFinalize, ArriveManifest, ArriveConsolidate,
       ArriveDeparture, Arrive
  <2> QED
    BY <1>1, <1>4, <2>1, NoOverrides, CancelTaskBooked, FinalizeBooked, ManifestBooked,
       DepartureBooked DEF WarehouseRequest, Tracked
<1>5. ASSUME NEW c \in Clients, ClaimRequest(c) \/ Fail(c) PROVE Booked'
  BY <1>2, <1>5 DEF ClaimRequest, ArriveClaim, ArriveResolve, Arrive, createManualClaim,
     resolveClaim, Fail
<1>6. CASE cronExpireBatches
  BY <1>6, DayBooked
<1>7. CASE UNCHANGED vars \/ \E o \in Orders : createOrder(o)
  BY <1>2, <1>7 DEF vars, createOrder
<1>8. ASSUME NEW i \in DOMAIN shipment, NEW k \in DOMAIN shipment[i].items,
             verifyManifestItem(i, k)
      PROVE  Booked'
  <2>1. LoadsFixed /\ \A j \in DOMAIN shipment : Place(shipment'[j]) = Place(shipment[j])
    BY <1>8, ScanMoves
  <2>2. \A j \in DOMAIN shipment : /\ Live(j)' <=> Live(j)
                                   /\ shipment'[j].shipped = shipment[j].shipped
    BY <2>1 DEF Place, Live
  <2>3. UNCHANGED <<stock, today>>
    BY <1>8 DEF verifyManifestItem
  <2> QED
    BY <1>1, <2>1, <2>2, <2>3, BookedKept
<1> QED
  BY <1>3, <1>4, <1>5, <1>6, <1>7, <1>8 DEF Next

-----------------------------------------------------------------------------
(* What the books are for.                                                 *)

(* The inductive invariant of the workflow. *)
Kept == Typed /\ Tracked /\ Logged /\ Booked

LEMMA BooksAreKept ==
  ASSUME Normal
  PROVE  Spec => []Kept
<1>1. Init => Kept
  BY InitTyped, InitTracked, InitLogged, InitBooked DEF Kept
<1>2. Kept /\ [Next]_vars => Kept'
  <2> SUFFICES ASSUME Kept, [Next]_vars PROVE Kept'
    OBVIOUS
  <2>1. Typed /\ Tracked /\ Logged /\ Booked
    BY DEF Kept
  <2>2. Typed' /\ Tracked' /\ Logged' /\ Booked'
    BY <2>1, NextTyped, NextTracked, NextLogged, NextBooked
  <2> QED
    BY <2>2 DEF Kept
<1> QED
  BY <1>1, <1>2, PTL DEF Spec

(* A shipment never carries more of a product than its order asked for:     *)
(* approvals give what was requested or less, and what was logged for an    *)
(* order is what its shipment carries (SupplyChain!NeverMoreThanRequested). *)
THEOREM RequestsAreLimits ==
  ASSUME Normal
  PROVE  Spec => []NeverMoreThanRequested
<1>1. Kept => NeverMoreThanRequested
  <2> SUFFICES ASSUME Kept, NEW i \in LiveShipments, NEW p \in Products
               PROVE  Total([b \in {b \in Batches : ProductOf[b] = p}
                               |-> Goods(shipment[i].items)[b]])
                        <= Total([o \in shipment[i].linked |-> Requested[o][p]])
    BY DEF NeverMoreThanRequested
  <2>1. PICK q : q = shipment[i].order
    OBVIOUS
  <2>2. /\ shipment[i].linked = {q} /\ q \in Orders
        /\ PerProduct(Goods(shipment[i].items))[p] <= Requested[q][p]
    <3>1. i \in DOMAIN shipment
      BY DEF LiveShipments
    <3>2. shipment[i] \in ShipmentRow
      BY <3>1, ShipmentFacts DEF Kept
    <3> QED
      BY <2>1, <3>1, <3>2 DEF Kept, Tracked, OneEach, Logged, ShipmentRow
  <2>3. Total([b \in {b \in Batches : ProductOf[b] = p} |-> Goods(shipment[i].items)[b]])
          = PerProduct(Goods(shipment[i].items))[p]
    BY DEF PerProduct
  <2>4. Total([o \in {q} |-> Requested[o][p]]) = Requested[q][p]
    <3> DEFINE f == [o \in {q} |-> Requested[o][p]]
    <3>1. DOMAIN f = {q} /\ f[q] = Requested[q][p]
      OBVIOUS
    <3>2. Requested[q][p] \in Int
      BY <2>2, FulfilmentAssumption
    <3> HIDE DEF f
    <3>3. Total(f) = SumOver(f, {q})
      BY <3>1, TotalIsSum
    <3>4. SumOver(f, {q}) = f[q]
      BY <3>1, <3>2, SumSingle
    <3>5. Total(f) = Requested[q][p]
      BY <3>1, <3>3, <3>4
    <3> QED
      BY <3>5 DEF f
  <2> QED
    BY <2>2, <2>3, <2>4
<1> QED
  BY <1>1, BooksAreKept, PTL

(* The kitchen's stock falls by what has left on the trucks and by nothing  *)
(* else: no departure, export, expiry or cancellation counts a shipment     *)
(* twice (SupplyChain!PhysicalFollowsTrucks).                              *)
THEOREM TrucksTakeTheStock ==
  ASSUME Normal
  PROVE  Spec => []PhysicalFollowsTrucks
<1>1. Kept => PhysicalFollowsTrucks
  BY DEF Kept, Booked, Gone, PhysicalFollowsTrucks
<1> QED
  BY <1>1, BooksAreKept, PTL

(* No reservation outlives the shipment it was made for: each cancellation, *)
(* departure or expiry gives back all of what the approval took             *)
(* (SupplyChain!ReservedIsPromised).                                       *)
THEOREM NoReservationLeaks ==
  ASSUME Normal
  PROVE  Spec => []ReservedIsPromised
<1>1. Kept => ReservedIsPromised
  <2> SUFFICES ASSUME Kept, NEW b \in Batches
               PROVE  stock[b].reserved <= GoodsOf(LiveShipments)[b]
    BY DEF ReservedIsPromised
  <2>1. stock[b].reserved \in Int /\ GoodsOf(LiveShipments)[b] \in Nat
    BY StockFacts DEF Kept
  <2> QED
    BY <2>1 DEF Kept, Booked
<1> QED
  BY <1>1, BooksAreKept, PTL

(* Of a batch that has expired, no shipment still in time holds any. *)
LEMMA NothingExpiredInTime ==
  ASSUME Typed, FreshLoads, NEW b \in Batches, ExpiryOf[b] <= today,
         NEW S \in SUBSET DOMAIN shipment,
         \A i \in S : DeliveryOf[shipment[i].order] >= today,
         \A i \in S : shipment[i].linked = {shipment[i].order}
  PROVE  GoodsOf(S)[b] = 0
<1>1. ASSUME NEW i \in S PROVE HeldOf(b)[i] = 0
  <2>1. PICK row : row = shipment[i]
    OBVIOUS
  <2>2. row \in ShipmentRow /\ row.items \in Rows /\ row.order \in Orders
    BY <2>1, ShipmentFacts DEF ShipmentRow, Rows
  <2>3. \A k \in DOMAIN row.items :
          ExpiryOf[row.items[k].batch] > DeliveryOf[row.order] + Margin[row.order]
    BY <2>1 DEF FreshLoads, FreshRow
  <2>4. /\ DeliveryOf[row.order] \in Nat /\ Margin[row.order] \in Nat
        /\ ExpiryOf[b] \in Nat /\ today \in Nat /\ DeliveryOf[row.order] >= today
    BY <2>1, <2>2, FulfilmentAssumption, StockFacts
  <2>5. RowsOf(row.items, b) = {}
    BY <2>3, <2>4 DEF RowsOf
  <2>6. row.items \in Lines
    BY <2>2, RowsAreLines
  <2>7. Goods(row.items)[b] = SumOver(QuantityOf(row.items), {})
    BY <2>5, <2>6, GoodsAreSums
  <2> QED
    BY <2>1, <2>7, SumEmpty DEF HeldOf
<1>2. IsFiniteSet(S) /\ GoodsOf(S)[b] = SumOver(HeldOf(b), S)
  BY GoodsOfSum
<1> QED
  BY <1>1, <1>2, SumOfZeros

(* Until it leaves, what a shipment in time holds stays reserved, whatever  *)
(* is released, exported, cancelled or expires around it                    *)
(* (SupplyChain!PromisedIsReserved).                                       *)
THEOREM PromisesStayReserved ==
  ASSUME Normal
  PROVE  Spec => []PromisedIsReserved
<1>1. OneMargin /\ NoSubstitutes /\ NoBatches
  BY DEF OneMargin, NoSubstitutes, NoBatches, Normal, OwnShipments, Workflow
<1>2. Init => Typed /\ FreshLoads
  <2>1. Init => FreshLoads
    BY DEF Init, FreshLoads, Placed, Idle
  <2> QED
    BY <2>1, InitTyped
<1>3. Typed /\ FreshLoads /\ [Next]_vars => Typed' /\ FreshLoads'
  BY <1>1, NextTyped, NextFresh
<1>4. Kept /\ FreshLoads => PromisedIsReserved
  <2> SUFFICES ASSUME Kept, FreshLoads PROVE PromisedIsReserved
    OBVIOUS
  <2>1. PICK T : T = {i \in LiveShipments : DeliveryOf[shipment[i].order] >= today}
    OBVIOUS
  <2>2. PICK L : L = LiveShipments
    OBVIOUS
  <2>3. L \in SUBSET DOMAIN shipment /\ T \in SUBSET L
    BY <2>1, <2>2 DEF LiveShipments
  <2>4. ASSUME NEW b \in Batches
        PROVE  /\ GoodsOf(T)[b] > 0 => GoodsOf(T)[b] <= stock[b].reserved
               /\ stock[b].status # "expired" => GoodsOf(L)[b] <= stock[b].reserved
    <3>1. /\ stock[b].reserved \in Int /\ stock[b].status \in {"available", "expired"}
          /\ stock[b].status = "available" => stock[b].reserved = GoodsOf(L)[b]
          /\ stock[b].status = "expired" => ExpiryOf[b] <= today
      BY <2>2, StockFacts DEF Kept, Booked
    <3>2. /\ GoodsOf(L)[b] \in Nat /\ GoodsOf(T)[b] \in Nat /\ GoodsOf(L \ T)[b] \in Nat
          /\ GoodsOf(L)[b] = GoodsOf(T)[b] + GoodsOf(L \ T)[b]
      <4>1. /\ T \in SUBSET DOMAIN shipment /\ L \ T \in SUBSET DOMAIN shipment
            /\ T \cap (L \ T) = {} /\ T \cup (L \ T) = L
        BY <2>3
      <4>2. GoodsOf(T \cup (L \ T))[b] = GoodsOf(T)[b] + GoodsOf(L \ T)[b]
        BY <4>1, GoodsOfParts DEF Kept
      <4>3. GoodsOf(L)[b] \in Nat /\ GoodsOf(T)[b] \in Nat /\ GoodsOf(L \ T)[b] \in Nat
        BY <2>3, <4>1, GoodsOfSum DEF Kept
      <4> QED
        BY <4>1, <4>2, <4>3
    <3>3. CASE stock[b].status = "available"
      BY <3>1, <3>2, <3>3
    <3>4. CASE stock[b].status = "expired"
      <4>1. /\ T \in SUBSET DOMAIN shipment
            /\ \A i \in T : DeliveryOf[shipment[i].order] >= today
            /\ \A i \in T : shipment[i].linked = {shipment[i].order}
        BY <2>1, <2>3 DEF Kept, Tracked, OneEach
      <4>2. GoodsOf(T)[b] = 0
        BY <3>1, <3>4, <4>1, NothingExpiredInTime DEF Kept
      <4> QED
        BY <3>4, <4>2
    <3> QED
      BY <3>1, <3>3, <3>4
  <2> QED
    BY <2>1, <2>2, <2>4 DEF PromisedIsReserved
<1>5. Spec => [](Typed /\ FreshLoads)
  BY <1>2, <1>3, PTL DEF Spec
<1> QED
  BY <1>4, <1>5, BooksAreKept, PTL

-----------------------------------------------------------------------------
(* The other end: what the stores were brought is in their stock or in     *)
(* their claims.                                                           *)

(* The goods of a claim that is being made are still there.                 *)
ClaimsCovered ==
  \A c \in Clients : req[c].kind = "claim" =>
    \A b \in Batches :
      req[c].target.lost[b] <= storeStock[StoreOfShipment(req[c].target.shipment)][b]

ClaimsOfStore(s) == {k \in DOMAIN claim : StoreOfShipment(claim[k].shipment) = s}
ClaimedUnits(p) == [k \in DOMAIN claim |-> claim[k].items[p]]

(* A store that has received no shipment with two rows of one batch.        *)
Plain(s) == \A i \in Arrived(s) : OneRowPerBatch(i)

(* The two books of a store, product by product.                           *)
StoreBalanced(s) ==
  /\ storeStock[s] \in Bundles
  /\ \A p \in Products :
       /\ PerProduct(storeStock[s])[p] + SumOver(ClaimedUnits(p), ClaimsOfStore(s))
            >= PerProduct(GoodsOf(Arrived(s)))[p]
       /\ Plain(s) =>
            PerProduct(storeStock[s])[p] + SumOver(ClaimedUnits(p), ClaimsOfStore(s))
              = PerProduct(GoodsOf(Arrived(s)))[p]

Delivered == \A s \in DOMAIN RouteOf : StoreBalanced(s)

(* What a sum over the claims of a store needs: they are finitely many, and *)
(* each names a natural number of units.                                    *)
LEMMA ClaimSums ==
  ASSUME Typed, NEW s, NEW p \in Products
  PROVE  /\ IsFiniteSet(ClaimsOfStore(s))
         /\ Nats(ClaimedUnits(p), DOMAIN claim)
         /\ ClaimsOfStore(s) \in SUBSET DOMAIN claim
         /\ SumOver(ClaimedUnits(p), ClaimsOfStore(s)) \in Nat
         /\ Total([k \in ClaimsOfStore(s) |-> claim[k].items[p]])
              = SumOver(ClaimedUnits(p), ClaimsOfStore(s))
<1> DEFINE S == ClaimsOfStore(s)
           f == [k \in S |-> claim[k].items[p]]
<1>1. claim \in Seq(ClaimRow)
  BY DEF Typed, ClaimsOK
<1>2. IsFiniteSet(DOMAIN claim)
  BY <1>1, FS_Interval
<1>3. S \in SUBSET DOMAIN claim
  BY DEF ClaimsOfStore
<1>4. IsFiniteSet(S)
  BY <1>2, <1>3, FS_Subset
<1>5. \A k \in DOMAIN claim : ClaimedUnits(p)[k] \in Nat
  <2>1. \A k \in DOMAIN claim : claim[k] \in ClaimRow
    BY <1>1
  <2> QED
    BY <2>1 DEF ClaimedUnits, ClaimRow
<1>6. \A k \in S : f[k] = ClaimedUnits(p)[k]
  BY <1>3 DEF ClaimedUnits
<1>7. DOMAIN f = S
  OBVIOUS
<1> HIDE DEF f
<1>8. Total(f) = SumOver(f, S) /\ SumOver(f, S) = SumOver(ClaimedUnits(p), S)
  BY <1>4, <1>6, <1>7, TotalIsSum, SumSame
<1>9. SumOver(ClaimedUnits(p), S) \in Nat
  <2>1. Nats(ClaimedUnits(p), S)
    BY <1>3, <1>5 DEF Nats
  <2> QED
    BY <1>4, <2>1, SumGrows
<1> QED
  BY <1>3, <1>4, <1>5, <1>8, <1>9 DEF f, Nats

(* The two books are the property. *)
LEMMA DeliveredIsAccounted == Typed /\ Delivered => EveryUnitIsAccounted
<1> SUFFICES ASSUME Typed, Delivered, NEW s \in DOMAIN RouteOf
             PROVE  /\ \A b \in Batches : storeStock[s][b] >= 0
                    /\ \A p \in Products :
                         /\ Accounted(s, p) >= PerProduct(GoodsOf(Arrived(s)))[p]
                         /\ Plain(s) => Accounted(s, p) = PerProduct(GoodsOf(Arrived(s)))[p]
  BY DEF EveryUnitIsAccounted, Plain
<1>1. StoreBalanced(s)
  BY DEF Delivered
<1>2. \A b \in Batches : storeStock[s][b] >= 0
  BY <1>1 DEF StoreBalanced, Bundles
<1>3. \A p \in Products :
        Accounted(s, p)
          = PerProduct(storeStock[s])[p] + SumOver(ClaimedUnits(p), ClaimsOfStore(s))
  BY ClaimSums DEF Accounted, ClaimsOfStore
<1> QED
  BY <1>1, <1>2, <1>3 DEF StoreBalanced

(* One product of two bundles. *)
LEMMA PerProductAdds ==
  ASSUME NEW f \in Bundles, NEW g \in Bundles, NEW h \in Bundles,
         \A b \in Batches : h[b] = f[b] + g[b], NEW p \in Products
  PROVE  /\ PerProduct(h)[p] = PerProduct(f)[p] + PerProduct(g)[p]
         /\ PerProduct(f)[p] \in Nat /\ PerProduct(g)[p] \in Nat
<1>1. /\ IsFiniteSet(BatchesOf(p)) /\ BatchesOf(p) \in SUBSET Batches
      /\ \A e \in Bundles : PerProduct(e)[p] = SumOver(e, BatchesOf(p))
                            /\ SumOver(e, BatchesOf(p)) \in Nat
  BY PerProductIsSum
<1>2. Ints(f, BatchesOf(p)) /\ Ints(g, BatchesOf(p))
  BY <1>1 DEF Ints, Bundles
<1>3. SumOver(h, BatchesOf(p)) = SumOver(f, BatchesOf(p)) + SumOver(g, BatchesOf(p))
  BY <1>1, <1>2, SumOfSums
<1> QED
  BY <1>1, <1>3

(* A bundle of nothing. *)
LEMMA PerProductOfNothing ==
  ASSUME NEW f \in Bundles, \A b \in Batches : f[b] = 0, NEW p \in Products
  PROVE  PerProduct(f)[p] = 0
<1>1. /\ IsFiniteSet(BatchesOf(p)) /\ BatchesOf(p) \in SUBSET Batches
      /\ PerProduct(f)[p] = SumOver(f, BatchesOf(p))
  BY PerProductIsSum
<1>2. \A b \in BatchesOf(p) : f[b] = 0
  BY <1>1
<1> QED
  BY <1>1, <1>2, SumOfZeros

(* A receipt splits each row into what came and what is lost, or counts     *)
(* some of it in both: what has come of a batch may be more than the row     *)
(* has, when the batch has another.                                        *)
LEMMA ReceiptSplits ==
  ASSUME NEW items \in Lines, NEW report,
         \A b \in DOMAIN report : report[b] \in ReportsOn(items, b), NEW b \in Batches
  PROVE  LET split == Goods(Came(items, report))[b] + Goods(Lost(items, report))[b]
         IN /\ Goods(items)[b] <= split
            /\ (\A j, k \in RowsOf(items, b) : j = k) => Goods(items)[b] = split
<1>1. PICK came, lost : came = Came(items, report) /\ lost = Lost(items, report)
  OBVIOUS
<1>2. /\ came \in Lines /\ lost \in Lines
      /\ \A k \in DOMAIN items :
           /\ came[k].batch = items[k].batch /\ lost[k].batch = items[k].batch
           /\ came[k].quantity = Credit(items[k], report)
           /\ lost[k].quantity = Loss(items[k], report)
  BY <1>1, ReceiptType
<1>3. DOMAIN came = DOMAIN items /\ DOMAIN lost = DOMAIN items
  BY <1>1 DEF Came, Lost
<1>4. PICK R : R = RowsOf(items, b)
  OBVIOUS
<1>5. RowsOf(came, b) = R /\ RowsOf(lost, b) = R
  BY <1>2, <1>3, <1>4 DEF RowsOf
<1>6. PICK f, g, h : f = QuantityOf(items) /\ g = QuantityOf(came) /\ h = QuantityOf(lost)
  OBVIOUS
<1>7. /\ IsFiniteSet(R) /\ R \in SUBSET DOMAIN items
      /\ Nats(f, R) /\ Nats(g, R) /\ Nats(h, R)
      /\ Goods(items)[b] = SumOver(f, R) /\ Goods(came)[b] = SumOver(g, R)
      /\ Goods(lost)[b] = SumOver(h, R)
  BY <1>2, <1>3, <1>4, <1>5, <1>6, GoodsAreSums DEF Nats
<1>8. ASSUME NEW k \in R
      PROVE  /\ f[k] \in Nat /\ g[k] \in Nat /\ h[k] \in Nat
             /\ f[k] <= g[k] + h[k]
             /\ R = {k} => f[k] = g[k] + h[k]
  <2>1. k \in DOMAIN items /\ items[k].batch = b
    BY <1>4 DEF RowsOf
  <2>2. f[k] \in Nat /\ g[k] \in Nat /\ h[k] \in Nat
    BY <1>7 DEF Nats
  <2>3. /\ f[k] = items[k].quantity
        /\ g[k] = Credit(items[k], report) /\ h[k] = Loss(items[k], report)
    BY <1>2, <1>3, <1>6, <2>1 DEF QuantityOf
  <2>4. CASE b \in DOMAIN report
    <3>1. PICK sent \in Nat : sent = SumOver(f, R) /\ sent = Goods(items)[b]
      BY <1>7, SumGrows
    <3>2. PICK r : r = report[b]
      OBVIOUS
    <3>3. r \in [actual : 0..sent, damaged : 0..sent] /\ r.damaged <= r.actual
      BY <2>4, <3>1, <3>2 DEF ReportsOn
    <3>4. r.actual \in 0..sent /\ r.damaged \in 0..sent /\ r.damaged <= r.actual
      BY <3>3
    <3>5. /\ g[k] = r.actual - r.damaged
          /\ h[k] = Maximum(f[k] - r.actual, 0) + r.damaged
      BY <2>1, <2>3, <2>4, <3>2 DEF Credit, Loss, Reported
    <3>6. ASSUME R = {k} PROVE sent = f[k]
      <4>1. f[k] \in Int
        BY <2>2
      <4>2. SumOver(f, {k}) = f[k]
        BY <4>1, SumSingle, Zenon
      <4>3. SumOver(f, R) = SumOver(f, {k})
        BY <3>6, Zenon
      <4> QED
        BY <3>1, <4>2, <4>3
    <3> QED
      BY <2>2, <3>4, <3>5, <3>6 DEF Maximum
  <2>5. CASE b \notin DOMAIN report
    <3>1. g[k] = f[k] /\ h[k] = 0
      BY <2>1, <2>3, <2>5 DEF Credit, Loss, Reported
    <3> QED
      BY <2>2, <3>1
  <2> QED
    BY <2>4, <2>5
<1>9. PICK both : both = [k \in R |-> g[k] + h[k]]
  OBVIOUS
<1>10. /\ Ints(g, R) /\ Ints(h, R) /\ Ints(f, R) /\ Ints(both, R)
       /\ \A k \in R : both[k] = g[k] + h[k] /\ f[k] <= both[k]
  BY <1>8, <1>9 DEF Ints
<1>11. SumOver(both, R) = SumOver(g, R) + SumOver(h, R)
  BY <1>7, <1>10, SumOfSums
<1>12. SumOver(f, R) <= SumOver(both, R)
  BY <1>7, <1>10, SumsCompare
<1>13. ASSUME \A j, k \in R : j = k PROVE SumOver(f, R) = SumOver(both, R)
  <2>1. \A k \in R : R = {k}
    BY <1>13
  <2>2. \A k \in R : f[k] = both[k]
    BY <1>8, <1>10, <2>1
  <2> QED
    BY <1>7, <2>2, SumSame
<1> QED
  BY <1>1, <1>4, <1>7, <1>11, <1>12, <1>13

(* Nothing is lost when no row is short. *)
LEMMA NothingLost ==
  ASSUME NEW lost \in Lines, \A k \in DOMAIN lost : ~(lost[k].quantity > 0),
         NEW b \in Batches
  PROVE  Goods(lost)[b] = 0
<1>1. /\ IsFiniteSet(RowsOf(lost, b)) /\ RowsOf(lost, b) \in SUBSET DOMAIN lost
      /\ Nats(QuantityOf(lost), DOMAIN lost)
      /\ Goods(lost)[b] = SumOver(QuantityOf(lost), RowsOf(lost, b))
  BY GoodsAreSums
<1>2. \A k \in RowsOf(lost, b) : QuantityOf(lost)[k] = 0
  BY <1>1 DEF Nats, QuantityOf
<1> QED
  BY <1>1, <1>2, SumOfZeros

(* The shipments keep their orders. *)
SameOwners ==
  \A i \in DOMAIN shipment : i \in DOMAIN shipment' /\ shipment'[i].order = shipment[i].order

(* A claim more adds what it names to its store. *)
LEMMA ClaimAdded ==
  ASSUME Typed, NEW i \in DOMAIN shipment, NEW lost \in Bundles,
         claim' = WithClaim(i, lost), SameOwners, NEW s, NEW p \in Products
  PROVE  SumOver(ClaimedUnits(p), ClaimsOfStore(s))'
           = SumOver(ClaimedUnits(p), ClaimsOfStore(s))
               + (IF StoreOfShipment(i) = s THEN PerProduct(lost)[p] ELSE 0)
<1>1. PICK row : row = [shipment |-> i, status |-> "pending", items |-> PerProduct(lost)]
  OBVIOUS
<1>2. row.shipment = i /\ row.items = PerProduct(lost)
  BY <1>1
<1>3. claim' = Append(claim, row) /\ claim \in Seq(ClaimRow)
      /\ \A k \in DOMAIN claim : claim[k].shipment \in DOMAIN shipment
  BY <1>1 DEF WithClaim, Typed, ClaimsOK
<1>4. PICK n : n = Len(claim) + 1
  OBVIOUS
<1>5. /\ n \notin DOMAIN claim /\ DOMAIN claim' = DOMAIN claim \cup {n}
      /\ claim'[n] = row /\ \A k \in DOMAIN claim : claim'[k] = claim[k]
  <2>1. /\ Len(claim) \in Nat /\ DOMAIN claim = 1..Len(claim)
        /\ DOMAIN claim' = 1..(Len(claim) + 1)
        /\ claim'[Len(claim) + 1] = row
        /\ \A k \in DOMAIN claim : claim'[k] = claim[k]
    BY <1>3
  <2> QED
    BY <1>4, <2>1
<1>6. \A j \in DOMAIN shipment : StoreOfShipment(j)' = StoreOfShipment(j)
  BY DEF StoreOfShipment, SameOwners
<1> DEFINE S == ClaimsOfStore(s)
           f == ClaimedUnits(p)
           g == [k \in DOMAIN claim' |-> claim'[k].items[p]]
<1>7. ClaimsOfStore(s)' = IF StoreOfShipment(i) = s THEN S \cup {n} ELSE S
  BY <1>2, <1>3, <1>5, <1>6 DEF ClaimsOfStore
<1>8. ClaimedUnits(p)' = g
  BY DEF ClaimedUnits
<1>9. /\ IsFiniteSet(S) /\ S \in SUBSET DOMAIN claim /\ Nats(f, DOMAIN claim)
      /\ SumOver(f, S) \in Nat
  BY ClaimSums
<1>10. PerProduct(lost)[p] \in Nat
  BY PerProductIsSum
<1>11. g[n] = PerProduct(lost)[p] /\ \A k \in S : g[k] = f[k]
  BY <1>2, <1>5, <1>9 DEF ClaimedUnits
<1> HIDE DEF f, g, S
<1>12. SumOver(g, S) = SumOver(f, S)
  BY <1>9, <1>11, SumSame
<1>13. n \notin S /\ Ints(g, S \cup {n})
  BY <1>5, <1>9, <1>10, <1>11 DEF Nats, Ints
<1>14. SumOver(g, S \cup {n}) = g[n] + SumOver(g, S)
  BY <1>9, <1>13, SumAdd
<1>15. CASE StoreOfShipment(i) = s
  BY <1>7, <1>8, <1>9, <1>10, <1>11, <1>12, <1>14, <1>15 DEF f, S
<1>16. CASE StoreOfShipment(i) # s
  BY <1>7, <1>8, <1>9, <1>12, <1>16 DEF f, S
<1> QED
  BY <1>15, <1>16

(* Claims that keep their shipments and goods keep the sums. *)
LEMMA ClaimsStand ==
  ASSUME Typed, DOMAIN claim' = DOMAIN claim, SameOwners,
         \A k \in DOMAIN claim : claim'[k].shipment = claim[k].shipment
                                 /\ claim'[k].items = claim[k].items,
         NEW s, NEW p \in Products
  PROVE  SumOver(ClaimedUnits(p), ClaimsOfStore(s))'
           = SumOver(ClaimedUnits(p), ClaimsOfStore(s))
<1>1. \A k \in DOMAIN claim : StoreOf[shipment'[claim'[k].shipment].order]
                                = StoreOfShipment(claim[k].shipment)
  BY DEF StoreOfShipment, SameOwners, Typed, ClaimsOK
<1>2. ClaimsOfStore(s)' = ClaimsOfStore(s)
  BY <1>1 DEF ClaimsOfStore, StoreOfShipment
<1>3. ClaimedUnits(p)' = ClaimedUnits(p)
  BY DEF ClaimedUnits
<1> QED
  BY <1>2, <1>3

(* No shipment arrives. *)
LEMMA NothingArrives ==
  ASSUME Typed, SameOwners,
         \A i \in DOMAIN shipment : Goods(shipment'[i].items) = Goods(shipment[i].items),
         \A i \in DOMAIN shipment' : shipment'[i].status = "completed"
           <=> i \in DOMAIN shipment /\ shipment[i].status = "completed",
         NEW s
  PROVE  Arrived(s)' = Arrived(s) /\ GoodsOf(Arrived(s))' = GoodsOf(Arrived(s))
<1>1. \A j \in DOMAIN shipment : StoreOfShipment(j)' = StoreOfShipment(j)
  BY DEF StoreOfShipment, SameOwners
<1>2. Arrived(s)' = Arrived(s) /\ Arrived(s) \in SUBSET DOMAIN shipment
  BY <1>1 DEF Arrived, SameOwners
<1>3. PICK A \in SUBSET DOMAIN shipment : A = Arrived(s)
  BY <1>2
<1>4. \A b : [i \in A |-> Goods(shipment'[i].items)[b]]
               = [i \in A |-> Goods(shipment[i].items)[b]]
  OBVIOUS
<1>5. GoodsOf(A)' = GoodsOf(A)
  BY <1>4 DEF GoodsOf
<1> QED
  BY <1>2, <1>3, <1>5

(* A shipment of store s arrives: its goods join what has arrived there.    *)
LEMMA OneArrives ==
  ASSUME Typed, SameOwners, DOMAIN shipment' = DOMAIN shipment,
         \A j \in DOMAIN shipment : Goods(shipment'[j].items) = Goods(shipment[j].items),
         NEW i \in DOMAIN shipment, shipment[i].status # "completed",
         \A j \in DOMAIN shipment :
           shipment'[j].status = IF j = i THEN "completed" ELSE shipment[j].status,
         NEW s, NEW b \in Batches
  PROVE  GoodsOf(Arrived(s))'[b]
           = GoodsOf(Arrived(s))[b]
               + (IF StoreOfShipment(i) = s THEN Goods(shipment[i].items)[b] ELSE 0)
<1>1. \A j \in DOMAIN shipment : StoreOfShipment(j)' = StoreOfShipment(j)
  BY DEF StoreOfShipment, SameOwners
<1>2. PICK A \in SUBSET DOMAIN shipment : A = Arrived(s) /\ i \notin A
  <2>1. Arrived(s) \in SUBSET DOMAIN shipment /\ i \notin Arrived(s)
    BY DEF Arrived
  <2> QED
    BY <2>1
<1>3. Arrived(s)' = IF StoreOfShipment(i) = s THEN A \cup {i} ELSE A
  BY <1>1, <1>2 DEF Arrived
<1>4. \A S \in SUBSET DOMAIN shipment : GoodsOf(S)' = GoodsOf(S)
  <2>1. ASSUME NEW S \in SUBSET DOMAIN shipment PROVE GoodsOf(S)' = GoodsOf(S)
    <3>1. \A d : [j \in S |-> Goods(shipment'[j].items)[d]]
                   = [j \in S |-> Goods(shipment[j].items)[d]]
      OBVIOUS
    <3> QED
      BY <3>1 DEF GoodsOf
  <2> QED
    BY <2>1
<1>5. A \cup {i} \in SUBSET DOMAIN shipment /\ A \cap {i} = {} /\ {i} \in SUBSET DOMAIN shipment
  BY <1>2
<1>6. GoodsOf(A \cup {i})[b] = GoodsOf(A)[b] + Goods(shipment[i].items)[b]
  <2>1. GoodsOf({i})[b] = Goods(shipment[i].items)[b]
    BY GoodsOfParts
  <2>2. \A B, D \in SUBSET DOMAIN shipment : B \cap D = {} =>
          GoodsOf(B \cup D)[b] = GoodsOf(B)[b] + GoodsOf(D)[b]
    BY GoodsOfParts
  <2>3. GoodsOf(A \cup {i})[b] = GoodsOf(A)[b] + GoodsOf({i})[b]
    BY <1>5, <2>2
  <2> QED
    BY <2>1, <2>3
<1>7. GoodsOf(A)[b] \in Nat
  BY GoodsOfSum
<1>8. GoodsOf(Arrived(s))' = IF StoreOfShipment(i) = s THEN GoodsOf(A \cup {i}) ELSE GoodsOf(A)
  <2>1. PICK B \in SUBSET DOMAIN shipment : B = Arrived(s)'
    BY <1>2, <1>3, <1>5
  <2>2. GoodsOf(Arrived(s))' = GoodsOf(B)'
    BY <2>1 DEF GoodsOf
  <2> QED
    BY <1>3, <1>4, <2>1, <2>2
<1> QED
  BY <1>2, <1>6, <1>7, <1>8

(* A receipt: what came joins the stock of the store, what did not its      *)
(* claims, and together they are the shipment that has arrived.             *)
LEMMA ReceiveDelivered ==
  ASSUME Typed, Tracked, Delivered, ShipmentsOK', NEW c \in Clients,
         receiveShipment(c)
  PROVE  Delivered'
<1>1. PICK i : i = req[c].target
  OBVIOUS
<1>2. i \in DOMAIN shipment /\ shipment[i].status = "in_transit"
  BY <1>1 DEF Tracked, Typed, RequestsOK, RequestOK, ReadsHold, ReadHolds, receiveShipment,
     Handles
<1>3. PICK items : items = shipment[i].items
  OBVIOUS
<1>4. items \in Lines
  BY <1>2, <1>3, ShipmentFacts, RowsAreLines
<1>5. PICK report :
        /\ \A b \in DOMAIN report : report[b] \in ReportsOn(items, b)
        /\ storeStock' = [storeStock EXCEPT ![StoreOfShipment(i)] =
                            Plus(@, Goods(Came(items, report)))]
        /\ claim' = IF \E k \in DOMAIN items : Lost(items, report)[k].quantity > 0
                    THEN WithClaim(i, Goods(Lost(items, report))) ELSE claim
  BY <1>1, <1>3, ReceiptMade
<1>6. PICK came : came = Came(items, report)
  OBVIOUS
<1>7. PICK lost : lost = Lost(items, report)
  OBVIOUS
<1>8. came \in Lines /\ lost \in Lines /\ DOMAIN lost = DOMAIN items
  BY <1>4, <1>5, <1>6, <1>7, ReceiptType DEF Lost
<1>9. PICK in \in Bundles : in = Goods(came)
  BY <1>8, GoodsType
<1>10. PICK out \in Bundles : out = Goods(lost)
  BY <1>8, GoodsType
<1>11. PICK sent \in Bundles : sent = Goods(items)
  BY <1>4, GoodsType
<1>12. PICK more \in Bundles :
         /\ \A b \in Batches : in[b] + out[b] = sent[b] + more[b]
         /\ OneRowPerBatch(i) => \A b \in Batches : more[b] = 0
  <2>1. ASSUME NEW b \in Batches
        PROVE  /\ sent[b] <= in[b] + out[b]
               /\ OneRowPerBatch(i) => sent[b] = in[b] + out[b]
    <3>1. /\ sent[b] <= in[b] + out[b]
          /\ (\A j, k \in RowsOf(items, b) : j = k) => sent[b] = in[b] + out[b]
      BY <1>4, <1>5, <1>6, <1>7, <1>9, <1>10, <1>11, ReceiptSplits
    <3> QED
      BY <1>3, <3>1 DEF OneRowPerBatch
  <2>2. \A b \in Batches : sent[b] \in Nat /\ in[b] \in Nat /\ out[b] \in Nat
    BY DEF Bundles
  <2>3. PICK more : more = [b \in Batches |-> in[b] + out[b] - sent[b]]
    OBVIOUS
  <2>4. \A b \in Batches : /\ more[b] \in Nat /\ in[b] + out[b] = sent[b] + more[b]
                           /\ OneRowPerBatch(i) => more[b] = 0
    <3> SUFFICES ASSUME NEW b \in Batches
                 PROVE  /\ more[b] \in Nat /\ in[b] + out[b] = sent[b] + more[b]
                        /\ OneRowPerBatch(i) => more[b] = 0
      OBVIOUS
    <3> HIDE DEF OneRowPerBatch
    <3> QED
      BY <2>1, <2>2, <2>3
  <2> QED
    BY <2>3, <2>4 DEF Bundles
<1>13. PICK s \in DOMAIN RouteOf : s = StoreOfShipment(i)
  BY <1>2, StoreOfShipmentType
<1>14. /\ storeStock' = [storeStock EXCEPT ![s] = Plus(@, in)]
       /\ \/ claim' = WithClaim(i, out)
          \/ claim' = claim /\ \A b \in Batches : out[b] = 0
  <2>1. CASE \E k \in DOMAIN items : lost[k].quantity > 0
    BY <1>5, <1>6, <1>7, <1>9, <1>10, <1>13, <2>1
  <2>2. CASE ~ \E k \in DOMAIN items : lost[k].quantity > 0
    <3>1. \A b \in Batches : out[b] = 0
      BY <1>8, <1>10, <2>2, NothingLost
    <3> QED
      BY <1>5, <1>6, <1>7, <1>9, <1>13, <2>2, <3>1
  <2> QED
    BY <2>1, <2>2
<1>15. shipment' = [shipment EXCEPT ![i].status = "completed"]
  BY <1>1, ReceiptMade
<1>16. /\ SameOwners /\ DOMAIN shipment' = DOMAIN shipment
       /\ \A j \in DOMAIN shipment : Goods(shipment'[j].items) = Goods(shipment[j].items)
       /\ \A j \in DOMAIN shipment :
            shipment'[j].status = IF j = i THEN "completed" ELSE shipment[j].status
  <2>1. Moves({i}, "completed", shipment[i].manifest, shipment[i].shipped)
    BY <1>2, <1>15, StatusMoves
  <2>2. LoadsFixed
    BY <2>1 DEF Moves
  <2> QED
    BY <2>1, <2>2, GoodsOfKept DEF Moves, Place, LoadsFixed, SameLoad, SameOwners
<1>18. \A j \in DOMAIN shipment : OneRowPerBatch(j)' => OneRowPerBatch(j)
  <2>1. \A j \in DOMAIN shipment : shipment'[j].items = shipment[j].items
    <3>1. \A j \in DOMAIN shipment : shipment[j] \in ShipmentRow
      BY ShipmentFacts
    <3> QED
      BY <1>15, <3>1 DEF ShipmentRow
  <2> QED
    BY <2>1 DEF OneRowPerBatch
<1>17. ASSUME NEW t \in DOMAIN RouteOf
       PROVE  StoreBalanced(t)'
  <2>1. StoreBalanced(t) /\ storeStock[t] \in Bundles
    BY DEF Delivered, StoreBalanced
  <2>2. GoodsOf(Arrived(t)) \in Bundles
    BY GoodsOfType DEF Arrived
  <2>3. \A b \in Batches : GoodsOf(Arrived(t))'[b]
                             = GoodsOf(Arrived(t))[b] + (IF s = t THEN sent[b] ELSE 0)
    BY <1>2, <1>3, <1>11, <1>13, <1>16, OneArrives
  <2>4. \A p \in Products :
          SumOver(ClaimedUnits(p), ClaimsOfStore(t))'
            = SumOver(ClaimedUnits(p), ClaimsOfStore(t))
                + (IF s = t THEN PerProduct(out)[p] ELSE 0)
    <3> SUFFICES ASSUME NEW p \in Products
                 PROVE  SumOver(ClaimedUnits(p), ClaimsOfStore(t))'
                          = SumOver(ClaimedUnits(p), ClaimsOfStore(t))
                              + (IF s = t THEN PerProduct(out)[p] ELSE 0)
      OBVIOUS
    <3>1. CASE claim' = WithClaim(i, out)
      BY <1>2, <1>13, <1>16, <3>1, ClaimAdded
    <3>2. CASE claim' = claim /\ \A b \in Batches : out[b] = 0
      <4>1. SumOver(ClaimedUnits(p), ClaimsOfStore(t))'
              = SumOver(ClaimedUnits(p), ClaimsOfStore(t))
        BY <1>16, <3>2, ClaimsStand
      <4>2. PerProduct(out)[p] = 0
        <5>1. /\ IsFiniteSet(BatchesOf(p)) /\ BatchesOf(p) \in SUBSET Batches
              /\ PerProduct(out)[p] = SumOver(out, BatchesOf(p))
          BY PerProductIsSum
        <5>2. \A b \in BatchesOf(p) : out[b] = 0
          BY <3>2, <5>1
        <5> QED
          BY <5>1, <5>2, SumOfZeros
      <4>3. SumOver(ClaimedUnits(p), ClaimsOfStore(t)) \in Nat
        BY ClaimSums
      <4> QED
        BY <4>1, <4>2, <4>3
    <3> QED
      BY <1>14, <3>1, <3>2
  <2>7. /\ Plain(t)' => Plain(t)
        /\ s = t => (Plain(t)' => OneRowPerBatch(i))
    <3>1. Arrived(t) \subseteq Arrived(t)' /\ (s = t => i \in Arrived(t)')
      BY <1>2, <1>13, <1>16 DEF Arrived, StoreOfShipment, SameOwners
    <3>2. Arrived(t) \subseteq DOMAIN shipment
      BY DEF Arrived
    <3>3. ASSUME Plain(t)' PROVE \A j \in Arrived(t)' : OneRowPerBatch(j)'
      BY <3>3 DEF Plain
    <3> QED
      BY <1>2, <1>18, <3>1, <3>2, <3>3 DEF Plain
  <2>5. CASE s # t
    <3>1. storeStock'[t] = storeStock[t]
      BY <1>14, <2>5 DEF Typed, StoresOK
    <3>2. GoodsOf(Arrived(t))' = GoodsOf(Arrived(t))
      <4>1. GoodsOf(Arrived(t))' = [b \in Batches |-> GoodsOf(Arrived(t))'[b]]
        BY DEF GoodsOf
      <4>2. \A b \in Batches : GoodsOf(Arrived(t))'[b] = GoodsOf(Arrived(t))[b]
        BY <2>2, <2>3, <2>5 DEF Bundles
      <4> QED
        BY <2>2, <4>1, <4>2 DEF Bundles
    <3>3. \A p \in Products : SumOver(ClaimedUnits(p), ClaimsOfStore(t))'
                                = SumOver(ClaimedUnits(p), ClaimsOfStore(t))
      <4>1. \A p \in Products : SumOver(ClaimedUnits(p), ClaimsOfStore(t)) \in Nat
        BY ClaimSums
      <4> QED
        BY <2>4, <2>5, <4>1
    <3> QED
      BY <2>1, <2>7, <3>1, <3>2, <3>3 DEF StoreBalanced
  <2>6. CASE s = t
    <3>1. PICK new \in Bundles : new = storeStock'[t]
      <4>1. storeStock'[t] = Plus(storeStock[t], in)
        BY <1>14, <2>6 DEF Typed, StoresOK
      <4>2. Plus(storeStock[t], in) \in Bundles
        BY <2>1 DEF Plus, Bundles
      <4> QED
        BY <4>1, <4>2
    <3>2. \A b \in Batches : new[b] = storeStock[t][b] + in[b]
      BY <1>14, <2>6, <3>1 DEF Typed, StoresOK, Plus
    <3>3. PICK all \in Bundles : all = GoodsOf(Arrived(t))'
      <4>1. GoodsOf(Arrived(t))' = [b \in Batches |-> GoodsOf(Arrived(t))'[b]]
        BY DEF GoodsOf
      <4>2. \A b \in Batches : GoodsOf(Arrived(t))'[b] \in Nat
        BY <2>2, <2>3, <2>6 DEF Bundles
      <4> QED
        BY <4>1, <4>2 DEF Bundles
    <3>4. \A b \in Batches : all[b] = GoodsOf(Arrived(t))[b] + sent[b]
      BY <2>3, <2>6, <3>3
    <3>5. ASSUME NEW p \in Products
          PROVE  /\ PerProduct(new)[p] + SumOver(ClaimedUnits(p), ClaimsOfStore(t))'
                      >= PerProduct(all)[p]
                 /\ Plain(t)' =>
                      PerProduct(new)[p] + SumOver(ClaimedUnits(p), ClaimsOfStore(t))'
                        = PerProduct(all)[p]
      <4>1. /\ PerProduct(new)[p] = PerProduct(storeStock[t])[p] + PerProduct(in)[p]
            /\ PerProduct(storeStock[t])[p] \in Nat /\ PerProduct(in)[p] \in Nat
        BY <2>1, <3>2, PerProductAdds
      <4>2. /\ PerProduct(all)[p] = PerProduct(GoodsOf(Arrived(t)))[p] + PerProduct(sent)[p]
            /\ PerProduct(GoodsOf(Arrived(t)))[p] \in Nat /\ PerProduct(sent)[p] \in Nat
        BY <2>2, <3>4, PerProductAdds
      <4>3. /\ PerProduct(in)[p] + PerProduct(out)[p] = PerProduct(sent)[p] + PerProduct(more)[p]
            /\ PerProduct(out)[p] \in Nat /\ PerProduct(more)[p] \in Nat
            /\ Plain(t)' => PerProduct(more)[p] = 0
        <5>1. PICK both : both = [b \in Batches |-> in[b] + out[b]]
          OBVIOUS
        <5>2. both \in Bundles /\ \A b \in Batches : both[b] = in[b] + out[b]
                                                    /\ both[b] = sent[b] + more[b]
          BY <1>12, <5>1 DEF Bundles
        <5>3. /\ PerProduct(both)[p] = PerProduct(in)[p] + PerProduct(out)[p]
              /\ PerProduct(both)[p] = PerProduct(sent)[p] + PerProduct(more)[p]
              /\ PerProduct(out)[p] \in Nat /\ PerProduct(more)[p] \in Nat
          <6>1. in \in Bundles /\ out \in Bundles /\ both \in Bundles
            BY <1>12, <2>1, <5>2
          <6>2. sent \in Bundles /\ more \in Bundles
            BY <1>12, <2>2
          <6>3. \A b \in Batches : both[b] = in[b] + out[b]
            BY <5>2
          <6>4. \A b \in Batches : both[b] = sent[b] + more[b]
            BY <5>2
          <6>5. /\ PerProduct(both)[p] = PerProduct(in)[p] + PerProduct(out)[p]
                /\ PerProduct(out)[p] \in Nat
            BY <6>1, <6>3, PerProductAdds
          <6>6. /\ PerProduct(both)[p] = PerProduct(sent)[p] + PerProduct(more)[p]
                /\ PerProduct(more)[p] \in Nat
            BY <5>2, <6>2, <6>4, PerProductAdds
          <6> QED
            BY <6>5, <6>6
        <5>4. ASSUME Plain(t)' PROVE PerProduct(more)[p] = 0
          <6>1. \A b \in Batches : more[b] = 0
            BY <1>12, <2>6, <2>7, <5>4
          <6> QED
            BY <6>1, PerProductOfNothing
        <5> QED
          BY <5>3, <5>4
      <4>4. SumOver(ClaimedUnits(p), ClaimsOfStore(t))'
              = SumOver(ClaimedUnits(p), ClaimsOfStore(t)) + PerProduct(out)[p]
        BY <2>4, <2>6
      <4>5. /\ PerProduct(storeStock[t])[p] + SumOver(ClaimedUnits(p), ClaimsOfStore(t))
                 >= PerProduct(GoodsOf(Arrived(t)))[p]
            /\ Plain(t) =>
                 PerProduct(storeStock[t])[p] + SumOver(ClaimedUnits(p), ClaimsOfStore(t))
                   = PerProduct(GoodsOf(Arrived(t)))[p]
            /\ SumOver(ClaimedUnits(p), ClaimsOfStore(t)) \in Nat
        BY <2>1, ClaimSums DEF StoreBalanced
      <4>6. PICK a, d, e, i1, o1, n1, m1 :
              /\ a = PerProduct(storeStock[t])[p] /\ i1 = PerProduct(in)[p]
              /\ d = SumOver(ClaimedUnits(p), ClaimsOfStore(t)) /\ o1 = PerProduct(out)[p]
              /\ e = PerProduct(GoodsOf(Arrived(t)))[p] /\ n1 = PerProduct(sent)[p]
              /\ m1 = PerProduct(more)[p]
        OBVIOUS
      <4>7. /\ a \in Nat /\ d \in Nat /\ e \in Nat
            /\ i1 \in Nat /\ o1 \in Nat /\ n1 \in Nat /\ m1 \in Nat
            /\ a + d >= e /\ i1 + o1 = n1 + m1
        BY <4>1, <4>2, <4>3, <4>5, <4>6
      <4>8. /\ PerProduct(new)[p] + SumOver(ClaimedUnits(p), ClaimsOfStore(t))'
                 = (a + i1) + (d + o1)
            /\ PerProduct(all)[p] = e + n1
        BY <4>1, <4>2, <4>4, <4>6
      <4>9. Plain(t)' => m1 = 0 /\ a + d = e
        BY <2>7, <4>3, <4>5, <4>6
      <4> QED
        BY <4>7, <4>8, <4>9
    <3>6. PerProduct(storeStock[t])' = PerProduct(new)
          /\ PerProduct(GoodsOf(Arrived(t)))' = PerProduct(all)
      BY <3>1, <3>3 DEF PerProduct
    <3> QED
      BY <3>1, <3>5, <3>6 DEF StoreBalanced
  <2> QED
    BY <2>5, <2>6
<1> QED
  BY <1>17 DEF Delivered

(* A claim moves what it names from the stock of its store to its claims.   *)
LEMMA ClaimDelivered ==
  ASSUME Typed, Delivered, ClaimsCovered, NEW c \in Clients, createManualClaim(c)
  PROVE  Delivered'
<1>1. PICK i : i = req[c].target.shipment
  OBVIOUS
<1>2. i \in DOMAIN shipment /\ req[c].target.lost \in Bundles /\ req[c].kind = "claim"
  <2>1. RequestOK(req[c]) /\ req[c].kind = "claim"
    BY DEF Typed, RequestsOK, createManualClaim, Handles
  <2> QED
    BY <1>1, <2>1 DEF RequestOK
<1>3. PICK out \in Bundles : out = req[c].target.lost
  BY <1>2
<1>4. PICK s \in DOMAIN RouteOf : s = StoreOfShipment(i)
  BY <1>2, StoreOfShipmentType
<1>5. \A b \in Batches : out[b] <= storeStock[s][b]
  BY <1>1, <1>2, <1>3, <1>4 DEF ClaimsCovered
<1>6. /\ UNCHANGED shipment /\ claim' = WithClaim(i, out)
      /\ storeStock' = [storeStock EXCEPT ![s] = [b \in Batches |-> @[b] - out[b]]]
  BY <1>1, <1>3, <1>4 DEF createManualClaim
<1>7. SameOwners
  BY <1>6 DEF SameOwners
<1>8. ASSUME NEW t \in DOMAIN RouteOf
      PROVE  StoreBalanced(t)'
  <2>1. StoreBalanced(t) /\ storeStock[t] \in Bundles
    BY DEF Delivered, StoreBalanced
  <2>2. GoodsOf(Arrived(t))' = GoodsOf(Arrived(t))
    BY <1>6, <1>7, NothingArrives
  <2>6. Plain(t)' => Plain(t)
    <3>1. Arrived(t)' = Arrived(t) /\ \A j : OneRowPerBatch(j)' <=> OneRowPerBatch(j)
      BY <1>6 DEF Arrived, StoreOfShipment, OneRowPerBatch
    <3> QED
      BY <3>1 DEF Plain
  <2>3. \A p \in Products :
          SumOver(ClaimedUnits(p), ClaimsOfStore(t))'
            = SumOver(ClaimedUnits(p), ClaimsOfStore(t))
                + (IF s = t THEN PerProduct(out)[p] ELSE 0)
    BY <1>2, <1>4, <1>6, <1>7, ClaimAdded
  <2>4. CASE s # t
    <3>1. storeStock'[t] = storeStock[t]
      BY <1>6, <2>4 DEF Typed, StoresOK
    <3>2. \A p \in Products : SumOver(ClaimedUnits(p), ClaimsOfStore(t))'
                                = SumOver(ClaimedUnits(p), ClaimsOfStore(t))
      <4>1. \A p \in Products : SumOver(ClaimedUnits(p), ClaimsOfStore(t)) \in Nat
        BY ClaimSums
      <4> QED
        BY <2>3, <2>4, <4>1
    <3> QED
      BY <2>1, <2>2, <2>6, <3>1, <3>2 DEF StoreBalanced
  <2>5. CASE s = t
    <3>1. PICK new \in Bundles :
            new = storeStock'[t] /\ \A b \in Batches : storeStock[t][b] = new[b] + out[b]
      <4>1. storeStock'[t] = [b \in Batches |-> storeStock[t][b] - out[b]]
        BY <1>6, <2>5 DEF Typed, StoresOK
      <4>2. [b \in Batches |-> storeStock[t][b] - out[b]] \in Bundles
        BY <1>5, <2>1, <2>5 DEF Bundles
      <4> QED
        BY <2>1, <4>1, <4>2 DEF Bundles
    <3>2. ASSUME NEW p \in Products
          PROVE  PerProduct(new)[p] + SumOver(ClaimedUnits(p), ClaimsOfStore(t))'
                   = PerProduct(storeStock[t])[p] + SumOver(ClaimedUnits(p), ClaimsOfStore(t))
      <4>1. /\ PerProduct(storeStock[t])[p] = PerProduct(new)[p] + PerProduct(out)[p]
            /\ PerProduct(new)[p] \in Nat /\ PerProduct(out)[p] \in Nat
        BY <2>1, <3>1, PerProductAdds
      <4>2. SumOver(ClaimedUnits(p), ClaimsOfStore(t))'
              = SumOver(ClaimedUnits(p), ClaimsOfStore(t)) + PerProduct(out)[p]
        BY <2>3, <2>5
      <4>3. SumOver(ClaimedUnits(p), ClaimsOfStore(t)) \in Nat
        BY ClaimSums
      <4> QED
        BY <4>1, <4>2, <4>3
    <3>3. PerProduct(storeStock[t])' = PerProduct(new)
          /\ PerProduct(GoodsOf(Arrived(t)))' = PerProduct(GoodsOf(Arrived(t)))
      BY <2>2, <3>1 DEF PerProduct
    <3> QED
      BY <2>1, <2>6, <3>1, <3>2, <3>3 DEF StoreBalanced
  <2> QED
    BY <2>4, <2>5
<1> QED
  BY <1>8 DEF Delivered

(* No goods arrive, are claimed or leave a store. *)
LEMMA NothingDelivered ==
  ASSUME Typed, Delivered, UNCHANGED storeStock, SameOwners,
         DOMAIN claim' = DOMAIN claim,
         \A k \in DOMAIN claim : claim'[k].shipment = claim[k].shipment
                                 /\ claim'[k].items = claim[k].items,
         \A i \in DOMAIN shipment : Goods(shipment'[i].items) = Goods(shipment[i].items),
         \A i \in DOMAIN shipment : OneRowPerBatch(i)' => OneRowPerBatch(i),
         \A i \in DOMAIN shipment' : shipment'[i].status = "completed"
           <=> i \in DOMAIN shipment /\ shipment[i].status = "completed"
  PROVE  Delivered'
<1>1. ASSUME NEW t \in DOMAIN RouteOf
      PROVE  StoreBalanced(t)'
  <2>1. StoreBalanced(t)
    BY DEF Delivered
  <2>2. GoodsOf(Arrived(t))' = GoodsOf(Arrived(t)) /\ Arrived(t)' = Arrived(t)
    BY NothingArrives
  <2>4. Plain(t)' => Plain(t)
    <3>1. Arrived(t) \subseteq DOMAIN shipment
      BY DEF Arrived
    <3>2. ASSUME Plain(t)' PROVE \A i \in Arrived(t)' : OneRowPerBatch(i)'
      BY <3>2 DEF Plain
    <3> QED
      BY <2>2, <3>1, <3>2 DEF Plain
  <2>3. \A p \in Products : SumOver(ClaimedUnits(p), ClaimsOfStore(t))'
                              = SumOver(ClaimedUnits(p), ClaimsOfStore(t))
    BY ClaimsStand
  <2> QED
    BY <2>1, <2>2, <2>3, <2>4 DEF StoreBalanced
<1> QED
  BY <1>1 DEF Delivered

(* A shipment with the same rows has two of a batch if it had.              *)
LEMMA RowsStay ==
  ASSUME LoadsFixed, NEW i \in DOMAIN shipment, OneRowPerBatch(i)'
  PROVE  OneRowPerBatch(i)
<1>1. \A b \in Batches : RowsOf(shipment'[i].items, b) = RowsOf(shipment[i].items, b)
  BY DEF LoadsFixed, SameLoad, RowsOf
<1> QED
  BY <1>1 DEF OneRowPerBatch

(* A step in which no shipment is received and no claim is made. *)
NoneArrive ==
  /\ UNCHANGED <<storeStock, claim>> /\ LoadsFixed
  /\ \A i \in DOMAIN shipment :
       \/ shipment'[i].status = shipment[i].status
       \/ shipment[i].status # "completed" /\ shipment'[i].status # "completed"

LEMMA NoneArriveDelivered ==
  ASSUME Typed, Delivered, ShipmentsOK', NoneArrive
  PROVE  Delivered'
<1>1. LoadsFixed
  BY DEF NoneArrive
<1>2. SameOwners
  BY <1>1 DEF LoadsFixed, SameLoad, SameOwners
<1>3. \A i \in DOMAIN shipment : Goods(shipment'[i].items) = Goods(shipment[i].items)
  BY <1>1, GoodsOfKept
<1>4. \A i \in DOMAIN shipment' : shipment'[i].status = "completed"
        <=> i \in DOMAIN shipment /\ shipment[i].status = "completed"
  BY DEF NoneArrive, LoadsFixed
<1>5. UNCHANGED <<storeStock, claim>>
  BY DEF NoneArrive
<1>6. \A k \in DOMAIN claim : claim'[k].shipment = claim[k].shipment
                              /\ claim'[k].items = claim[k].items
  BY <1>5
<1> QED
  BY <1>1, <1>2, <1>3, <1>4, <1>5, <1>6, RowsStay, NothingDelivered

(* One shipment moves on, neither from "completed" nor to it. *)
LEMMA OneMovesOn ==
  ASSUME NEW i \in DOMAIN shipment, NEW st, NEW m, NEW shipped,
         Moves({i}, st, m, shipped), shipment[i].status # "completed", st # "completed",
         UNCHANGED <<storeStock, claim>>
  PROVE  NoneArrive
<1>1. \A j \in DOMAIN shipment :
        shipment'[j].status = IF j = i THEN st ELSE shipment[j].status
  BY DEF Moves, Place
<1> QED
  BY <1>1 DEF NoneArrive, Moves

(* The handlers of the warehouse act on shipments that have not arrived.    *)
LEMMA CancelTaskArrivesNone ==
  ASSUME Typed, Tracked, NEW c \in Clients, cancelPickingTask(c)
  PROVE  NoneArrive
<1>0. OneEach /\ InStep /\ ReadsHold
  BY DEF Tracked
<1>1. PICK o : o = OrderOf(c)
  OBVIOUS
<1>2. o \in Placed /\ order[o].status \in {"approved", "picking"}
  BY <1>0, <1>1, StatusRead DEF cancelPickingTask, Handles, AboutOneOrder
<1>3. /\ UNCHANGED <<storeStock, claim>>
      /\ IF ShipmentsOf(o) = {} THEN UNCHANGED shipment
         ELSE \E i \in ShipmentsOf(o) : shipment' = [shipment EXCEPT ![i].status = "cancelled"]
  BY <1>1 DEF cancelPickingTask
<1>4. ShipmentsOf(o) = PrimaryShipments(o)
  BY <1>0, OwnShipment
<1>5. CASE PrimaryShipments(o) = {}
  <2>1. UNCHANGED shipment
    BY <1>3, <1>4, <1>5
  <2> QED
    BY <1>3, <2>1, NothingMoves DEF NoneArrive
<1>6. CASE PrimaryShipments(o) # {}
  <2>1. PICK i \in PrimaryShipments(o) : shipment' = [shipment EXCEPT ![i].status = "cancelled"]
    BY <1>3, <1>4, <1>6
  <2>2. i \in DOMAIN shipment /\ shipment[i].order = o
    BY DEF PrimaryShipments
  <2>3. Live(i)
    BY <1>0, <1>2, <2>2, NotReceived
  <2>4. Moves({i}, "cancelled", shipment[i].manifest, shipment[i].shipped)
    BY <2>1, <2>2, StatusMoves
  <2> QED
    BY <1>3, <2>2, <2>3, <2>4, OneMovesOn DEF Live
<1> QED
  BY <1>5, <1>6

LEMMA FinalizeArrivesNone ==
  ASSUME Typed, Tracked, NEW c \in Clients, finalizeBulkShipment(c)
  PROVE  NoneArrive
<1>0. OneEach /\ InStep /\ ReadsHold
  BY DEF Tracked
<1>1. PICK o : o = OrderOf(c)
  OBVIOUS
<1>2. o \in Placed /\ order[o].status = "approved"
  BY <1>0, <1>1, StatusRead DEF finalizeBulkShipment, Handles, AboutOneOrder
<1>3. /\ UNCHANGED <<storeStock, claim>>
      /\ IF PrimaryShipments(o) = {} THEN UNCHANGED <<stock, shipment>>
         ELSE \E i \in PrimaryShipments(o) :
                shipment' = [shipment EXCEPT ![i].status = "in_transit", ![i].shipped = TRUE]
  BY <1>1 DEF finalizeBulkShipment
<1>4. CASE PrimaryShipments(o) = {}
  <2>1. UNCHANGED shipment
    BY <1>3, <1>4
  <2> QED
    BY <1>3, <2>1, NothingMoves DEF NoneArrive
<1>5. CASE PrimaryShipments(o) # {}
  <2>1. PICK i \in PrimaryShipments(o) :
          shipment' = [shipment EXCEPT ![i].status = "in_transit", ![i].shipped = TRUE]
    BY <1>3, <1>5
  <2>2. i \in DOMAIN shipment /\ shipment[i].order = o
    BY DEF PrimaryShipments
  <2>3. Live(i)
    BY <1>0, <1>2, <2>2, NotReceived
  <2>4. Moves({i}, "in_transit", shipment[i].manifest, TRUE)
    BY <2>1, <2>2, DispatchMoves
  <2> QED
    BY <1>3, <2>2, <2>3, <2>4, OneMovesOn DEF Live
<1> QED
  BY <1>4, <1>5

LEMMA DepartureArrivesNone ==
  ASSUME Typed, Tracked, NEW c \in Clients, confirmManifestDeparture(c)
  PROVE  NoneArrive
<1>1. req[c].kind = "depart"
  BY DEF confirmManifestDeparture, Handles
<1>2. PICK load : load = req[c].target.load /\ \A i \in DOMAIN load : Live(i)
  BY <1>1, DepartureRead
<1>3. PICK S : S = DOMAIN load
  OBVIOUS
<1>4. shipment' = [i \in DOMAIN shipment |->
                     IF i \in S
                     THEN [shipment[i] EXCEPT !.status = "in_transit", !.shipped = TRUE]
                     ELSE shipment[i]]
  BY <1>2, <1>3 DEF confirmManifestDeparture
<1>5. /\ LoadsFixed
      /\ \A i \in DOMAIN shipment :
           Place(shipment'[i]) = IF i \in S THEN <<"in_transit", shipment[i].manifest, TRUE>>
                                 ELSE Place(shipment[i])
  BY <1>4, TruckMoves
<1>6. \A i \in DOMAIN shipment :
        shipment'[i].status = IF i \in S THEN "in_transit" ELSE shipment[i].status
  BY <1>5 DEF Place
<1>7. UNCHANGED <<storeStock, claim>>
  BY DEF confirmManifestDeparture
<1> QED
  BY <1>2, <1>3, <1>5, <1>6, <1>7 DEF NoneArrive, Live

LEMMA ManifestArrivesNone ==
  ASSUME Typed, Tracked, NEW c \in Clients, createManifest(c) \/ consolidateManifestOrders(c)
  PROVE  NoneArrive
<1>1. UNCHANGED <<storeStock, claim>>
  BY DEF createManifest, consolidateManifestOrders
<1>2. PICK S : S = req[c].target
  OBVIOUS
<1>3. \A i \in S : shipment[i].status = "preparing"
  BY <1>2, ReadyRead DEF createManifest, consolidateManifestOrders, Handles
<1>4. LoadsFixed /\ \A i \in DOMAIN shipment :
                      \/ shipment'[i].status = shipment[i].status
                      \/ i \in S /\ shipment'[i].status = "consolidated"
  BY <1>2, ManifestLoads
<1> QED
  BY <1>1, <1>3, <1>4 DEF NoneArrive

(* A verdict on a claim moves no goods. *)
LEMMA VerdictDelivered ==
  ASSUME Typed, Delivered, ShipmentsOK', NEW c \in Clients, resolveClaim(c)
  PROVE  Delivered'
<1>1. PICK k, verdict : claim' = [claim EXCEPT ![k].status = verdict]
  BY DEF resolveClaim
<1>2. UNCHANGED <<shipment, storeStock>>
  BY DEF resolveClaim
<1>3. DOMAIN claim' = DOMAIN claim
      /\ \A n \in DOMAIN claim :
           claim'[n] = IF n = k THEN [claim[n] EXCEPT !.status = verdict] ELSE claim[n]
  BY <1>1 DEF Typed, ClaimsOK
<1>4. \A row \in ClaimRow : /\ [row EXCEPT !.status = verdict].shipment = row.shipment
                            /\ [row EXCEPT !.status = verdict].items = row.items
  BY DEF ClaimRow
<1>5. ASSUME NEW n \in DOMAIN claim
      PROVE  claim'[n].shipment = claim[n].shipment /\ claim'[n].items = claim[n].items
  <2>1. claim[n] \in ClaimRow
    BY DEF Typed, ClaimsOK
  <2> QED
    BY <1>3, <1>4, <2>1
<1>6. SameOwners
  BY <1>2 DEF SameOwners
<1>7. \A i \in DOMAIN shipment : OneRowPerBatch(i)' => OneRowPerBatch(i)
  BY <1>2 DEF OneRowPerBatch
<1> QED
  BY <1>2, <1>3, <1>5, <1>6, <1>7, NothingDelivered

(* A new shipment has not arrived anywhere. *)
LEMMA ApprovalDelivered ==
  ASSUME Typed, Tracked, Delivered, NEW c \in Clients, Handles(c, "approve"),
         applyApproval(OrderOf(c)), UNCHANGED <<storeStock, claim>>
  PROVE  Delivered'
<1>1. PICK row : /\ row.status = "preparing"
                 /\ shipment' = Append(shipment, row)
  <2>1. PICK row : row = NewShipment(OrderOf(c), {OrderOf(c)}, OrderOf(c), "preparing",
                                     ItemsOf(Taken(OrderOf(c)), FirstLine[OrderOf(c)]))
    OBVIOUS
  <2>2. row.status = "preparing"
    BY <2>1 DEF NewShipment
  <2>3. shipment' = Append(shipment, row)
    BY <2>1, ApprovalMakes
  <2> QED
    BY <2>2, <2>3
<1>2. PICK n : n = Len(shipment) + 1
  OBVIOUS
<1>3. /\ DOMAIN shipment' = DOMAIN shipment \cup {n} /\ n \notin DOMAIN shipment
      /\ \A i \in DOMAIN shipment : shipment'[i] = shipment[i]
      /\ shipment'[n] = row
  BY <1>1, <1>2, ShipmentAdded
<1>4. SameOwners
  BY <1>3 DEF SameOwners
<1>5. \A i \in DOMAIN shipment' : shipment'[i].status = "completed"
        <=> i \in DOMAIN shipment /\ shipment[i].status = "completed"
  BY <1>1, <1>3
<1>6. \A i \in DOMAIN shipment : Goods(shipment'[i].items) = Goods(shipment[i].items)
  BY <1>3
<1>7. \A k \in DOMAIN claim : claim'[k].shipment = claim[k].shipment
                              /\ claim'[k].items = claim[k].items
  OBVIOUS
<1>8. \A i \in DOMAIN shipment : OneRowPerBatch(i)' => OneRowPerBatch(i)
  BY <1>3 DEF OneRowPerBatch
<1> QED
  BY <1>4, <1>5, <1>6, <1>7, <1>8, NothingDelivered

(* Every step keeps the two books of the stores. *)
LEMMA NextDelivered ==
  Normal /\ Typed /\ Tracked /\ ClaimsCovered /\ Delivered /\ [Next]_vars
    => Delivered'
<1> SUFFICES ASSUME Normal, Typed, Tracked, ClaimsCovered, Delivered, [Next]_vars
             PROVE  Delivered'
  OBVIOUS
<1>1. ShipmentsOK'
  BY NextTyped DEF Typed
<1>2. CASE UNCHANGED <<shipment, storeStock, claim>>
  <2>1. NoneArrive
    BY <1>2, NothingMoves DEF NoneArrive
  <2> QED
    BY <1>1, <2>1, NoneArriveDelivered
<1>3. ASSUME NEW c \in Clients, OrderRequest(c) PROVE Delivered'
  <2>1. CASE \/ ArriveApprove(c) \/ ArriveConfirm(c) \/ ArriveReject(c) \/ ArriveCancel(c)
             \/ ArriveReceive(c) \/ rejectOrder(c) \/ cancelOrder(c)
    BY <1>2, <2>1 DEF ArriveApprove, ArriveConfirm, ArriveReject, ArriveCancel, ArriveReceive,
       Arrive, rejectOrder, cancelOrder
  <2>2. CASE approveOrder(c)
    <3>1. Handles(c, "approve") /\ UNCHANGED <<storeStock, claim>>
      BY <2>2 DEF approveOrder
    <3>2. CASE applyApproval(OrderOf(c))
      BY <3>1, <3>2, ApprovalDelivered
    <3>3. CASE rejectOutOfStock(OrderOf(c)) \/ awaitProduction(OrderOf(c))
      BY <1>2, <3>1, <3>3 DEF rejectOutOfStock, awaitProduction
    <3> QED
      BY <2>2, <3>2, <3>3 DEF approveOrder
  <2>3. CASE kitchenProductionConfirm(c)
    BY <1>2, <2>3 DEF kitchenProductionConfirm, acceptProduction, refuseProduction
  <2>4. CASE receiveShipment(c)
    BY <1>1, <2>4, ReceiveDelivered
  <2> QED
    BY <1>3, <2>1, <2>2, <2>3, <2>4, NoOverrides DEF OrderRequest, Tracked
<1>4. ASSUME NEW c \in Clients, WarehouseRequest(c) PROVE Delivered'
  <2>1. CASE \/ ArriveCancelTask(c) \/ ArriveFinalize(c) \/ ArriveManifest(c)
             \/ ArriveConsolidate(c) \/ ArriveDeparture(c)
    BY <1>2, <2>1 DEF ArriveCancelTask, ArriveFinalize, ArriveManifest, ArriveConsolidate,
       ArriveDeparture, Arrive
  <2>2. CASE \/ cancelPickingTask(c) \/ finalizeBulkShipment(c) \/ createManifest(c)
             \/ consolidateManifestOrders(c) \/ confirmManifestDeparture(c)
    <3>1. NoneArrive
      BY <2>2, CancelTaskArrivesNone, FinalizeArrivesNone, ManifestArrivesNone,
         DepartureArrivesNone
    <3> QED
      BY <1>1, <3>1, NoneArriveDelivered
  <2> QED
    BY <1>4, <2>1, <2>2, NoOverrides DEF WarehouseRequest, Tracked
<1>5. ASSUME NEW c \in Clients, ClaimRequest(c) PROVE Delivered'
  <2>1. CASE ArriveClaim(c) \/ ArriveResolve(c)
    BY <1>2, <2>1 DEF ArriveClaim, ArriveResolve, Arrive
  <2> QED
    BY <1>1, <1>5, <2>1, ClaimDelivered, VerdictDelivered DEF ClaimRequest
<1>6. ASSUME NEW c \in Clients, Fail(c) PROVE Delivered'
  BY <1>2, <1>6 DEF Fail
<1>7. CASE cronExpireBatches \/ UNCHANGED vars \/ \E o \in Orders : createOrder(o)
  BY <1>2, <1>7 DEF cronExpireBatches, vars, createOrder
<1>8. ASSUME NEW i \in DOMAIN shipment, NEW k \in DOMAIN shipment[i].items,
             verifyManifestItem(i, k)
      PROVE  Delivered'
  <2>1. LoadsFixed /\ \A j \in DOMAIN shipment : Place(shipment'[j]) = Place(shipment[j])
    BY <1>8, ScanMoves
  <2>2. \A j \in DOMAIN shipment : shipment'[j].status = shipment[j].status
    BY <2>1 DEF Place
  <2>3. UNCHANGED <<storeStock, claim>>
    BY <1>8 DEF verifyManifestItem
  <2>4. NoneArrive
    BY <2>1, <2>2, <2>3 DEF NoneArrive
  <2> QED
    BY <1>1, <2>4, NoneArriveDelivered
<1> QED
  BY <1>3, <1>4, <1>5, <1>6, <1>7, <1>8 DEF Next

(* One request at a time: what a claim has seen in the stock of its store   *)
(* is still there when it is recorded.                                     *)
LEMMA ClaimsWait ==
  ASSUME Typed, ClaimsCovered, SameOwners, UNCHANGED <<storeStock, req>>
  PROVE  ClaimsCovered'
<1>1. ASSUME NEW c \in Clients, req[c].kind = "claim"
      PROVE  StoreOfShipment(req[c].target.shipment)'
               = StoreOfShipment(req[c].target.shipment)
  <2>1. req[c].target.shipment \in DOMAIN shipment
    BY <1>1 DEF Typed, RequestsOK, RequestOK
  <2> QED
    BY <2>1 DEF StoreOfShipment, SameOwners
<1> QED
  BY <1>1 DEF ClaimsCovered

(* ... unless the only request there is is another one. *)
LEMMA NoClaimWaits ==
  ASSUME NEW r, Typed, OneAtATime, NEW c \in Clients, req' = [req EXCEPT ![c] = r],
         r.kind # "claim"
  PROVE  ClaimsCovered'
<1>1. \A d \in Clients : req'[d] = r
  BY DEF OneAtATime, Typed, RequestsOK
<1> QED
  BY <1>1 DEF ClaimsCovered

(* ... and it has seen it when it arrives. *)
LEMMA ClaimRead ==
  ASSUME Typed, OneAtATime, NEW c \in Clients, ArriveClaim(c)
  PROVE  ClaimsCovered'
<1>1. PICK i, lost :
        /\ \A b \in Batches : lost[b] <= storeStock[StoreOfShipment(i)][b]
        /\ Arrive(c, "claim", {}, [shipment |-> i, lost |-> lost])
  BY DEF ArriveClaim
<1>2. PICK r : r = [kind |-> "claim", orders |-> {}, target |-> [shipment |-> i, lost |-> lost]]
  OBVIOUS
<1>3. r.target.shipment = i /\ r.target.lost = lost
  BY <1>2
<1>4. req' = [req EXCEPT ![c] = r] /\ UNCHANGED <<shipment, storeStock>>
  BY <1>1, <1>2 DEF Arrive
<1>5. \A d \in Clients : req'[d] = r
  BY <1>4 DEF OneAtATime, Typed, RequestsOK
<1>6. StoreOfShipment(i)' = StoreOfShipment(i)
  BY <1>4 DEF StoreOfShipment
<1> QED
  BY <1>1, <1>3, <1>4, <1>5, <1>6 DEF ClaimsCovered

LEMMA NextCovered ==
  Normal /\ Typed /\ Tracked /\ ClaimsCovered /\ [Next]_vars => ClaimsCovered'
<1> SUFFICES ASSUME Normal, Typed, Tracked, ClaimsCovered, [Next]_vars PROVE ClaimsCovered'
  OBVIOUS
<1>0. OneAtATime
  BY DEF Normal
<1>1. ASSUME NEW c \in Clients, Done(c) PROVE ClaimsCovered'
  <2>1. PICK r : r = Idle
    OBVIOUS
  <2>2. req' = [req EXCEPT ![c] = r] /\ r.kind # "claim"
    BY <1>1, <2>1 DEF Done, Idle
  <2> QED
    BY <1>0, <2>2, NoClaimWaits
<1>2. ASSUME NEW c \in Clients, NEW kind, NEW S, NEW target, Arrive(c, kind, S, target),
             kind # "claim"
      PROVE  ClaimsCovered'
  <2>1. PICK r : r = [kind |-> kind, orders |-> S, target |-> target]
    OBVIOUS
  <2>2. req' = [req EXCEPT ![c] = r] /\ r.kind # "claim"
    BY <1>2, <2>1 DEF Arrive
  <2> QED
    BY <1>0, <2>2, NoClaimWaits
<1>3. ASSUME NEW c \in Clients, OrderRequest(c) PROVE ClaimsCovered'
  <2>1. CASE ArriveApprove(c) \/ ArriveConfirm(c) \/ ArriveReject(c) \/ ArriveCancel(c)
             \/ ArriveReceive(c)
    BY <1>2, <2>1 DEF ArriveApprove, ArriveConfirm, ArriveReject, ArriveCancel, ArriveReceive
  <2>2. CASE approveOrder(c) \/ kitchenProductionConfirm(c) \/ rejectOrder(c) \/ cancelOrder(c)
             \/ receiveShipment(c)
    BY <1>1, <2>2 DEF approveOrder, kitchenProductionConfirm, rejectOrder, cancelOrder,
       receiveShipment
  <2> QED
    BY <1>3, <2>1, <2>2, NoOverrides DEF OrderRequest, Tracked
<1>4. ASSUME NEW c \in Clients, WarehouseRequest(c) PROVE ClaimsCovered'
  <2>1. CASE ArriveCancelTask(c) \/ ArriveFinalize(c) \/ ArriveManifest(c)
             \/ ArriveConsolidate(c) \/ ArriveDeparture(c)
    BY <1>2, <2>1 DEF ArriveCancelTask, ArriveFinalize, ArriveManifest, ArriveConsolidate,
       ArriveDeparture
  <2>2. CASE cancelPickingTask(c) \/ finalizeBulkShipment(c) \/ createManifest(c)
             \/ consolidateManifestOrders(c) \/ confirmManifestDeparture(c)
    BY <1>1, <2>2 DEF cancelPickingTask, finalizeBulkShipment, createManifest,
       consolidateManifestOrders, confirmManifestDeparture
  <2> QED
    BY <1>4, <2>1, <2>2, NoOverrides DEF WarehouseRequest, Tracked
<1>5. ASSUME NEW c \in Clients, ClaimRequest(c) \/ Fail(c) PROVE ClaimsCovered'
  <2>1. CASE ArriveResolve(c)
    BY <1>2, <2>1 DEF ArriveResolve
  <2>2. CASE createManualClaim(c) \/ resolveClaim(c) \/ Fail(c)
    BY <1>1, <2>2 DEF createManualClaim, resolveClaim, Fail
  <2> QED
    BY <1>0, <1>5, <2>1, <2>2, ClaimRead DEF ClaimRequest
<1>6. CASE cronExpireBatches \/ UNCHANGED vars \/ \E o \in Orders : createOrder(o)
  <2>1. UNCHANGED <<storeStock, req, shipment>>
    BY <1>6 DEF cronExpireBatches, vars, createOrder
  <2>2. SameOwners
    BY <2>1 DEF SameOwners
  <2> QED
    BY <2>1, <2>2, ClaimsWait
<1>7. ASSUME NEW i \in DOMAIN shipment, NEW k \in DOMAIN shipment[i].items,
             verifyManifestItem(i, k)
      PROVE  ClaimsCovered'
  <2>1. LoadsFixed
    BY <1>7, ScanMoves
  <2>2. SameOwners
    BY <2>1 DEF LoadsFixed, SameLoad, SameOwners
  <2>3. UNCHANGED <<storeStock, req>>
    BY <1>7 DEF verifyManifestItem
  <2> QED
    BY <2>2, <2>3, ClaimsWait
<1> QED
  BY <1>3, <1>4, <1>5, <1>6, <1>7 DEF Next

LEMMA InitDelivered == Init => ClaimsCovered /\ Delivered
<1> SUFFICES ASSUME Init PROVE ClaimsCovered /\ Delivered
  OBVIOUS
<1>1. DOMAIN shipment = {} /\ DOMAIN claim = {}
  BY DEF Init
<1>3. ClaimsCovered
  BY DEF Init, ClaimsCovered, Idle
<1>4. Typed
  BY InitTyped
<1>5. ASSUME NEW s \in DOMAIN RouteOf PROVE StoreBalanced(s)
  <2>1. storeStock[s] = Nothing /\ Nothing \in Bundles
    BY DEF Init, Nothing, Bundles
  <2>2. Arrived(s) = {} /\ ClaimsOfStore(s) = {}
    BY <1>1 DEF Arrived, ClaimsOfStore
  <2>3. GoodsOf({}) \in Bundles /\ \A b \in Batches : GoodsOf({})[b] = 0
    BY <1>4, GoodsOfParts, GoodsOfType
  <2>5. \A p \in Products : PerProduct(Nothing)[p] = 0 /\ PerProduct(GoodsOf({}))[p] = 0
    BY <2>1, <2>3, PerProductOfNothing DEF Nothing
  <2>6. \A p \in Products : SumOver(ClaimedUnits(p), {}) = 0
    BY SumEmpty
  <2> QED
    BY <2>1, <2>2, <2>5, <2>6 DEF StoreBalanced
<1> QED
  BY <1>3, <1>5 DEF Delivered

(* Each unit a truck has brought to a store is in its stock or in one of    *)
(* its claims, and no claim takes what is not there; it is in one of them   *)
(* only, unless the store has received a shipment with two rows of one      *)
(* batch (SupplyChain!EveryUnitIsAccounted).                                *)
THEOREM GoodsAreAccounted ==
  ASSUME Normal
  PROVE  Spec => []EveryUnitIsAccounted
<1> DEFINE Inv == Typed /\ Tracked /\ ClaimsCovered /\ Delivered
<1>1. Init => Inv
  BY InitTyped, InitTracked, InitDelivered
<1>2. Inv /\ [Next]_vars => Inv'
  BY NextTyped, NextTracked, NextCovered, NextDelivered
<1>3. Inv => EveryUnitIsAccounted
  BY DeliveredIsAccounted
<1> QED
  BY <1>1, <1>2, <1>3, PTL DEF Spec
=============================================================================
