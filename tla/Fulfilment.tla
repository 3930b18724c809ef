------------------------------ MODULE Fulfilment ------------------------------
(***************************************************************************)
(* The tables the order, inventory, shipment and warehouse services share, *)
(* and the helpers those services call inside their transactions.          *)
(*                                                                         *)
(* The services (OrderService, WarehouseService) extend this module with   *)
(* one action per endpoint; SupplyChain composes them.  An endpoint whose  *)
(* guard is a plain SELECT, i.e. reads a status without locking the row,   *)
(* is two steps: the request arrives and reads (req), later its            *)
(* transaction writes and commits.  What other sessions commit in between  *)
(* is the interleaving that matters; the row locks of the statements       *)
(* themselves are the subject of StockRows.                                *)
(***************************************************************************)
EXTENDS Quantities, Sequences, FiniteSets, SequencesExt, FiniteSetsExt

CONSTANTS
  Clients,       \* requests the server handles at the same time
  Endpoints,     \* the endpoints an instance exercises
  Orders,        \* identifiers of the orders the stores may place
  StoreOf,       \* the store that places each order
  RouteOf,       \* the delivery route of each store
  DeliveryOf,    \* the delivery day of each order
  Margin,        \* days that travel and the 2 h buffer add to that day
  Requested,     \* quantity requested of each product, per order,
  FirstLine,     \* and how much of it the first of its two lines asks for
  Products, MinShelfLife,
  Batches, ProductOf, ExpiryOf, Opening,
  Manifests,     \* identifiers of the manifests (truck loads)
  Horizon,       \* bound: the last day of an instance
  MaxInquiries,  \* bound: how often the coordinator questions the kitchen
  MaxClaims,     \* bound: no claim is filed when there are this many
  None           \* a null reference

ASSUME FulfilmentAssumption ==
  /\ IsFiniteSet(Orders) /\ IsFiniteSet(Batches)
  /\ StoreOf \in [Orders -> DOMAIN RouteOf]
  /\ DeliveryOf \in [Orders -> Nat]
  /\ Margin \in [Orders -> Nat]
  /\ Requested \in [Orders -> [Products -> Nat]]
  \* Nothing forbids several lines of one product: bound, at most two.
  /\ FirstLine \in [Orders -> [Products -> Nat]]
  /\ \A o \in Orders, p \in Products : FirstLine[o][p] <= Requested[o][p]
  /\ MinShelfLife \in [Products -> Nat]
  /\ ProductOf \in [Batches -> Products]
  /\ ExpiryOf \in [Batches -> Nat]
  /\ Opening \in [Batches -> Nat]
  \* ORDER BY expiry_date leaves ties open; the instances have none.
  /\ \A b, d \in Batches :
       b # d /\ ProductOf[b] = ProductOf[d] => ExpiryOf[b] # ExpiryOf[d]
  /\ Horizon \in Nat /\ MaxInquiries \in Nat /\ MaxClaims \in Nat
  /\ None \notin Orders \cup Manifests

VARIABLES
  today,      \* the current day
  stock,      \* inventory row and batch status, per batch, central warehouse
  log,        \* 'reservation' rows of inventory_transactions: order x batch
  order,      \* orders
  shipment,   \* shipments, shipment_orders and shipment_items
  manifest,   \* status of each manifest
  storeStock, \* inventory rows of the stores: store x batch
  claim,      \* claims: a sequence of records
  inquiries,  \* number of inquiries sent so far (only for MaxInquiries)
  req         \* per client: the request in flight and what it has read

vars == <<today, stock, log, order, shipment, manifest, storeStock, claim,
          inquiries, req>>

OrderStatus == {"pending", "coordinating", "approved", "rejected", "cancelled",
                "picking", "delivering", "completed", "claimed"}
ShipmentStatus == {"preparing", "consolidated", "in_transit", "completed",
                   "cancelled"}
ManifestStatus == {"preparing", "departed", "cancelled"}
ClaimStatus == {"pending", "approved", "rejected"}
Blocked == {"expired", "damaged", "empty"}

(* Rows, with the columns that matter here.  slip: picked for a truck;      *)
(* confirm: requires_production_confirm.                                   *)
StockRow == [quantity : Int, reserved : Int, status : Blocked \cup {"available"}]
OrderRow == [status : OrderStatus, group : Orders, created : 0..Horizon,
             slip : BOOLEAN, confirm : BOOLEAN]
ShipmentItemRow == [batch : Batches, quantity : Nat \ {0}, picked : BOOLEAN]
ShipmentRow ==    \* linked: its rows of shipment_orders; shipped: it has left
  [order : Orders, linked : SUBSET Orders, group : Orders, status : ShipmentStatus,
   manifest : Manifests \cup {None}, shipped : BOOLEAN, items : Seq(ShipmentItemRow)]
ClaimRow == [shipment : Nat, status : ClaimStatus, items : [Products -> Nat]]

Nothing == [b \in Batches |-> 0]
Plus(f, g) == [b \in Batches |-> f[b] + g[b]]

-----------------------------------------------------------------------------
(* Inventory.  A batch moves by a bundle, [Batches -> Nat].                 *)

(* Mutant: any batch that has not expired will do. *)
Offered_NoCutOff(rows, b, cutoff) ==
  IF rows[b].status \in Blocked THEN 0
  ELSE Maximum(rows[b].quantity - rows[b].reserved, 0)

(* findBatchesForFEFOWithShelfBuffer: what batch b offers, given the       *)
(* cut-off day of its product.                                             *)
Offered(rows, b, cutoff) ==
  IF rows[b].status \in Blocked \/ ExpiryOf[b] <= cutoff[ProductOf[b]] THEN 0
  ELSE Maximum(rows[b].quantity - rows[b].reserved, 0)

SoonerThan(b) == {d \in Batches : ProductOf[d] = ProductOf[b]
                                  /\ ExpiryOf[d] < ExpiryOf[b]}

(* Mutant: a batch is taken as a whole. *)
Allocation_WholeBatches(rows, wanted, cutoff) ==
  [b \in Batches |->
     LET before == Total([d \in SoonerThan(b) |-> Offered(rows, d, cutoff)])
     IN IF wanted[ProductOf[b]] > before THEN Offered(rows, b, cutoff) ELSE 0]

(* lockStockForOrder: what is taken of each batch for these quantities,    *)
(* first expired first out; a shortage is cut, never postponed.  It goes   *)
(* line by line, each on what the lines before it have left: two lines of   *)
(* a product take what one line of their sum would.                        *)
Allocation(rows, wanted, cutoff) ==
  [b \in Batches |->
     LET before == Total([d \in SoonerThan(b) |-> Offered(rows, d, cutoff)])
     IN Minimum(Offered(rows, b, cutoff),
                Maximum(wanted[ProductOf[b]] - before, 0))]

(* safetyMinimumExpiryDateStr, or CURRENT_DATE + min_shelf_life. *)
CutOffDate(day) == [p \in Products |-> day]
ShelfCutOff == [p \in Products |-> today + MinShelfLife[p]]

(* Mutant: the reservation is assigned, not incremented. *)
Reserved_Assigned(rows, take) ==
  [b \in Batches |-> [rows[b] EXCEPT !.reserved = Maximum(take[b], 0)]]

(* reserveInventoryQuantity, row by row. *)
Reserved(rows, take) ==
  [b \in Batches |-> [rows[b] EXCEPT !.reserved = @ + take[b]]]

(* GREATEST(reserved - n, 0), for each batch with something to take away.   *)
Clamped(rows, b, n) == IF n = 0 THEN rows[b].reserved
                       ELSE Maximum(rows[b].reserved - n, 0)

Released(rows, give) ==
  [b \in Batches |-> [rows[b] EXCEPT !.reserved = Clamped(rows, b, give[b])]]

(* decreasePhysicalAndReserved clamps the reservation at zero, ...          *)
Exported(rows, out) ==
  [b \in Batches |-> [rows[b] EXCEPT !.quantity = @ - out[b],
                                     !.reserved = Clamped(rows, b, out[b])]]

(* ... decreaseStockFinal does not.                                         *)
FinallyDecreased(rows, out) ==
  [b \in Batches |-> [rows[b] EXCEPT !.quantity = @ - out[b],
                                     !.reserved = @ - out[b]]]

-----------------------------------------------------------------------------
(* Shipments: a sequence of records, whose items are a sequence of rows.    *)

Item(b, n) == [batch |-> b, quantity |-> n, picked |-> FALSE]

(* The rows of one line, one for each batch that gives something; nothing   *)
(* depends on their order.                                                 *)
RowsOfLine(take) ==
  SetToSeq({Item(b, take[b]) : b \in {d \in Batches : take[d] > 0}})

(* What the first of two lines has taken of each batch, when both together *)
(* have taken this bundle.                                                 *)
FirstTaken(take, first) ==
  [b \in Batches |->
     LET before == Total([d \in SoonerThan(b) |-> take[d]])
     IN Minimum(take[b], Maximum(first[ProductOf[b]] - before, 0))]
SecondTaken(take, part) == [b \in Batches |-> take[b] - part[b]]

(* Mutant: a batch that gives nothing gets a row too. *)
ItemsOf_Empty(take, first) ==
  SetToSeq({Item(b, take[b]) : b \in Batches})

(* The shipmentItems that lockStockForOrder returns: the rows of the first  *)
(* line of each product, then those of the second.  A batch that gives to   *)
(* both has two rows.                                                      *)
ItemsOf(take, first) ==
  RowsOfLine(FirstTaken(take, first))
    \o RowsOfLine(SecondTaken(take, FirstTaken(take, first)))

RowsOf(items, b) == {k \in DOMAIN items : items[k].batch = b}

Goods(items) ==
  [b \in Batches |-> Total([k \in RowsOf(items, b) |-> items[k].quantity])]

GoodsOf(S) ==   \* the goods on the shipments with these indices
  [b \in Batches |-> Total([i \in S |-> Goods(shipment[i].items)[b]])]

(* findShipmentByOrderId: the shipment made for the order, else one that    *)
(* shipment_orders links to it.                                            *)
PrimaryShipments(o) == {i \in DOMAIN shipment : shipment[i].order = o}
ShipmentsOf(o) ==
  IF PrimaryShipments(o) # {} THEN PrimaryShipments(o)
  ELSE {i \in DOMAIN shipment : o \in shipment[i].linked}

OnManifest(m) == {i \in DOMAIN shipment : shipment[i].manifest = m}

NewShipment(o, linked, group, status, items) ==
  [order |-> o, linked |-> linked, group |-> group, status |-> status,
   manifest |-> None, shipped |-> FALSE, items |-> items]

(* Warehouses are left out: one group is one store on one day. *)
findPreparingShipmentByConsolidationGroup(ships, group) ==
  {i \in DOMAIN ships : ships[i].group = group /\ ships[i].status = "preparing"}

linkShipmentOrder(ships, i, o) == [ships EXCEPT ![i].linked = @ \cup {o}]

(* createShipmentForOrder: join the preparing shipment of the order's       *)
(* consolidation group, or make a new one.                                 *)
ShipmentForOrder(ships, o, group, take) ==
  LET joinable == findPreparingShipmentByConsolidationGroup(ships, group)
  IN IF joinable = {}
     THEN {Append(ships, NewShipment(o, {o}, group, "preparing",
                                     ItemsOf(take, FirstLine[o])))}
     ELSE {[linkShipmentOrder(ships, i, o)
              EXCEPT ![i].items = @ \o ItemsOf(take, FirstLine[o])] : i \in joinable}

-----------------------------------------------------------------------------
(* Claims.                                                                 *)

(* The units of each product in a bundle: claim_items name products, not    *)
(* batches.                                                                *)
PerProduct(f) ==
  [p \in Products |-> Total([b \in {b \in Batches : ProductOf[b] = p} |-> f[b]])]

(* createClaim and createClaimItems, for the goods that are missing or     *)
(* damaged.                                                                *)
WithClaim(i, lost) ==
  Append(claim, [shipment |-> i, status |-> "pending", items |-> PerProduct(lost)])

(* The store a shipment goes to: the store of the order it was made for.    *)
StoreOfShipment(i) == StoreOf[shipment[i].order]

-----------------------------------------------------------------------------
(* releaseStock: the bundle given back is everything ever logged as         *)
(* reserved for the order, or, without a log, its shipment's items.         *)
ToRelease(o) ==
  IF log[o] # Nothing THEN {log[o]}
  ELSE IF PrimaryShipments(o) = {} THEN {Nothing}
  ELSE {GoodsOf({i}) : i \in PrimaryShipments(o)}

-----------------------------------------------------------------------------
(* Requests.                                                               *)

Idle == [kind |-> "idle", orders |-> {}, target |-> None]

Serves(kind) == kind \in Endpoints

(* A request arrives and its first SELECT finds the status it asks for. *)
Arrive(c, kind, S, target) ==
  /\ Serves(kind)
  /\ req[c] = Idle
  /\ req' = [req EXCEPT ![c] = [kind |-> kind, orders |-> S, target |-> target]]
  /\ UNCHANGED <<today, stock, log, order, shipment, manifest, storeStock, claim, inquiries>>

Handles(c, kind) == req[c].kind = kind

Done(c) == req' = [req EXCEPT ![c] = Idle]

(* The order a single-order request is about. *)
OrderOf(c) == CHOOSE o \in req[c].orders : TRUE

(* Orders that have been placed. *)
Placed == DOMAIN order

WithStatus(o, st) == [order EXCEPT ![o].status = st]
=============================================================================
