--------------------------- MODULE WarehouseService ---------------------------
(***************************************************************************)
(* The endpoints of the warehouse service that change state: picking tasks, *)
(* manifests (truck loads), scanning, damaged batches, and departure.      *)
(* Vehicles, routes' capacities and picking-list totals carry no guard that *)
(* the properties depend on and are left out.                              *)
(***************************************************************************)
EXTENDS Fulfilment

-----------------------------------------------------------------------------
(* Picking tasks.                                                          *)

ArriveCancelTask(c) ==
  \E o \in Placed :
    /\ order[o].status \in {"approved", "picking"}
    /\ Arrive(c, "cancelTask", {o}, None)

(* A shipment whose task the kitchen may still cancel. *)
Cancellable(i) ==
  /\ shipment[i].status = "preparing"
  /\ shipment[i].manifest # None => manifest[shipment[i].manifest] # "preparing"

(* Mutant: the reservations stay. *)
cancelPickingTask_NoRelease(c) ==
  LET o == OrderOf(c)
  IN /\ Handles(c, "cancelTask")
     /\ IF ShipmentsOf(o) = {} THEN UNCHANGED shipment
        ELSE \E i \in ShipmentsOf(o) :
               /\ Cancellable(i)
               /\ shipment' = [shipment EXCEPT ![i].status = "cancelled"]
     /\ order' = WithStatus(o, "cancelled")
     /\ Done(c)
     /\ UNCHANGED <<today, stock, log, manifest, storeStock, claim, inquiries>>

(* cancelPickingTask: the order's own reservations are released, its        *)
(* shipment and the order are cancelled.                                   *)
cancelPickingTask(c) ==
  LET o == OrderOf(c)
  IN /\ Handles(c, "cancelTask")
     /\ \E give \in ToRelease(o) : stock' = Released(stock, give)
     /\ IF ShipmentsOf(o) = {} THEN UNCHANGED shipment
        ELSE \E i \in ShipmentsOf(o) :
               /\ Cancellable(i)
               /\ shipment' = [shipment EXCEPT ![i].status = "cancelled"]
     /\ order' = WithStatus(o, "cancelled")
     /\ Done(c)
     /\ UNCHANGED <<today, log, manifest, storeStock, claim, inquiries>>

ArriveFinalize(c) ==
  \E o \in Placed :
    order[o].status = "approved" /\ Arrive(c, "finalize", {o}, None)

(* finalizeBulkShipment, the picked items being those of the shipment: the  *)
(* goods leave, whatever the shipment's status, unless a batch expires by   *)
(* the delivery day.  An order that only joined a shipment has nothing to   *)
(* pick, and leaves.                                                       *)
finalizeBulkShipment(c) ==
  LET o == OrderOf(c)
  IN /\ Handles(c, "finalize")
     /\ IF PrimaryShipments(o) = {} THEN UNCHANGED <<stock, shipment>>
        ELSE \E i \in PrimaryShipments(o) :
               /\ shipment[i].manifest = None
               /\ \A k \in DOMAIN shipment[i].items :
                    ExpiryOf[shipment[i].items[k].batch] > DeliveryOf[o]
               /\ stock' = FinallyDecreased(stock, GoodsOf({i}))
               /\ shipment' = [shipment EXCEPT ![i].status = "in_transit",
                                               ![i].shipped = TRUE]
     /\ order' = WithStatus(o, "delivering")
     /\ Done(c)
     /\ UNCHANGED <<today, log, manifest, storeStock, claim, inquiries>>

-----------------------------------------------------------------------------
(* Manifests.                                                              *)

(* findShipmentsReadyForManifest *)
ReadyFor(S) ==
  {i \in DOMAIN shipment : /\ shipment[i].order \in S
                           /\ shipment[i].status = "preparing"
                           /\ shipment[i].manifest = None}

(* createManifest reads approved orders, one ready shipment each. *)
ArriveManifest(c) ==
  \E S \in (SUBSET Placed) \ {{}} :
    /\ \A o \in S : order[o].status = "approved"
    /\ Cardinality(ReadyFor(S)) = Cardinality(S)
    /\ Arrive(c, "manifest", S, ReadyFor(S))

createManifest(c) ==
  /\ Handles(c, "manifest")
  /\ \E m \in Manifests \ DOMAIN manifest :
       /\ manifest' = [n \in DOMAIN manifest \cup {m} |->
                         IF n = m THEN "preparing" ELSE manifest[n]]
       /\ shipment' = [i \in DOMAIN shipment |->
                         IF i \in req[c].target
                         THEN [shipment[i] EXCEPT !.manifest = m]
                         ELSE shipment[i]]
  /\ Done(c)
  /\ UNCHANGED <<today, stock, log, order, storeStock, claim, inquiries>>

(* consolidateManifestOrders also wants orders of one route without a slip. *)
ArriveConsolidate(c) ==
  \E S \in (SUBSET Placed) \ {{}} :
    /\ \A o \in S : order[o].status = "approved" /\ ~order[o].slip
    /\ \A o, p \in S : RouteOf[StoreOf[o]] = RouteOf[StoreOf[p]]
    /\ Cardinality(ReadyFor(S)) = Cardinality(S)
    /\ Arrive(c, "consolidate", S, ReadyFor(S))

consolidateManifestOrders(c) ==
  LET loaded == {shipment[i].order : i \in req[c].target}
  IN /\ Handles(c, "consolidate")
     /\ \E m \in Manifests \ DOMAIN manifest :
          /\ manifest' = [n \in DOMAIN manifest \cup {m} |->
                            IF n = m THEN "preparing" ELSE manifest[n]]
          /\ shipment' = [i \in DOMAIN shipment |->
                            IF i \in req[c].target
                            THEN [shipment[i] EXCEPT !.manifest = m,
                                                     !.status = "consolidated"]
                            ELSE shipment[i]]
     /\ order' = [o \in Placed |->
                    IF o \in loaded THEN [order[o] EXCEPT !.status = "picking",
                                                          !.slip = TRUE]
                    ELSE order[o]]
     /\ Done(c)
     /\ UNCHANGED <<today, stock, log, storeStock, claim, inquiries>>

(* verifyManifestItem: the suggested batch of an item row is scanned. *)
verifyManifestItem(i, k) ==
  /\ Serves("verify")
  /\ shipment[i].manifest # None
  /\ ~shipment[i].items[k].picked
  /\ shipment' = [shipment EXCEPT ![i].items[k].picked = TRUE]
  /\ UNCHANGED <<today, stock, log, order, manifest, storeStock, claim, inquiries, req>>

(* reportManifestBatchIssue reads a preparing manifest and an item row. *)
ArriveIssue(c) ==
  \E i \in DOMAIN shipment :
    /\ shipment[i].manifest # None
    /\ manifest[shipment[i].manifest] = "preparing"
    /\ \E k \in DOMAIN shipment[i].items :
         Arrive(c, "issue", {}, [ship |-> i, item |-> shipment[i].items[k]])

(* What replaceDamagedBatchTransaction finds of the other batches of the    *)
(* product: whatever their status, whatever their expiry.                  *)
Substitutes(rows, bad, n) ==
  LET other(b) == IF ProductOf[b] = ProductOf[bad] /\ b # bad
                  THEN Maximum(rows[b].quantity - rows[b].reserved, 0) ELSE 0
  IN [b \in Batches |->
        LET before == Total([d \in SoonerThan(b) |-> other(d)])
        IN Minimum(other(b), Maximum(n - before, 0))]

(* reportManifestBatchIssue: the row is deleted and replaced by rows of     *)
(* other batches, or the transaction fails; the batch is damaged.  The      *)
(* release of the bad batch is not clamped.                                *)
reportManifestBatchIssue(c) ==
  LET i == req[c].target.ship
      item == req[c].target.item
      items == shipment[i].items
      same == {k \in DOMAIN items : items[k].batch = item.batch
                                    /\ items[k].quantity = item.quantity}
      back == [stock EXCEPT ![item.batch].reserved = @ - item.quantity]
      take == Substitutes(back, item.batch, item.quantity)
      rows == RowsOfLine(take)
  IN /\ Handles(c, "issue")
     /\ Total(take) = item.quantity
     /\ stock' = [Reserved(back, take) EXCEPT ![item.batch].status = "damaged"]
     /\ IF same = {}
        THEN shipment' = [shipment EXCEPT ![i].items = @ \o rows]
        ELSE \E k \in same :
               shipment' = [shipment EXCEPT ![i].items = RemoveAt(@, k) \o rows]
     /\ Done(c)
     /\ UNCHANGED <<today, log, order, manifest, storeStock, claim, inquiries>>

(* cancelManifest reads a preparing manifest, without a lock. *)
ArriveCancelManifest(c) ==
  \E m \in DOMAIN manifest :
    manifest[m] = "preparing" /\ Arrive(c, "cancelManifest", {}, m)

(* cancelManifest: the shipments are released and detached, no more.        *)
cancelManifest(c) ==
  LET m == req[c].target
  IN /\ Handles(c, "cancelManifest")
     /\ stock' = Released(stock, GoodsOf(OnManifest(m)))
     /\ shipment' = [i \in DOMAIN shipment |->
                       IF i \in OnManifest(m)
                       THEN [shipment[i] EXCEPT !.manifest = None]
                       ELSE shipment[i]]
     /\ manifest' = [manifest EXCEPT ![m] = "cancelled"]
     /\ Done(c)
     /\ UNCHANGED <<today, log, order, storeStock, claim, inquiries>>

(* Rows nobody has scanned. *)
Unscanned(load) ==
  {i \in load : \E k \in DOMAIN shipment[i].items : ~shipment[i].items[k].picked}

(* Another departure of the manifest holds pg_advisory_xact_lock.           *)
Departing(m) == \E d \in Clients : Handles(d, "depart") /\ req[d].target.manifest = m

(* Mutant: the advisory lock is not taken. *)
ArriveDeparture_NoLock(c) ==
  \E m \in DOMAIN manifest :
    /\ manifest[m] = "preparing"
    /\ Unscanned(OnManifest(m)) = {}
    /\ Arrive(c, "depart", {},
              [manifest |-> m,
               load |-> [i \in OnManifest(m) |-> Goods(shipment[i].items)]])

(* Mutant: the truck may leave with rows nobody has scanned. *)
ArriveDeparture_Unscanned(c) ==
  \E m \in DOMAIN manifest :
    /\ ~Departing(m)
    /\ manifest[m] = "preparing"
    /\ Arrive(c, "depart", {},
              [manifest |-> m,
               load |-> [i \in OnManifest(m) |-> Goods(shipment[i].items)]])

(* confirmManifestDeparture, under the lock: the manifest is preparing and  *)
(* every row of its shipments has been scanned.                            *)
ArriveDeparture(c) ==
  \E m \in DOMAIN manifest :
    /\ ~Departing(m)
    /\ manifest[m] = "preparing"
    /\ Unscanned(OnManifest(m)) = {}
    /\ Arrive(c, "depart", {},
              [manifest |-> m,
               load |-> [i \in OnManifest(m) |-> Goods(shipment[i].items)]])

(* Mutant: the manifest stays open for another departure. *)
confirmManifestDeparture_StaysOpen(c) ==
  LET load == req[c].target.load
      out == [b \in Batches |-> Total([i \in DOMAIN load |-> load[i][b]])]
  IN /\ Handles(c, "depart")
     /\ stock' = Exported(stock, out)
     /\ shipment' = [i \in DOMAIN shipment |->
                       IF i \in DOMAIN load
                       THEN [shipment[i] EXCEPT !.status = "in_transit",
                                                !.shipped = TRUE]
                       ELSE shipment[i]]
     /\ order' = [o \in Placed |->
                    IF \E i \in DOMAIN load : shipment[i].order = o
                    THEN [order[o] EXCEPT !.status = "delivering"]
                    ELSE order[o]]
     /\ Done(c)
     /\ UNCHANGED <<today, log, manifest, storeStock, claim, inquiries>>

(* ... the goods read leave, and the order each shipment was made for is    *)
(* delivering, whatever became of either.                                  *)
confirmManifestDeparture(c) ==
  LET load == req[c].target.load
      out == [b \in Batches |-> Total([i \in DOMAIN load |-> load[i][b]])]
  IN /\ Handles(c, "depart")
     /\ stock' = Exported(stock, out)
     /\ shipment' = [i \in DOMAIN shipment |->
                       IF i \in DOMAIN load
                       THEN [shipment[i] EXCEPT !.status = "in_transit",
                                                !.shipped = TRUE]
                       ELSE shipment[i]]
     /\ order' = [o \in Placed |->
                    IF \E i \in DOMAIN load : shipment[i].order = o
                    THEN [order[o] EXCEPT !.status = "delivering"]
                    ELSE order[o]]
     /\ manifest' = [manifest EXCEPT ![req[c].target.manifest] = "departed"]
     /\ Done(c)
     /\ UNCHANGED <<today, log, storeStock, claim, inquiries>>
=============================================================================
