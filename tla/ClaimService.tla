----------------------------- MODULE ClaimService -----------------------------
(***************************************************************************)
(* The claims of the stores on what they have received.  See Fulfilment    *)
(* for the two steps of a request; receiveShipment makes claims too.       *)
(***************************************************************************)
EXTENDS Fulfilment

(* createManualClaim, the checks: a completed shipment, and enough stock of *)
(* each batch at the store.  They read outside the transaction.  The       *)
(* batches need not be those of the shipment.                              *)
ArriveClaim(c) ==
  \E i \in DOMAIN shipment :
    LET held == storeStock[StoreOfShipment(i)]
    IN \E lost \in [Batches -> 0..Max({held[b] : b \in Batches} \cup {0})] :
         /\ Len(claim) < MaxClaims
         /\ shipment[i].status = "completed"
         /\ lost # Nothing
         /\ \A b \in Batches : lost[b] <= held[b]
         /\ Arrive(c, "claim", {}, [shipment |-> i, lost |-> lost])

(* Mutant: the order keeps its status. *)
createManualClaim_OrderStays(c) ==
  LET i == req[c].target.shipment
      lost == req[c].target.lost
  IN /\ Handles(c, "claim")
     /\ claim' = WithClaim(i, lost)
     /\ storeStock' = [storeStock EXCEPT ![StoreOfShipment(i)] =
                         [b \in Batches |-> @[b] - lost[b]]]
     /\ Done(c)
     /\ UNCHANGED <<today, stock, log, order, shipment, manifest, inquiries>>

(* ... and the transaction: the claim is recorded, the goods leave the      *)
(* store's stock at once, and the order is claimed.                        *)
createManualClaim(c) ==
  LET i == req[c].target.shipment
      lost == req[c].target.lost
  IN /\ Handles(c, "claim")
     /\ claim' = WithClaim(i, lost)
     /\ storeStock' = [storeStock EXCEPT ![StoreOfShipment(i)] =
                         [b \in Batches |-> @[b] - lost[b]]]
     /\ order' = WithStatus(shipment[i].order, "claimed")
     /\ Done(c)
     /\ UNCHANGED <<today, stock, log, shipment, manifest, inquiries>>

ArriveResolve(c) ==
  \E k \in DOMAIN claim :
    claim[k].status = "pending" /\ Arrive(c, "resolve", {}, k)

(* resolveClaim: a verdict, which moves no goods.                           *)
resolveClaim(c) ==
  /\ Handles(c, "resolve")
  /\ \E verdict \in {"approved", "rejected"} :
       claim' = [claim EXCEPT ![req[c].target].status = verdict]
  /\ Done(c)
  /\ UNCHANGED <<today, stock, log, order, shipment, manifest, storeStock, inquiries>>
=============================================================================
