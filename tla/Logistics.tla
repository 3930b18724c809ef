------------------------------- MODULE Logistics -------------------------------
(***************************************************************************)
(* logistics: vehicles and routes, with what the warehouse service does to *)
(* them: a consolidation puts a vehicle on a manifest (a trip), and the    *)
(* departure marks it in_transit after its own transaction has committed.  *)
(* Nothing but updateVehicle, called by hand, makes it available again.    *)
(***************************************************************************)
EXTENDS Requests

CONSTANTS
  Vehicles, Plates,
  SeedVehicles,   \* vehicles at the start: identifier -> row
  StatesByHand,    \* the states an administrator sets in an instance
  Routes, Trips, Shops

VARIABLES
  vehicle,   \* vehicles: identifier -> plate and status
  route,     \* the routes there are
  shopRoute, \* stores.route_id, where it is set
  trip,      \* manifests: vehicle and status
  shown      \* trips whose departure the vehicle's status shows (history)

logisticsVars == <<vehicle, route, shopRoute, trip, shown>>

VehicleStatus == {"available", "in_transit", "maintenance"}

VehicleRow == [plate : Plates, status : VehicleStatus]
TripRow == [vehicle : Vehicles, status : {"preparing", "departed", "cancelled"}]

ASSUME LogisticsAssumption ==
  /\ StatesByHand \subseteq VehicleStatus
  /\ \A v \in DOMAIN SeedVehicles : v \in Vehicles /\ SeedVehicles[v] \in VehicleRow
  /\ \A v, w \in DOMAIN SeedVehicles : SeedVehicles[v].plate = SeedVehicles[w].plate => v = w

LogisticsInit ==
  /\ vehicle = SeedVehicles /\ route = {}
  /\ shopRoute = [s \in {} |-> s] /\ trip = [m \in {} |-> m] /\ shown = {}

Holding(plate) == {v \in DOMAIN vehicle : vehicle[v].plate = plate}
TripsOf(v) == {m \in DOMAIN trip : trip[m].vehicle = v}

(* vehicles.license_plate is UNIQUE (23505 becomes a Conflict). *)
createVehicle(v, plate) ==
  /\ Immediate("createVehicle")
  /\ v \notin DOMAIN vehicle /\ Holding(plate) = {}
  /\ \E st \in StatesByHand :
       vehicle' = [k \in DOMAIN vehicle \cup {v} |->
                     IF k = v THEN [plate |-> plate, status |-> st] ELSE vehicle[k]]
  /\ UNCHANGED <<route, shopRoute, trip, shown>>

(* A PATCH of the plate, of the status, or of both, by hand.  sets records  *)
(* which fields the administrator gave.                                    *)
VehiclePatches ==
  [plate : Plates] \cup [status : StatesByHand]
    \cup [plate : Plates, status : StatesByHand]

(* Mutant: the row is to be saved as it was read, with the changes. *)
ArriveUpdateVehicle_WholeRow(c, v) ==
  /\ MayCall(c, "updateVehicle")
  /\ v \in DOMAIN vehicle
  /\ \E patch \in VehiclePatches :
       Becomes(c, [kind |-> "updateVehicle", step |-> "update", vehicle |-> v,
                   patch |-> [f \in {"plate", "status"} |->
                      IF f \in DOMAIN patch THEN patch[f] ELSE vehicle[v][f]],
                   sets |-> DOMAIN patch])
  /\ UNCHANGED logisticsVars

ArriveUpdateVehicle(c, v) ==
  /\ MayCall(c, "updateVehicle")
  /\ v \in DOMAIN vehicle
  /\ \E patch \in VehiclePatches :
       Becomes(c, [kind |-> "updateVehicle", step |-> "update", vehicle |-> v,
                   patch |-> patch, sets |-> DOMAIN patch])
  /\ UNCHANGED logisticsVars

(* UPDATE of the fields given; the row may be gone (404), the plate taken   *)
(* (409).                                                                  *)
SetVehicle(v, patch) ==
  /\ v \in DOMAIN vehicle
  /\ "plate" \in DOMAIN patch => Holding(patch.plate) \subseteq {v}
  /\ vehicle' = [vehicle EXCEPT ![v] =
        [f \in DOMAIN @ |-> IF f \in DOMAIN patch THEN patch[f] ELSE @[f]]]

updateVehicle(c) ==
  /\ At(c, "updateVehicle", "update")
  /\ LET v == req[c].vehicle
         patch == req[c].patch
     IN /\ SetVehicle(v, patch)
        /\ shown' = IF "status" \in req[c].sets THEN shown \ TripsOf(v) ELSE shown
  /\ Done(c)
  /\ UNCHANGED <<route, shopRoute, trip>>

(* Mutant: manifests.vehicle_id has no foreign key. *)
removeVehicle_NoForeignKey(v) ==
  /\ Immediate("removeVehicle")
  /\ v \in DOMAIN vehicle
  /\ vehicle' = [k \in DOMAIN vehicle \ {v} |-> vehicle[k]]
  /\ UNCHANGED <<route, shopRoute, trip, shown>>

(* A manifest that refers to it, of any status, keeps it (23503). *)
removeVehicle(v) ==
  /\ Immediate("removeVehicle")
  /\ v \in DOMAIN vehicle /\ TripsOf(v) = {}
  /\ vehicle' = [k \in DOMAIN vehicle \ {v} |-> vehicle[k]]
  /\ UNCHANGED <<route, shopRoute, trip, shown>>

createRoute(r) ==
  /\ Immediate("createRoute")
  /\ r \notin route
  /\ route' = route \cup {r}
  /\ UNCHANGED <<vehicle, shopRoute, trip, shown>>

(* stores.route_id is set by hand or by a seed: no endpoint does it. *)
assignRoute(s, r) ==
  /\ Immediate("assignRoute")
  /\ r \in route
  /\ shopRoute' = [k \in DOMAIN shopRoute \cup {s} |->
                     IF k = s THEN r ELSE shopRoute[k]]
  /\ UNCHANGED <<vehicle, route, trip, shown>>

removeRoute(r) ==
  /\ Immediate("removeRoute")
  /\ r \in route /\ \A s \in DOMAIN shopRoute : shopRoute[s] # r
  /\ route' = route \ {r}
  /\ UNCHANGED <<vehicle, shopRoute, trip, shown>>

-----------------------------------------------------------------------------
(* consolidateManifestOrders reads the vehicle on another connection than   *)
(* its transaction and locks nothing: it may be on a manifest already.     *)
ArriveTrip(c, m, v) ==
  /\ m \notin DOMAIN trip
  /\ v \in DOMAIN vehicle /\ vehicle[v].status = "available"
  /\ Becomes(c, [kind |-> "consolidate", step |-> "insert", trip |-> m, vehicle |-> v])
  /\ UNCHANGED logisticsVars

insertTrip(c) ==
  /\ At(c, "consolidate", "insert")
  /\ req[c].trip \notin DOMAIN trip
  /\ req[c].vehicle \in DOMAIN vehicle       \* the foreign key
  /\ trip' = [m \in DOMAIN trip \cup {req[c].trip} |->
                IF m = req[c].trip THEN [vehicle |-> req[c].vehicle, status |-> "preparing"]
                ELSE trip[m]]
  /\ Done(c)
  /\ UNCHANGED <<vehicle, route, shopRoute, shown>>

(* cancelManifest: the vehicle stays on the cancelled manifest. *)
cancelTrip(m) ==
  /\ Immediate("cancelTrip")
  /\ trip[m].status = "preparing"
  /\ trip' = [trip EXCEPT ![m].status = "cancelled"]
  /\ UNCHANGED <<vehicle, route, shopRoute, shown>>

(* confirmManifestDeparture: the transaction, whatever the vehicle does, ... *)
depart(c, m) ==
  /\ trip[m].status = "preparing"
  /\ trip' = [trip EXCEPT ![m].status = "departed"]
  /\ Becomes(c, [kind |-> "depart", step |-> "vehicle", trip |-> m])
  /\ UNCHANGED <<vehicle, route, shopRoute, shown>>

(* ... and, on its own, updateVehicleStatus(id, 'delivering'). *)
updateVehicleStatus(c) ==
  /\ At(c, "depart", "vehicle")
  /\ vehicle' = [vehicle EXCEPT ![trip[req[c].trip].vehicle].status = "in_transit"]
  /\ shown' = shown \cup {req[c].trip}
  /\ Done(c)
  /\ UNCHANGED <<route, shopRoute, trip>>

VehicleRequest(c) ==
  \/ \E v \in Vehicles : ArriveUpdateVehicle(c, v)
  \/ updateVehicle(c)
  \/ \E m \in Trips, v \in Vehicles : ArriveTrip(c, m, v)
  \/ insertTrip(c)
  \/ \E m \in DOMAIN trip : depart(c, m)
  \/ updateVehicleStatus(c)

LogisticsNext ==
  \/ \E v \in Vehicles : removeVehicle(v) \/ \E plate \in Plates : createVehicle(v, plate)
  \/ \E r \in Routes : createRoute(r) \/ removeRoute(r) \/ \E s \in Shops : assignRoute(s, r)
  \/ \E m \in DOMAIN trip : cancelTrip(m)
  \/ \E c \in Clients : VehicleRequest(c)

-----------------------------------------------------------------------------
(* Properties.                                                             *)

(* The references hold: deleting a vehicle or a route races the requests    *)
(* that have just found it.                                                *)
LogisticsTypeOK ==
  /\ \A v \in DOMAIN vehicle :
       vehicle[v] \in VehicleRow /\ Holding(vehicle[v].plate) = {v}
  /\ \A m \in DOMAIN trip : trip[m] \in TripRow /\ trip[m].vehicle \in DOMAIN vehicle
  /\ \A s \in DOMAIN shopRoute : shopRoute[s] \in route

(* Once a departure has marked its vehicle, the vehicle is on the road until *)
(* somebody sets its status: no other request in flight, a consolidation or *)
(* an edit of the same row, makes it available behind the trip's back.      *)
DepartedVehicleIsBusy ==
  \A m \in shown :
    trip[m].status = "departed" /\ vehicle[trip[m].vehicle].status = "in_transit"
=============================================================================
