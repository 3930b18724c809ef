--------------------------- MODULE MCAdministration ---------------------------
(* Instances of Administration for TLC. *)
EXTENDS Administration, TLC

CONSTANTS c1, c2, ann, u1, u2, shop, kg, piece, n1, n2, flour, meat, bun, salt,
          r1, r2, w1, w2, l1, s1, v1, v2, p1, p2, north, m1, m2, key, one, two,
          b1, b2, b3, dough, loaf

TwoClients == {c1, c2}

(* What is called together.  The scenarios of the accounts: decisions on    *)
(* staff against new accounts; approved and pending staff who sign in and   *)
(* reset passwords; the ends of sessions.                                  *)
MCScenarios ==
  { {"store", "updateStore", "closeStore", "staff", "approve", "reject", "createUser"},
    {"store", "staff", "approve", "admin", "login", "forgot", "reset"},
    {"createUser", "login", "refresh", "logout", "clearTokens", "clearOtp",
     "forgot", "time"},
    {"createUnit", "updateUnit", "removeUnit"},
    {"createProduct", "removeUnit"},
    {"updateProduct", "removeProduct", "restoreProduct"},
    {"createBatch", "updateBatch", "createSupplier", "removeSupplier"},
    {"createRecipe", "updateRecipe"},
    {"updateRecipe", "createOrder", "startOrder", "completeOrder"},
    {"createVehicle", "updateVehicle", "removeVehicle"},
    {"updateVehicle", "removeVehicle", "consolidate", "depart", "cancelTrip"},
    {"createRoute", "removeRoute", "assignRoute"},
    {"getConfig", "updateConfig", "restart"},
    {"import", "reserve", "export", "receive"},
    {"import", "reserve", "export", "receive", "claim"},
    {"import", "reserve", "export", "waste", "nextDay", "expire"},
    {"import", "reserve", "export", "adjust", "nextDay"},
    {"import", "startProduction", "finishProduction"},
    {"import", "startProduction", "waste", "adjust"},
    {"import", "correct", "reserve", "release", "export"},
    {"import", "reserve", "readLedger"},
    {"import", "reserve", "export", "receive", "readShopLedger", "readShopStock"} }

(* Two namesakes, and an administrator who types in their first address. *)
MCUsers == {u1, u2}
MCStores == {shop}
Namesakes == [u \in MCUsers |-> ann]
FirstAddress == {[local |-> ann, suffix |-> 1]}

MCUnits == {kg, piece}
MCUnitNames == {n1, n2}
MCSeedUnits == [u \in {kg} |-> [name |-> n1, active |-> TRUE]]
MCProducts == {flour, meat, bun, salt}
MCSeedProducts ==
  [p \in {flour, meat, bun} |->
     [unit |-> kg, active |-> TRUE,
      type |-> IF p = bun THEN "finished_good" ELSE "raw_material"]]
MCBills == {{flour}, {flour, meat}}
MCRecipes == {r1, r2}
MCSeedRecipes == [r \in {r1} |-> [output |-> bun, items |-> {flour}, active |-> TRUE]]
MCProductionOrders == {w1, w2}
MCLots == {l1}
MCSuppliers == {s1}

MCVehicles == {v1, v2}
MCPlates == {p1, p2}
MCSeedVehicles == [v \in {v1} |-> [plate |-> p1, status |-> "available"]]
MCRoutes == {north}
MCTrips == {m1, m2}

(* Two batches of an ingredient, the first of which is near its end, and    *)
(* what is made of them.                                                   *)
MCArticles == {dough, loaf}
MCBatches == {b1, b2, b3}
MCDeliveries == {b1, b2}
MCArticleOf == [b \in MCBatches |-> IF b = b3 THEN loaf ELSE dough]
MCExpiry == [b \in MCBatches |-> IF b = b1 THEN 2 ELSE 4]
MCMinShelf == [a \in MCArticles |-> 1]
MCShelfLife == [a \in MCArticles |-> 4]
MCMinStock == [a \in MCArticles |-> 2]
(* Orders of two lines of one product, where receipts are at stake. *)
MCSecondLine(scenario) ==
  IF "receive" \in scenario /\ {"claim", "readShopStock"} \cap scenario = {}
  THEN {0, 1} ELSE {0}

MCDiscrepancies(scenario) ==
  IF "readShopStock" \in scenario THEN {<<0, 0>>}
  ELSE IF "claim" \in scenario THEN {<<0, 0>>, <<0, 1>>, <<1, 1>>}
  ELSE {<<0, 0>>, <<1, 1>>}

(* Two shipments of one batch to one shop take seven rows, a shipment that  *)
(* is claimed twice takes six, and so does a production with a loss that    *)
(* takes from two batches.  Shipments of two batches take eight.           *)
MCMaxRows(scenario) ==
  IF "readShopStock" \in scenario THEN 8
  ELSE IF {"claim", "finishProduction"} \cap scenario # {} THEN 6
  ELSE IF "receive" \in scenario THEN 7 ELSE 5

MCKeys == {key}
MCValues == {one, two}
MCSettings == [k \in MCKeys |-> {}]
=============================================================================
